---------------------------- MODULE OperatorLeader ----------------------------
(***************************************************************************)
(* Becoming the leader (cmd/manager/main.go:91): the operator's process    *)
(* starts its controllers when leader.Become returns.  The lock is a       *)
(* ConfigMap owned by the pod that created it; it goes when that pod goes. *)
(* Around it: the Deployment (one replica, rolling updates), which never   *)
(* uses a pod's name again, the kubelet and the garbage collector.  The    *)
(* processes of a pod end before it is marked as evicted and before it is  *)
(* removed.                                                                *)
(***************************************************************************)
EXTENDS Naturals

CONSTANTS
    MaxPods,    \* how many pods the Deployment makes
    Budget      \* Budget[k]: how many times a fault of kind k happens

FaultKinds == {"crash",    \* the process exits and its container is restarted
               "api",      \* creating the lock takes effect, its reply is lost
               "evict",    \* the kubelet evicts a pod
               "rollout"}  \* a new version of the operator is rolled out

ASSUME LeaderAssumption ==
    MaxPods \in Nat /\ Budget \in [FaultKinds -> Nat]

Pods == 1..MaxPods   \* in the order in which they are made
Nobody == 0

VARIABLES
    born,       \* the pods made so far are 1..born
    phase,      \* phase[p]: "none" before the pod p is made and when it is gone
    deleting,   \* the pods with a deletionTimestamp
    lock,       \* the pod that owns the lock, Nobody if there is no lock
    pc,         \* pc[p]: what the process in p does next, "off" if there is none
    existing,   \* existing[p]: the owner of the lock that p found at its start
    left        \* left[k]: faults of kind k that may still happen

cluster == <<born, phase, deleting, left>>
vars == <<cluster, lock, pc, existing>>

TypeOK ==
    /\ born \in 0..MaxPods
    /\ phase \in [Pods -> {"none", "Running", "Evicted"}]
    /\ deleting \in SUBSET {p \in 1..born : phase[p] # "none"}
    /\ lock \in Pods \cup {Nobody}
    /\ pc \in [Pods -> {"off", "getLock", "createLock", "getLeader",
                        "deleteLeader", "leader"}]
    /\ existing \in [Pods -> Pods \cup {Nobody}]
    /\ left \in [FaultKinds -> Nat]
    /\ \A p \in Pods : p > born => phase[p] = "none"
    /\ \A p \in Pods : pc[p] # "off" => phase[p] = "Running"
    /\ \A p \in Pods : pc[p] \in {"getLeader", "deleteLeader"} => existing[p] # Nobody

Init ==
    /\ born = 0
    /\ phase = [p \in Pods |-> "none"]
    /\ deleting = {}
    /\ lock = Nobody
    /\ pc = [p \in Pods |-> "off"]
    /\ existing = [p \in Pods |-> Nobody]
    /\ left = Budget

Spend(k) == left[k] > 0 /\ left' = [left EXCEPT ![k] = @ - 1]
Goto(p, next) == pc' = [pc EXCEPT ![p] = next]

\* The pods that count as the Deployment's replicas.
Active == {p \in Pods : phase[p] = "Running" /\ p \notin deleting}

-----------------------------------------------------------------------------
(* leader.Become, in the pod p *)

\* Is the lock p's own, from before its container was restarted?  (Any: or
\* anybody's.)
MineAny(p) == lock # Nobody
Mine(p) == lock = p

\* The lock is looked at once, before the loop.
GetLock(p) ==
    /\ pc[p] = "getLock"
    /\ IF Mine(p) THEN Goto(p, "leader") /\ UNCHANGED existing
       ELSE Goto(p, "createLock") /\ existing' = [existing EXCEPT ![p] = lock]
    /\ UNCHANGED <<cluster, lock>>

\* A lock that is there makes p look at the pod that owned the lock it found at
\* its start, and wait if it had found none.  (Unchecked: look all the same.)
AfterExistsUnchecked(p) == "getLeader"
AfterExists(p) == IF existing[p] = Nobody THEN "createLock" ELSE "getLeader"

CreateLock(p) ==
    /\ pc[p] = "createLock"
    /\ IF lock = Nobody THEN lock' = p /\ Goto(p, "leader")
                        ELSE lock' = lock /\ Goto(p, AfterExists(p))
    /\ UNCHANGED <<cluster, existing>>

\* The lock is created, but the reply is lost: the process exits and is restarted.
CreateLockLost(p) ==
    /\ pc[p] = "createLock"
    /\ lock = Nobody
    /\ lock' = p
    /\ Goto(p, "getLock")
    /\ Spend("api")
    /\ UNCHANGED <<born, phase, deleting, existing>>

\* (Present: every pod that is there.)
IsPodPresent(q) == phase[q] # "none"
IsPodEvicted(q) == phase[q] = "Evicted"

\* The pod of the leader is deleted if it was evicted.  (Patient: it is waited for.)
AfterGetLeaderPatient(q) == "createLock"
AfterGetLeader(q) ==
    IF IsPodEvicted(q) /\ q \notin deleting THEN "deleteLeader" ELSE "createLock"

GetLeader(p) ==
    /\ pc[p] = "getLeader"
    /\ Goto(p, AfterGetLeader(existing[p]))
    /\ UNCHANGED <<cluster, lock, existing>>

DeleteLeader(p) ==
    /\ pc[p] = "deleteLeader"
    /\ deleting' = IF phase[existing[p]] = "none" THEN deleting
                                                  ELSE deleting \cup {existing[p]}
    /\ Goto(p, "createLock")
    /\ UNCHANGED <<born, phase, left, lock, existing>>

\* The process exits and its container is restarted.
ProcessExits(p) ==
    /\ pc[p] # "off"
    /\ Spend("crash")
    /\ Goto(p, "getLock")
    /\ UNCHANGED <<born, phase, deleting, lock, existing>>

Become(p) == GetLock(p) \/ CreateLock(p) \/ GetLeader(p) \/ DeleteLeader(p)

-----------------------------------------------------------------------------
(* Deployment, kubelet, garbage collector *)

\* A pod is made when there is none, or, in a rollout, beside the one there is.
MakePod ==
    /\ born < MaxPods
    /\ IF Active = {} THEN left' = left ELSE Spend("rollout")
    /\ born' = born + 1
    /\ phase' = [phase EXCEPT ![born + 1] = "Running"]
    /\ pc' = [pc EXCEPT ![born + 1] = "getLock"]
    /\ UNCHANGED <<deleting, lock, existing>>

\* A pod of an older version is deleted once a newer one runs.
ScaleDown(p) ==
    /\ p \in Active
    /\ \E q \in Active : p < q
    /\ deleting' = deleting \cup {p}
    /\ UNCHANGED <<born, phase, left, lock, pc, existing>>

Evict(p) ==
    /\ phase[p] = "Running"
    /\ p \notin deleting
    /\ Spend("evict")
    /\ phase' = [phase EXCEPT ![p] = "Evicted"]
    /\ Goto(p, "off")
    /\ UNCHANGED <<born, deleting, lock, existing>>

RemovePod(p) ==
    /\ p \in deleting
    /\ deleting' = deleting \ {p}
    /\ phase' = [phase EXCEPT ![p] = "none"]
    /\ Goto(p, "off")
    /\ UNCHANGED <<born, left, lock, existing>>

CollectLock ==
    /\ lock # Nobody
    /\ phase[lock] = "none"
    /\ lock' = Nobody
    /\ UNCHANGED <<cluster, pc, existing>>

-----------------------------------------------------------------------------
Next ==
    \/ MakePod
    \/ CollectLock
    \/ \E p \in Pods : \/ Become(p) \/ CreateLockLost(p) \/ ProcessExits(p)
                       \/ ScaleDown(p) \/ Evict(p) \/ RemovePod(p)

Spec == Init /\ [][Next]_vars

\* The processes run, the Deployment keeps its replica (and has a pod left to
\* make), the kubelet removes what is to be deleted, garbage is collected.
\* Nothing is assumed of a second pod in a rollout.
Fairness ==
    /\ WF_vars(MakePod /\ Active = {})
    /\ WF_vars(CollectLock)
    /\ \A p \in Pods : WF_vars(Become(p)) /\ WF_vars(ScaleDown(p)) /\ WF_vars(RemovePod(p))

FairSpec == Spec /\ Fairness

-----------------------------------------------------------------------------
Leads(p) == pc[p] = "leader"

\* "There is no possibility for multiple pods to think they are the leader at
\* the same time", so that the controllers of two operators never run together.
OneLeader == \A p, q \in Pods : Leads(p) /\ Leads(q) => p = q

\* A pod that waits for the lock never has the pod of a working operator deleted,
\* although it looks at that pod one call before it deletes it.
OperatorsSpared ==
    [][\A p \in Pods : pc[p] = "deleteLeader" /\ pc'[p] = "createLock"
         => \A q \in deleting' \ deleting : pc[q] = "off"]_vars

\* The lock belongs to an evicted pod, and no pod that runs knows it: each found
\* another lock, or none, when it started, and does not look again.
LockLost ==
    /\ lock # Nobody
    /\ phase[lock] = "Evicted"
    /\ lock \notin deleting
    /\ \A p \in Active : existing[p] # lock

\* In the end one operator works, after every crash, eviction and rollout that
\* does not lose the lock, as long as the Deployment has pods to make.
EventuallyLed == <>[]((\E p \in Pods : Leads(p)) \/ LockLost)
=============================================================================
