------------------------ MODULE OperatorLeader_proofs ------------------------
(***************************************************************************)
(* Safety of leader-for-life, for any number of pods, crashes, lost        *)
(* replies, evictions and rollouts.                                        *)
(***************************************************************************)
EXTENDS OperatorLeader, TLAPS

\* A leader holds the lock; and a pod about to be deleted as evicted runs nothing,
\* as a pod once evicted is never started again.
LeaderHoldsLock == \A p \in Pods : Leads(p) => lock = p
DeletedIsDead ==
    \A p \in Pods : pc[p] = "deleteLeader" => phase[existing[p]] # "Running"

\* Only pods that were made have held the lock: a pod that is new is not the one
\* that somebody is about to delete.
HoldersBorn == lock \in 0..born /\ \A p \in Pods : existing[p] \in 0..born

IInv == TypeOK /\ LeaderHoldsLock /\ DeletedIsDead /\ HoldersBorn

-----------------------------------------------------------------------------
LEMMA BudgetType ==
    ASSUME left \in [FaultKinds -> Nat], NEW k \in FaultKinds, Spend(k)
    PROVE  left' \in [FaultKinds -> Nat]
<1>1. left[k] \in Nat /\ left[k] > 0
  BY DEF Spend
<1>2. left[k] - 1 \in Nat
  BY <1>1, SMT
<1> QED
  BY <1>2, Zenon DEF Spend

LEMMA InitIInv == Init => IInv
BY LeaderAssumption DEF Init, IInv, TypeOK, LeaderHoldsLock, DeletedIsDead,
   HoldersBorn, Leads, Pods, Nobody

\* The steps of the processes leave pods and phases alone.
LEMMA BecomeIInv ==
    ASSUME IInv, NEW p \in Pods, Become(p)
    PROVE  IInv'
<1> USE DEF IInv, TypeOK, LeaderHoldsLock, DeletedIsDead, HoldersBorn, Leads, Goto, cluster
<1>0. Nobody \notin Pods
  BY DEF Pods, Nobody
<1>1. CASE GetLock(p)
  BY <1>0, <1>1 DEF GetLock, Mine
<1>2. CASE CreateLock(p)
  <2>1. p \in 0..born
    BY <1>2, LeaderAssumption DEF CreateLock, Pods
  <2> QED
    BY <1>0, <1>2, <2>1 DEF CreateLock, AfterExists
<1>3. CASE GetLeader(p)
  BY <1>0, <1>3 DEF GetLeader, AfterGetLeader, IsPodEvicted
<1>4. CASE DeleteLeader(p)
  <2>1. existing[p] \in Pods
    BY <1>0, <1>4 DEF DeleteLeader
  <2>2. existing[p] \in 1..born
    BY <2>1, <1>4, LeaderAssumption DEF Pods
  <2> QED
    BY <2>1, <2>2, <1>4 DEF DeleteLeader
<1> QED
  BY <1>1, <1>2, <1>3, <1>4 DEF Become

LEMMA FaultIInv ==
    ASSUME IInv, NEW p \in Pods, CreateLockLost(p) \/ ProcessExits(p)
    PROVE  IInv'
<1> USE DEF IInv, TypeOK, LeaderHoldsLock, DeletedIsDead, HoldersBorn, Leads, Goto
<1>0. Nobody \notin Pods /\ {"crash", "api"} \subseteq FaultKinds
  BY DEF Pods, Nobody, FaultKinds
<1>1. CASE CreateLockLost(p)
  <2>1. left' \in [FaultKinds -> Nat]
    BY <1>0, <1>1, BudgetType DEF CreateLockLost
  <2>2. p \in 0..born
    BY <1>1, LeaderAssumption DEF CreateLockLost, Pods
  <2> QED
    BY <1>0, <1>1, <2>1, <2>2 DEF CreateLockLost
<1>2. CASE ProcessExits(p)
  <2>1. left' \in [FaultKinds -> Nat]
    BY <1>0, <1>2, BudgetType DEF ProcessExits
  <2> QED
    BY <1>0, <1>2, <2>1 DEF ProcessExits
<1> QED
  BY <1>1, <1>2

\* A pod's phase changes: a new pod has no process before, an evicted or a
\* removed one none after.
LEMMA PodIInv ==
    ASSUME IInv, MakePod \/ \E p \in Pods : ScaleDown(p) \/ Evict(p) \/ RemovePod(p)
    PROVE  IInv'
<1> USE DEF IInv, TypeOK, LeaderHoldsLock, DeletedIsDead, HoldersBorn, Leads, Goto
<1>0. Nobody \notin Pods /\ {"evict", "rollout"} \subseteq FaultKinds
  BY DEF Pods, Nobody, FaultKinds
<1>1. CASE MakePod
  <2>1. left' \in [FaultKinds -> Nat]
    BY <1>0, <1>1, BudgetType DEF MakePod
  <2>2. born + 1 \in Pods /\ born' \in 0..MaxPods
    BY <1>1, LeaderAssumption DEF MakePod, Pods
  <2>3. phase[born + 1] = "none" /\ pc[born + 1] = "off"
    BY <2>2, LeaderAssumption DEF Pods
  <2>4. TypeOK'
    <3>1. deleting' \in SUBSET {p \in 1..born' : phase'[p] # "none"}
      BY <1>1, <2>2, <2>3, LeaderAssumption DEF MakePod, Pods
    <3>2. \A p \in Pods : p > born' => phase'[p] = "none"
      BY <1>1, <2>2, LeaderAssumption DEF MakePod, Pods
    <3>3. \A p \in Pods : pc'[p] # "off" => phase'[p] = "Running"
      BY <1>1, <2>2 DEF MakePod
    <3>4. \A p \in Pods : pc'[p] \in {"getLeader", "deleteLeader"} => existing'[p] # Nobody
      BY <1>1, <2>2 DEF MakePod
    <3> QED
      BY <1>1, <2>1, <2>2, <3>1, <3>2, <3>3, <3>4 DEF MakePod
  <2>5. LeaderHoldsLock'
    BY <1>1, <2>2, <2>3 DEF MakePod
  <2>6. DeletedIsDead'
    BY <1>1, <2>2, LeaderAssumption DEF MakePod, Pods
  <2>7. HoldersBorn'
    BY <1>1, LeaderAssumption DEF MakePod, Pods
  <2> QED
    BY <2>4, <2>5, <2>6, <2>7
<1>2. ASSUME NEW p \in Pods, ScaleDown(p)
      PROVE  IInv'
  BY <1>2, LeaderAssumption DEF ScaleDown, Active, Pods
<1>3. ASSUME NEW p \in Pods, Evict(p)
      PROVE  IInv'
  <2>1. left' \in [FaultKinds -> Nat]
    BY <1>0, <1>3, BudgetType DEF Evict
  <2> QED
    BY <1>0, <1>3, <2>1 DEF Evict
<1>4. ASSUME NEW p \in Pods, RemovePod(p)
      PROVE  IInv'
  <2>1. \A q \in Pods : q # p => phase'[q] = phase[q] /\ pc'[q] = pc[q]
    BY <1>4 DEF RemovePod
  <2>2. phase'[p] = "none" /\ pc'[p] = "off"
    BY <1>4 DEF RemovePod
  <2>3. deleting' \in SUBSET {q \in 1..born' : phase'[q] # "none"}
    BY <1>4, <2>1, <2>2, LeaderAssumption DEF RemovePod, Pods
  <2>4. TypeOK'
    BY <1>4, <2>1, <2>2, <2>3 DEF RemovePod
  <2>5. LeaderHoldsLock' /\ DeletedIsDead' /\ HoldersBorn'
    BY <1>0, <1>4, <2>1, <2>2 DEF RemovePod
  <2> QED
    BY <2>4, <2>5
<1> QED
  BY <1>1, <1>2, <1>3, <1>4

\* The lock of a pod that is gone is nobody's who leads.
LEMMA CollectIInv ==
    ASSUME IInv, CollectLock
    PROVE  IInv'
<1> USE DEF CollectLock, cluster
<1>1. TypeOK'
  BY DEF IInv, TypeOK
<1>2. LeaderHoldsLock'
  BY DEF IInv, TypeOK, LeaderHoldsLock, Leads
<1>3. DeletedIsDead' /\ HoldersBorn'
  <2>1. 0 \in 0..born
    BY SMT DEF IInv, TypeOK
  <2> QED
    BY <2>1 DEF IInv, DeletedIsDead, HoldersBorn, Nobody
<1> QED
  BY <1>1, <1>2, <1>3 DEF IInv

\* The invariant is inductive.
THEOREM Invariance == Spec => []IInv
<1>1. Init => IInv
  BY InitIInv
<1>2. IInv /\ [Next]_vars => IInv'
  <2> SUFFICES ASSUME IInv, [Next]_vars
               PROVE  IInv'
    OBVIOUS
  <2>1. CASE UNCHANGED vars
    BY <2>1 DEF vars, cluster, IInv, TypeOK, LeaderHoldsLock, DeletedIsDead,
       HoldersBorn, Leads
  <2>2. CASE Next
    BY <2>2, BecomeIInv, FaultIInv, PodIInv, CollectIInv DEF Next
  <2> QED
    BY <2>1, <2>2
<1> QED
  BY <1>1, <1>2, PTL DEF Spec

\* Every reachable state is well-typed; a process runs in a running pod only.
THEOREM TypeCorrect == Spec => []TypeOK
<1>1. IInv => TypeOK
  BY DEF IInv
<1> QED
  BY <1>1, Invariance, PTL

\* Two operators never lead at the same time (leader.go:78-109), however many pods
\* there are and whatever becomes of them.
THEOREM OneLeaderAlways == Spec => []OneLeader
<1>1. IInv => OneLeader
  BY DEF IInv, LeaderHoldsLock, OneLeader
<1> QED
  BY <1>1, Invariance, PTL

\* No waiting pod ever has the pod of a working operator deleted
\* (leader.go:126-130).
THEOREM OperatorsAlwaysSpared == Spec => OperatorsSpared
<1> DEFINE Spared ==
      \A p \in Pods : pc[p] = "deleteLeader" /\ pc'[p] = "createLock"
         => \A q \in deleting' \ deleting : pc[q] = "off"
<1>1. ASSUME IInv, Next
      PROVE  Spared
  <2> SUFFICES ASSUME NEW p \in Pods, pc[p] = "deleteLeader", pc'[p] = "createLock",
                      NEW q \in deleting' \ deleting
               PROVE  pc[q] = "off"
    OBVIOUS
  <2>1. DeleteLeader(p)
    <3> USE DEF IInv, TypeOK, Goto
    <3>1. \A r \in Pods : GetLock(r) \/ CreateLock(r) \/ GetLeader(r) => pc'[p] = pc[p]
      BY <1>1 DEF GetLock, CreateLock, GetLeader
    <3>2. \A r \in Pods : CreateLockLost(r) \/ ProcessExits(r) => pc'[p] \in {pc[p], "getLock"}
      BY <1>1 DEF CreateLockLost, ProcessExits
    <3>3. \A r \in Pods : Evict(r) \/ RemovePod(r) \/ ScaleDown(r) => pc'[p] \in {pc[p], "off"}
      BY <1>1 DEF Evict, RemovePod, ScaleDown
    <3>4. MakePod \/ CollectLock => pc'[p] \in {pc[p], "getLock"}
      BY <1>1 DEF MakePod, CollectLock
    <3>5. \A r \in Pods : DeleteLeader(r) => r = p \/ pc'[p] = pc[p]
      BY <1>1 DEF DeleteLeader
    <3> QED
      BY <1>1, <3>1, <3>2, <3>3, <3>4, <3>5, Zenon DEF Next, Become
  <2>2. q = existing[p] /\ q \in Pods
    BY <2>1, <1>1 DEF DeleteLeader, IInv, TypeOK, Nobody, Pods
  <2> QED
    BY <1>1, <2>2 DEF IInv, TypeOK, DeletedIsDead
<1>2. IInv /\ [Next]_vars => [Spared]_vars
  BY <1>1
<1> QED
  BY <1>2, Invariance, PTL DEF Spec, OperatorsSpared
=============================================================================
