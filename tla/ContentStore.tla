----------------------------- MODULE ContentStore -----------------------------
(***************************************************************************)
(* What the other parts of the operator see of a ProfileBundle's life: the *)
(* bundle comes and goes, and the Profile, Rule and Variable objects of its*)
(* data stream appear one by one, owned by an incarnation of the bundle    *)
(* that may be gone by then, and go only after that incarnation.           *)
(* BundleLifecycle implements this module; TailoredCluster builds on it.   *)
(***************************************************************************)
EXTENDS Naturals

CONSTANTS
    Objects,    \* names of the Profiles, Rules and Variables
    MaxUid      \* how many times the ProfileBundle is created

VARIABLES
    bundle,     \* uid of the ProfileBundle, 0 if there is none
    objs,       \* objs[o]: uid of the ProfileBundle owning o, 0 if o is absent
    born        \* number of ProfileBundles created so far

store == <<bundle, objs, born>>

StoreTypeOK ==
    /\ bundle \in 0..MaxUid
    /\ objs \in [Objects -> 0..MaxUid]
    /\ born \in 0..MaxUid

StoreInit ==
    /\ bundle = 0
    /\ objs = [o \in Objects |-> 0]
    /\ born = 0

CreateBundle ==
    /\ bundle = 0
    /\ born < MaxUid
    /\ born' = born + 1
    /\ bundle' = born + 1
    /\ UNCHANGED objs

DeleteBundle ==
    /\ bundle # 0
    /\ bundle' = 0
    /\ UNCHANGED <<objs, born>>

\* A parser creates o for the incarnation uid, which it may have outlived.
Appear(o, uid) ==
    /\ objs[o] = 0
    /\ objs' = [objs EXCEPT ![o] = uid]
    /\ UNCHANGED <<bundle, born>>

\* The garbage collector deletes o, whose owner is gone.
Vanish(o) ==
    /\ objs[o] # 0
    /\ bundle # 0 => objs[o] # bundle
    /\ objs' = [objs EXCEPT ![o] = 0]
    /\ UNCHANGED <<bundle, born>>

StoreNext ==
    \/ CreateBundle
    \/ DeleteBundle
    \/ \E o \in Objects : (\E uid \in 1..born : Appear(o, uid)) \/ Vanish(o)

StoreSpec == StoreInit /\ [][StoreNext]_store
=============================================================================
