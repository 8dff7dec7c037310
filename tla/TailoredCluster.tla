--------------------------- MODULE TailoredCluster ---------------------------
(***************************************************************************)
(* The part of the cluster that the life of one TailoredProfile touches:   *)
(* the content it tailors (ContentStore), the TailoredProfile, the         *)
(* ConfigMap or Policy made from it, the operator's informer caches, the   *)
(* user and the garbage collector.  As in BundleCluster, the set fresh     *)
(* stands for resourceVersions: it holds the copies that are current.      *)
(* What the controller has read of the content may be gone when it acts on *)
(* it; with ContentLag, it may be gone or not be there when it is read.    *)
(* Objects are those of one bundle.  Rules and Variables of other bundles  *)
(* in the namespace may be selected as well.                               *)
(***************************************************************************)
EXTENDS ContentStore, TailoringDocument

CONSTANTS
    Specs,      \* the specs the user writes
    ContentLag, \* may the caches of the content lag?
    MaxTp,      \* how many times the user creates the TailoredProfile
    Budget      \* Budget[k]: how many times a fault of kind k happens

FaultKinds == {"api",    \* an API call fails, or its reply is lost
               "crash",  \* the operator dies
               "late",   \* a parser creates an object of a deleted bundle
               "edit",   \* the user changes the TailoredProfile's spec
               "remove"} \* the user deletes the output object

Defaulted(s) == [s EXCEPT !.output = "ConfigMap"]

\* owners[p]: the incarnation of the Profile p in the ownerReferences, 0 when
\* there is none.  err: is errorMessage set?  ref: status.outputRef, which is
\* "dangling" when it has the ConfigMap's name and an empty namespace.
Tailored == [uid: 0..MaxTp, spec: TailoredSpec,
             owners: [Profiles -> 0..MaxUid],
             state: {"unset", "READY", "ERROR"}, err: BOOLEAN,
             ref: {"none", "configMap", "dangling"}]

\* An output object with its document, made for the incarnation of.  The
\* ConfigMap has that TailoredProfile as its owner; the Policy has no owner.
Output == [of: 0..MaxTp, doc: TailoringDoc]

NoOwners == [p \in Profiles |-> 0]
AnySpec == CHOOSE s \in Specs : TRUE
New(uid, s) == [uid |-> uid, spec |-> s, owners |-> NoOwners,
                state |-> "unset", err |-> FALSE, ref |-> "none"]
NoTailored == New(0, AnySpec)
NoOutput == [of |-> 0, doc |-> NoDocument]

TpCopies == {"tpCache", "instance"}
Copies == TpCopies \cup {"cmCache"}

ASSUME TailoredAssumption ==
    /\ Specs # {} /\ Specs \subseteq TailoredSpec
    /\ Profiles \subseteq Objects /\ Objects \subseteq Named
    /\ \A o \in Objects, q \in Named : q \in Objects <=> BundleOf[q] = BundleOf[o]
    /\ MaxTp \in Nat /\ MaxUid \in Nat
    /\ ContentLag \in BOOLEAN
    /\ Budget \in [FaultKinds -> Nat]

VARIABLES
    tp,        \* the TailoredProfile
    cm,        \* the ConfigMap named after it
    policy,    \* the Policy named after it
    tpCache,   \* the operator's informer cache of the TailoredProfile
    cmCache,   \* ... and of the ConfigMap: is it there?
    fresh,     \* the copies that hold their object's current version
    queued,    \* is the TailoredProfile's name in the workqueue?
    tpBorn,    \* number of TailoredProfiles created so far
    left       \* left[k]: faults of kind k that may still happen

cluster == <<store, tp, cm, policy, tpCache, cmCache, fresh, queued, tpBorn, left>>

ClusterTypeOK ==
    /\ StoreTypeOK
    /\ tp \in Tailored
    /\ cm \in Output
    /\ policy \in Output
    /\ tpCache \in Tailored
    /\ cmCache \in BOOLEAN
    /\ fresh \in SUBSET Copies
    /\ queued \in BOOLEAN
    /\ tpBorn \in 0..MaxTp
    /\ left \in [FaultKinds -> Nat]

ClusterInit ==
    /\ StoreInit
    /\ tp = NoTailored
    /\ cm = NoOutput
    /\ policy = NoOutput
    /\ tpCache = NoTailored
    /\ cmCache = FALSE
    /\ fresh = {"tpCache", "cmCache"}
    /\ queued = FALSE
    /\ tpBorn = 0
    /\ left = Budget

-----------------------------------------------------------------------------
(* The API server *)

WriteTailored(new, released) ==
    /\ tp' = new
    /\ fresh' = (IF new = tp THEN fresh ELSE fresh \ TpCopies) \ released

WriteConfigMap(new, released) ==
    /\ cm' = new
    /\ fresh' = (fresh \ {"cmCache"}) \ released

Spend(k) == left[k] > 0 /\ left' = [left EXCEPT ![k] = @ - 1]
Answered(lost) == IF lost THEN Spend("api") ELSE left' = left

\* Some Profile in the ownerReferences exists, or there are none.
Adopted(t) == \E p \in Profiles : t.owners[p] # 0
OwnerLives(t) == \E p \in Profiles : t.owners[p] # 0 /\ t.owners[p] = objs[p]

-----------------------------------------------------------------------------
(* The content comes and goes as ContentStore says. *)

\* What the operator's cache may hold of an object, or a bundle, which is the
\* incarnation now.  A lagging cache is taken to hold any incarnation or none: more
\* than what one that follows the object's history can hold.
Seen(now) == IF ContentLag THEN 0..born ELSE {now}

\* Is the object found?  Those of other bundles, whose life is not modelled, may be
\* there or not.
Found(o) == IF o \in Objects THEN {uid # 0 : uid \in Seen(objs[o])} ELSE BOOLEAN

Content ==
    /\ \/ (CreateBundle \/ DeleteBundle) /\ left' = left
       \/ \E o \in Objects : \E uid \in 1..born :
            /\ Appear(o, uid)
            /\ IF uid = bundle THEN left' = left ELSE Spend("late")
    /\ UNCHANGED <<tp, cm, policy, tpCache, cmCache, fresh, queued, tpBorn>>

CollectContent(o) ==
    /\ Vanish(o)
    /\ UNCHANGED <<tp, cm, policy, tpCache, cmCache, fresh, queued, tpBorn, left>>

-----------------------------------------------------------------------------
(* The user *)

CreateTailored(s) ==
    /\ tp.uid = 0
    /\ tpBorn < MaxTp
    /\ tpBorn' = tpBorn + 1
    /\ WriteTailored(New(tpBorn + 1, s), {})
    /\ UNCHANGED <<store, cm, policy, tpCache, cmCache, queued, left>>

DeleteTailored ==
    /\ tp.uid # 0
    /\ WriteTailored(NoTailored, {})
    /\ UNCHANGED <<store, cm, policy, tpCache, cmCache, queued, tpBorn, left>>

EditTailored(s) ==
    /\ tp.uid # 0
    /\ tp.spec # s
    /\ Spend("edit")
    /\ WriteTailored([tp EXCEPT !.spec = s], {})
    /\ UNCHANGED <<store, cm, policy, tpCache, cmCache, queued, tpBorn>>

RemoveOutput ==
    /\ Spend("remove")
    /\ \/ cm.of # 0 /\ WriteConfigMap(NoOutput, {}) /\ UNCHANGED policy
       \/ policy.of # 0 /\ policy' = NoOutput /\ UNCHANGED <<cm, fresh>>
    /\ UNCHANGED <<store, tp, tpCache, cmCache, queued, tpBorn>>

-----------------------------------------------------------------------------
(* The garbage collector *)

CollectTailored ==
    /\ tp.uid # 0
    /\ Adopted(tp)
    /\ ~OwnerLives(tp)
    /\ WriteTailored(NoTailored, {})
    /\ UNCHANGED <<store, cm, policy, tpCache, cmCache, queued, tpBorn, left>>

\* An owner that is gone is taken off when another one lives.
LiveOwners(t) ==
    [p \in Profiles |-> IF t.owners[p] = objs[p] THEN t.owners[p] ELSE 0]

DropOwners ==
    /\ tp.uid # 0
    /\ OwnerLives(tp)
    /\ LiveOwners(tp) # tp.owners
    /\ WriteTailored([tp EXCEPT !.owners = LiveOwners(tp)], {})
    /\ UNCHANGED <<store, cm, policy, tpCache, cmCache, queued, tpBorn, left>>

\* The ConfigMap's controller reference leads to a TailoredProfile that is gone.
\* (Forgotten: what would be if the reference were not set.)
ConfigMapForgotten == FALSE
ConfigMapCollectable == tp.uid # 0 => tp.uid # cm.of

CollectConfigMap ==
    /\ cm.of # 0
    /\ ConfigMapCollectable
    /\ WriteConfigMap(NoOutput, {})
    /\ UNCHANGED <<store, tp, policy, tpCache, cmCache, queued, tpBorn, left>>

-----------------------------------------------------------------------------
(* The operator's informers.  A ConfigMap's event enqueues the name in its  *)
(* controller reference.  Policies are not watched.                         *)

SyncTailored ==
    /\ "tpCache" \notin fresh
    /\ tpCache' = tp
    /\ fresh' = fresh \cup {"tpCache"}
    /\ queued' = TRUE
    /\ UNCHANGED <<store, tp, cm, policy, cmCache, tpBorn, left>>

SyncConfigMap ==
    /\ "cmCache" \notin fresh
    /\ cmCache' = (cm.of # 0)
    /\ fresh' = fresh \cup {"cmCache"}
    /\ queued' = TRUE
    /\ UNCHANGED <<store, tp, cm, policy, tpCache, tpBorn, left>>

\* The periodic resync of the informers.  (NoResync: when it is turned off.)
NoResync == FALSE /\ UNCHANGED cluster

Resync ==
    /\ tpCache.uid # 0 \/ cmCache
    /\ queued' = TRUE
    /\ UNCHANGED <<store, tp, cm, policy, tpCache, cmCache, fresh, tpBorn, left>>
=============================================================================
