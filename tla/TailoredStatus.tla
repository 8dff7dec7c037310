---------------------------- MODULE TailoredStatus ----------------------------
(***************************************************************************)
(* What a user of a TailoredProfile may rely on, without caches, API calls *)
(* and workers: READY is a promise about the spec that is there when it is *)
(* said, and what is made afterwards, if anything, is what was promised.   *)
(***************************************************************************)
EXTENDS Naturals

CONSTANTS
    Profiles,     \* the names of the Profiles
    Specs,        \* the specs the user writes
    Sound(_),     \* may all selections of this spec be made?
    Document(_),  \* the document made from this spec
    Nothing       \* an output that is not there

VARIABLES
    tailored,  \* the TailoredProfile; its uid is 0 when there is none
    born,      \* number of TailoredProfiles created so far
    promises,  \* the outputs that were announced and may still be made
    made       \* made[k]: the output of kind k

offer == <<tailored, born, promises, made>>

Kinds == {"ConfigMap", "Policy"}

\* output: does the status name an output?
New(uid, s) ==
    [uid |-> uid, spec |-> s, owners |-> {}, state |-> "unset", output |-> "none"]

Init ==
    /\ tailored.uid = 0
    /\ born = 0
    /\ promises = {}
    /\ made = [k \in Kinds |-> Nothing]

-----------------------------------------------------------------------------
(* The user, and the garbage collector *)

Create ==
    /\ tailored.uid = 0
    /\ born' = born + 1
    /\ \E s \in Specs : tailored' = New(born + 1, s)
    /\ UNCHANGED <<promises, made>>

Edit ==
    /\ tailored.uid # 0
    /\ \E s \in Specs : tailored' = [tailored EXCEPT !.spec = s]
    /\ UNCHANGED <<born, promises, made>>

End ==
    /\ tailored.uid # 0
    /\ tailored'.uid = 0
    /\ UNCHANGED <<born, promises, made>>

\* The garbage collector may take owners off, but leaves one.
Disown ==
    /\ tailored.uid # 0
    /\ \E rest \in (SUBSET tailored.owners) \ {{}} :
         tailored' = [tailored EXCEPT !.owners = rest]
    /\ UNCHANGED <<born, promises, made>>

Remove(k) ==
    /\ made' = [made EXCEPT ![k] = Nothing]
    /\ UNCHANGED <<tailored, born, promises>>

-----------------------------------------------------------------------------
(* The controller *)

\* The spec is completed.
Complete ==
    /\ tailored.uid # 0
    /\ tailored.spec.output = "unset"
    /\ tailored' = [tailored EXCEPT !.spec = [@ EXCEPT !.output = "ConfigMap"]]
    /\ UNCHANGED <<born, promises, made>>

\* The Profile that is extended becomes an owner.
Adopt ==
    /\ tailored.uid # 0
    /\ tailored.spec.extends \in Profiles
    /\ tailored' = [tailored EXCEPT !.owners = @ \cup {tailored.spec.extends}]
    /\ UNCHANGED <<born, promises, made>>

\* READY is said of a complete spec with acceptable selections whose Profile is an
\* owner.  The promise may be forgotten at once.
Announce ==
    /\ tailored.uid # 0
    /\ tailored.spec.output \in Kinds
    /\ tailored.spec.extends \in tailored.owners
    /\ Sound(tailored.spec)
    /\ tailored' = [tailored EXCEPT !.state = "READY", !.output = "named"]
    /\ promises' \in {{}, {[of |-> tailored.uid, spec |-> tailored.spec]}}
    /\ UNCHANGED <<born, made>>

Fail ==
    /\ tailored.uid # 0
    /\ tailored' = [tailored EXCEPT !.state = "ERROR"]
    /\ UNCHANGED <<born, promises, made>>

\* What was promised is made, unless something is in its place.
Produce(p) ==
    /\ made[p.spec.output].of = 0
    /\ made' = [made EXCEPT ![p.spec.output] = [of |-> p.of, doc |-> Document(p.spec)]]
    /\ promises' = promises \ {p}
    /\ UNCHANGED <<tailored, born>>

\* A call fails, or the operator dies.
Forget ==
    /\ promises' = {}
    /\ UNCHANGED <<tailored, born, made>>

Next ==
    \/ Forget
    \/ Create \/ Edit \/ End \/ Disown
    \/ \E k \in Kinds : Remove(k)
    \/ Complete \/ Adopt \/ Announce \/ Fail
    \/ \E p \in promises : Produce(p)

Spec == Init /\ [][Next]_offer
=============================================================================
