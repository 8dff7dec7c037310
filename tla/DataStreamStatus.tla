--------------------------- MODULE DataStreamStatus ---------------------------
(***************************************************************************)
(* What a user of a ProfileBundle may rely on, without pods, caches and    *)
(* API calls: the life of status.dataStreamStatus.  A bundle is judged     *)
(* sooner or later, unless its pod is stuck; the verdict VALID comes from  *)
(* a parser pod that is not, and is taken back only by a later parser      *)
(* run or once the pod is gone.  While the controller's knowledge of pods  *)
(* lags, it may also take back what it does not know of; VALID still comes *)
(* from a parser pod only.                                                 *)
(***************************************************************************)
CONSTANT
    Lag       \* may the controller's knowledge of the pod be out of date?

VARIABLES
    status,   \* "absent" (no bundle), "unset" (not seen yet) or dataStreamStatus
    hosted    \* is there a parser pod ("yes"), or one that does not start for a
              \* reason that the controller does not look for ("stuck")?

Verdicts == {"VALID", "INVALID"}

TypeOK ==
    /\ status \in {"absent", "unset", "PENDING"} \cup Verdicts
    /\ hosted \in {"no", "stuck", "yes"}

Init == status = "absent" /\ hosted = "no"

Create == status = "absent" /\ status' = "unset" /\ hosted' = hosted
Delete == status # "absent" /\ status' = "absent" /\ hosted' = hosted

\* Parser pods come and go, and are stuck for a while or for good.
Host == hosted' \in {"no", "stuck", "yes"} \ {hosted} /\ status' = status

\* No pod has processed, or is processing, the data stream, or none that the
\* controller knows of.
Withdraw ==
    /\ status # "absent"
    /\ Lag \/ hosted = "no"
    /\ status' = "PENDING"
    /\ hosted' = hosted

\* A verdict.  That the pod cannot start may be reported late, but against a
\* VALID bundle only by a controller that does not know the pod as it is.
Judge ==
    /\ status # "absent"
    /\ \/ hosted = "yes" /\ status' \in Verdicts
       \/ (Lag \/ status # "VALID") /\ status' = "INVALID"
    /\ hosted' = hosted

Next == Create \/ Delete \/ Host \/ Withdraw \/ Judge

Unjudged == status \in {"unset", "PENDING"}

\* What may happen ...
Safety == Init /\ [][Next]_<<status, hosted>>

\* ... and that a bundle does not stay unjudged while its pod is not stuck.
Spec == Safety /\ WF_<<status, hosted>>(Unjudged /\ hosted # "stuck" /\ Judge)
=============================================================================
