------------------------------- MODULE MCLeader -------------------------------
(* A small instance of OperatorLeader: one crash, one lost reply, one eviction *)
(* and two rollouts need four pods at most.                                    *)
EXTENDS OperatorLeader

MCBudget == [crash |-> 1, api |-> 1, evict |-> 1, rollout |-> 2]
=============================================================================
