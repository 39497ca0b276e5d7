----------------------------- MODULE MCAgentLog -----------------------------
(* AgentLog with one follower: what matters is the order of its blocks. *)
EXTENDS AgentLog

CONSTANTS n1, n2, p1, p2

OneProposer == [p \in Proposal |-> n1]

\* Each agent may support or reject either proposal.
Partisan == [p \in Proposal |-> [n \in Agent |-> {"support", "reject"}]]
=============================================================================
