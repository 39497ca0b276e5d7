------------------------------ MODULE AgentLog ------------------------------
(***************************************************************************)
(* AgentNode with one proposer, compared with ReplicatedLog: the chain of  *)
(* each node is its log, the proposer is the leader.                       *)
(***************************************************************************)
EXTENDS AgentNode

CONSTANT Leader     \* the only agent that submits proposals

ASSUME LeaderAssumption ==
    Leader \in Agent /\ \A p \in Proposal : ProposerOf[p] = Leader

\* A block tells the log which proposal was decided, and how.
DecisionOf(block) == [proposal |-> block.proposal, status |-> block.status]

LogOf(chain) == [i \in DOMAIN chain |-> DecisionOf(chain[i])]

Log == INSTANCE ReplicatedLog WITH
          Node <- Agent, Outcome <- FinalStatus,
          log <- [n \in Agent |-> LogOf(core[n].chain)]

\* With one proposer the chains are one log that every node learns in order,
\* even though blocks may overtake each other on the way and some handlers
\* raise half way through.
ImplementsReplicatedLog == Log!Spec

\* A node that holds the proposer's whole chain also holds the reputations the
\* proposer computed, although it only imported absolute scores, in whatever
\* order the blocks came.
ChainTellsScores ==
    \A n \in Agent :
        core[n].chain = core[Leader].chain => core[n].score = core[Leader].score
=============================================================================
