----------------------------- MODULE ProtocolCore -----------------------------
(***************************************************************************)
(* ProtocolCore of packages/protocol-core: the protocol state one node     *)
(* holds in memory, with its ReputationLedger and its ImmutableChain, as   *)
(* operators from a core to the next.  A core is a record                  *)
(*                                                                         *)
(*   proposals  the proposals known here                                   *)
(*   votes      per proposal, the decision of each voter (Consensus.tla)   *)
(*   results    per proposal, the final status, or "none"                  *)
(*   score      the reputation of every agent                              *)
(*   history    the reputation events, one entry per settled outcome       *)
(*   chain      the blocks                                                 *)
(*                                                                         *)
(* The audit trail is a log nothing in the core reads back; it is left to  *)
(* the module that restores a node from a snapshot.  Signing, schemas and  *)
(* time stamps are left out: every node here runs this code.               *)
(***************************************************************************)
EXTENDS Consensus, Sequences

CONSTANTS
    Agent,              \* the registered agents, the same at every node
    Proposal,           \* proposal ids; an id determines its proposer
    InitialReputation,  \* AgentRecord.reputation of every seed agent
    MaxReputation,      \* MAX_REPUTATION
    AlignedReward,      \* reputation policy: vote with the outcome
    OpposedPenalty,     \* reputation policy: vote against the outcome
    AbstainPenalty      \* reputation policy: no opinion

ASSUME CoreAssumption ==
    /\ IsFiniteSet(Agent)
    /\ {MaxReputation, AlignedReward, OpposedPenalty, AbstainPenalty} \subseteq Nat
    /\ InitialReputation \in 0 .. MaxReputation

NoVotes == [v \in {} |-> "abstain"]

InitCore ==
    [ proposals |-> {},
      votes     |-> [p \in Proposal |-> NoVotes],
      results   |-> [p \in Proposal |-> "none"],
      score     |-> [a \in Agent |-> InitialReputation],
      history   |-> <<>>,
      chain     |-> <<>> ]

HasProposal(core, p) == p \in core.proposals

IsFinalized(core, p) == core.results[p] # "none"

\* submitProposal forgets the votes of an id it already holds.
SubmitProposal(core, p) ==
    [core EXCEPT !.proposals = @ \cup {p}, !.votes[p] = NoVotes]

\* recordVote keeps the first vote of a voter and returns it ever after.
RecordVote(core, p, a, d) ==
    IF a \in DOMAIN core.votes[p]
    THEN core
    ELSE [core EXCEPT !.votes[p] =
             [v \in DOMAIN @ \cup {a} |-> IF v = a THEN d ELSE @[v]]]

-----------------------------------------------------------------------------
(* ReputationLedger *)

ClampReputation(x) ==
    CASE x < 0             -> 0
      [] x > MaxReputation -> MaxReputation
      [] OTHER             -> x

Delta(decision, status) ==
    CASE decision = "abstain"                           -> -AbstainPenalty
      [] <<decision, status>> \in { <<"support", "accepted">>,
                                    <<"reject", "rejected">> } -> AlignedReward
      [] OTHER                                          -> -OpposedPenalty

\* applyConsensusOutcome: one event per vote, none for a timeout.  Each voter
\* has one vote, so the loop is a single update of the scores.
OutcomeEvents(score, votes, status) ==
    [v \in IF status = "timed_out" THEN {} ELSE DOMAIN votes |->
        [ before |-> score[v],
          after  |-> ClampReputation(score[v] + Delta(votes[v], status)) ]]

\* importEvents: the sender's absolute score replaces the local one.
ImportEvents(score, events) ==
    [a \in Agent |-> IF a \in DOMAIN events
                     THEN ClampReputation(events[a].after) ELSE score[a]]

-----------------------------------------------------------------------------
(* ImmutableChain *)

\* SHA-256 as a free constructor: a hash names the content of its block and
\* the previous hash, so equal hashes mean equal chains up to that block.
BlockHash(b) == <<b.previousHash, b.height, b.proposal, b.votes, b.status>>

Genesis == <<>>

HeadHash(chain) == IF chain = <<>> THEN Genesis ELSE BlockHash(chain[Len(chain)])

\* Fault: the block names the hash that the head names.
NextBlockBehindHead(chain, p, votes, status) ==
    [ height |-> Len(chain) + 1,
      previousHash |-> IF chain = <<>> THEN Genesis ELSE chain[Len(chain)].previousHash,
      proposal |-> p, votes |-> votes, status |-> status ]

\* append: the block a finalizing node adds to its own chain.
NextBlock(chain, p, votes, status) ==
    [ height |-> Len(chain) + 1, previousHash |-> HeadHash(chain),
      proposal |-> p, votes |-> votes, status |-> status ]

\* Fault: nothing is compared.
LinksAlways(chain, block) == TRUE

\* importBlock accepts a block only on top of the block it was built on.
Links(chain, block) == block.previousHash = HeadHash(chain)

\* getByProposal finds a block.
HasBlock(core, p) == \E i \in DOMAIN core.chain : core.chain[i].proposal = p

\* verify: each block names the hash of the one before it.
VerifyChain(chain) ==
    \A i \in DOMAIN chain :
        chain[i].previousHash = HeadHash(SubSeq(chain, 1, i - 1))

-----------------------------------------------------------------------------
(* Finalization *)

\* What finalizeProposal hands to the network.
Broadcast(core, p, status) ==
    [ block  |-> NextBlock(core.chain, p, core.votes[p], status),
      events |-> OutcomeEvents(core.score, core.votes[p], status) ]

Settle(core, p, status, events) ==
    [core EXCEPT !.results[p] = status,
                 !.score = ImportEvents(@, events),
                 !.history = Append(@, [proposal |-> p, events |-> events])]

\* finalizeProposal, at the node that evaluated the votes.
FinalizeProposal(core, p, status) ==
    LET broadcast == Broadcast(core, p, status)
    IN  [Settle(core, p, status, broadcast.events)
            EXCEPT !.chain = Append(@, broadcast.block)]

\* applyFinalizationBroadcast raises out of importBlock, its last statement,
\* when the block does not link.
ImportFails(core, broadcast) ==
    /\ ~IsFinalized(core, broadcast.block.proposal)
    /\ ~Links(core.chain, broadcast.block)

\* Fault: a proposal that is final here already is settled again.
ApplyEveryBroadcast(core, broadcast) ==
    LET p == broadcast.block.proposal
        settled == Settle([core EXCEPT !.proposals = @ \cup {p},
                                       !.votes[p] = broadcast.block.votes],
                          p, broadcast.block.status, broadcast.events)
    IN  IF Links(core.chain, broadcast.block)
        THEN [settled EXCEPT !.chain = Append(@, broadcast.block)] ELSE settled

\* Everything before importBlock stays done when importBlock raises.
ApplyFinalizationBroadcast(core, broadcast) ==
    LET p == broadcast.block.proposal
        settled == Settle([core EXCEPT !.proposals = @ \cup {p},
                                       !.votes[p] = broadcast.block.votes],
                          p, broadcast.block.status, broadcast.events)
    IN  CASE IsFinalized(core, p) -> core
          [] ImportFails(core, broadcast) -> settled
          [] OTHER -> [settled EXCEPT !.chain = Append(@, broadcast.block)]
===============================================================================
