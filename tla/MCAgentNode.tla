----------------------------- MODULE MCAgentNode -----------------------------
(* Instances of AgentNode: who proposes what, and the real reputation policy. *)
EXTENDS AgentNode

CONSTANTS n1, n2, n3, p1, p2

\* One proposer.
OneProposer == [p \in Proposal |-> n1]

\* Two nodes propose at the same time.
TwoProposers == [p \in Proposal |-> IF p = p1 THEN n1 ELSE n2]

\* The proposer supports what it proposes, the others support or reject it.
Contested ==
    [p \in Proposal |-> [n \in Agent |->
        IF n = ProposerOf[p] THEN {"support"} ELSE {"support", "reject"}]]

\* Nobody abstains.
Partisan == [p \in Proposal |-> [n \in Agent |-> {"support", "reject"}]]

\* Everybody supports what is proposed.
Unanimous == [p \in Proposal |-> [n \in Agent |-> {"support"}]]

\* The follower decides freely on the first proposal, abstaining included; its proposer
\* supports it, and everybody supports the second.
FirstContested ==
    [p \in Proposal |-> [n \in Agent |->
        IF p = p1 /\ n # n1 THEN Decision ELSE {"support"}]]

\* A proposal is made when the blocks of the earlier ones are everywhere, and the second
\* one only if nothing was lost until then and the call of the first has returned.
SubmitInTurn(p) ==
    /\ Submit(p) /\ OneAtATime'
    /\ p = p2 => lost = 0 /\ call[p1] \in {"resolved", "failed"}

\* Once the second proposal is made nothing is duplicated any more, or lost.
DeliverInTurn(n) ==
    /\ Deliver(n)
    /\ call[p2] # "idle" => duplicated' = duplicated

LoseInTurn(n) == call[p2] = "idle" /\ Lose(n)

SerialNext ==
    \/ \E p \in Proposal : SubmitInTurn(p) \/ CallStep(p) \/ Expire(p)
    \/ \E n \in Agent : DeliverInTurn(n) \/ LoseInTurn(n)

\* The behaviours of FairSpec in which proposals are made in turn: nothing obliges anybody
\* to submit a proposal, or the network to lose or duplicate a message.
SerialSpec == Init /\ [][SerialNext]_vars /\ Fairness
==============================================================================
