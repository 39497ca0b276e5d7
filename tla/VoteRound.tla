------------------------------ MODULE VoteRound ------------------------------
(***************************************************************************)
(* One voting round as the engine sees it: the reputations stand still,    *)
(* the votes arrive one at a time in any order, the clock may pass the     *)
(* expiry at any moment, and the engine may be asked after each of these.  *)
(*                                                                         *)
(* The round is there to compare the engine's early decisions with what    *)
(* they must mean whatever the missing agents still do.                    *)
(***************************************************************************)
EXTENDS Consensus

CONSTANTS
    Agent,      \* the eligible agents
    MaxScore    \* bound on the reputations explored

ASSUME RoundAssumption == IsFiniteSet(Agent) /\ MaxScore \in Nat

VARIABLES
    score,      \* the reputation of every agent during the round
    votes,      \* the votes recorded so far
    expired     \* now >= expiresAt

vars == <<score, votes, expired>>

Init ==
    /\ score \in [Agent -> 0 .. MaxScore]
    /\ votes = <<>>
    /\ expired = FALSE

\* recordVote: the first vote of an agent counts, a later one changes nothing.
RecordVote(a, d) ==
    /\ a \notin DOMAIN votes
    /\ votes' = [v \in DOMAIN votes \cup {a} |-> IF v = a THEN d ELSE votes[v]]
    /\ UNCHANGED <<score, expired>>

Expire ==
    /\ ~expired
    /\ expired' = TRUE
    /\ UNCHANGED <<score, votes>>

Next == Expire \/ \E a \in Agent, d \in Decision : RecordVote(a, d)

Spec == Init /\ [][Next]_vars

Status == EvaluateProposal(votes, Agent, score, expired)

-----------------------------------------------------------------------------
\* Every way the round can still end: the votes cast stay, the others vote.
Completions ==
    {w \in [Agent -> Decision] : \A v \in DOMAIN votes : w[v] = votes[v]}

\* What a complete ballot decides, said without the engine's bookkeeping:
\* the supporters weigh at least twice as much as everybody else together.
Carried(w) ==
    LET supporters == {a \in Agent : w[a] = "support"}
    IN  Weight(score, supporters) >= 2 * Weight(score, Agent \ supporters)

\* The engine accepts or rejects before all votes are in exactly when no
\* ballot the missing agents could still cast would change the decision.
EarlyDecisionIsSound ==
    /\ (Status = "accepted") <=> (\A w \in Completions : Carried(w))
    /\ (Status = "rejected") <=> (\A w \in Completions : ~Carried(w))

\* Once everybody has voted the round is decided by the votes: it is neither
\* pending nor timed out, however late the last vote came.
FullBallotDecides ==
    DOMAIN votes = Agent => Status \in {"accepted", "rejected"}

\* Nothing is accepted without support that weighs something, unless no eligible
\* agent weighs anything: then the support 0 reaches two thirds of 0.
AcceptanceHasSupport ==
    Status = "accepted" =>
        \/ \E a \in DOMAIN votes : votes[a] = "support" /\ score[a] > 0
        \/ \A a \in Agent : score[a] = 0

\* A decision by weight is final: no later vote and no expiry turns it.
DecisionIsStable ==
    [][(Status \in {"accepted", "rejected"}) => (Status' = Status)]_vars
==============================================================================
