------------------------------ MODULE Consensus ------------------------------
(***************************************************************************)
(* ConsensusEngine of packages/consensus: the reputation-weighted decision *)
(* on one proposal.  The engine is a pure function of the votes recorded   *)
(* so far, the eligible agents, their reputations and the clock.           *)
(*                                                                         *)
(* The array of votes is represented by the function that maps each voter  *)
(* to the decision of its first entry: deduplicateVotes keeps exactly      *)
(* these, and the order of the others decides nothing.  Confidences and    *)
(* rationales only describe a decision and are left out.                   *)
(*                                                                         *)
(* Reputations are integers here (every delta is one), so the comparison   *)
(* with eligibleWeight * (2/3) in doubles is the exact 3 * w >= 2 * E.     *)
(***************************************************************************)
EXTENDS Integers, FiniteSetsExt

Decision == {"support", "reject", "abstain"}

FinalStatus == {"accepted", "rejected", "timed_out"}

\* The total reputation of a set of agents.
Weight(score, agents) == MapThenSumSet(LAMBDA a : score[a], agents)

\* The voters of the votes array once its later duplicates are dropped.
Voters(votes, decision) == {v \in DOMAIN votes : votes[v] = decision}

\* supportWeight, rejectWeight and abstainWeight.
Tally(votes, score, decision) == Weight(score, Voters(votes, decision))

\* Fault: an abstention does not use up the weight of its voter.
MissingIfAbstentionsAreOpen(votes, eligible, score) ==
    Weight(score, eligible) - Tally(votes, score, "support")
        - Tally(votes, score, "reject")

\* missingWeight: what the eligible agents have not yet cast, never negative.
Missing(votes, eligible, score) ==
    LET left == Weight(score, eligible) - Tally(votes, score, "support")
                - Tally(votes, score, "reject") - Tally(votes, score, "abstain")
    IN  IF left > 0 THEN left ELSE 0

\* Fault: exactly two thirds are not enough.
ReachesOnlyBeyond(weight, eligible, score) ==
    3 * weight > 2 * Weight(score, eligible)

\* Fault: the threshold is rounded down.
ReachesRoundedDown(weight, eligible, score) ==
    weight >= (2 * Weight(score, eligible)) \div 3

\* DEFAULT_THRESHOLD: two thirds of the eligible weight.
Reaches(weight, eligible, score) == 3 * weight >= 2 * Weight(score, eligible)

\* Support has crossed the threshold.
Accepts(votes, eligible, score) ==
    Reaches(Tally(votes, score, "support"), eligible, score)

\* Not even all the missing weight could lift support to the threshold.
Rejects(votes, eligible, score) ==
    ~Reaches(Tally(votes, score, "support") + Missing(votes, eligible, score),
             eligible, score)

\* Fault: the expiry is tested before the weights.
EvaluateExpiryFirst(votes, eligible, score, expired) ==
    CASE expired -> "timed_out"
      [] ~expired /\ Accepts(votes, eligible, score) -> "accepted"
      [] ~expired /\ Rejects(votes, eligible, score) -> "rejected"
      [] OTHER -> "pending"

\* evaluateProposal: the status of the proposal; "pending" is not a decision.
EvaluateProposal(votes, eligible, score, expired) ==
    CASE Accepts(votes, eligible, score) -> "accepted"
      [] ~Accepts(votes, eligible, score) /\ Rejects(votes, eligible, score)
           -> "rejected"
      [] ~Accepts(votes, eligible, score) /\ ~Rejects(votes, eligible, score)
           -> IF expired THEN "timed_out" ELSE "pending"
==============================================================================
