--------------------------- MODULE VoteRoundProofs ---------------------------
(***************************************************************************)
(* Proofs about the consensus engine, for any number of agents, any        *)
(* reputations and any order of the votes.                                 *)
(***************************************************************************)
EXTENDS VoteRound, SumProofs

-----------------------------------------------------------------------------
(* Weights are sums *)

LEMMA WeightIsTotal ==
    ASSUME NEW f, NEW S
    PROVE  Weight(f, S) = Total(f, S)
BY DEF Weight, Total

LEMMA WeightIsNat ==
    ASSUME NEW f, NEW S, IsFiniteSet(S), \A a \in S : f[a] \in Nat
    PROVE  Weight(f, S) \in Nat
BY WeightIsTotal, TotalIsNat

LEMMA WeightSplit ==
    ASSUME NEW f, NEW A, NEW B, IsFiniteSet(A), IsFiniteSet(B), A \cap B = {},
           \A a \in A \cup B : f[a] \in Nat
    PROVE  /\ Weight(f, A \cup B) = Weight(f, A) + Weight(f, B)
           /\ Weight(f, A) \in Nat /\ Weight(f, B) \in Nat
BY WeightIsTotal, TotalSplit

LEMMA WeightGrows ==
    ASSUME NEW f, NEW A, NEW B, IsFiniteSet(B), A \subseteq B,
           \A a \in B : f[a] \in Nat
    PROVE  Weight(f, A) \in Nat /\ Weight(f, B) \in Nat /\ Weight(f, A) <= Weight(f, B)
BY WeightIsTotal, TotalGrows

LEMMA WeightHasMember ==
    ASSUME NEW f, NEW S, IsFiniteSet(S), \A a \in S : f[a] \in Nat
    PROVE  Weight(f, S) > 0 <=> \E a \in S : f[a] > 0
BY WeightIsTotal, TotalHasMember

-----------------------------------------------------------------------------
(* The decision, in numbers *)

\* The votes of some of the agents.
Ballot(b) ==
    /\ b = [v \in DOMAIN b |-> b[v]]
    /\ DOMAIN b \subseteq Agent
    /\ \A v \in DOMAIN b : b[v] \in Decision

\* The inductive invariant of the round: its types.
RoundInv ==
    /\ score \in [Agent -> 0 .. MaxScore]
    /\ Ballot(votes)
    /\ expired \in BOOLEAN

Supporters(b) == Voters(b, "support")

\* Those who still can support: the supporters and whoever has not voted.
Possible(b) == Supporters(b) \cup (Agent \ DOMAIN b)

LEMMA AgentsAreFinite ==
    /\ IsFiniteSet(Agent) /\ MaxScore \in Nat
    /\ \A S \in SUBSET Agent : IsFiniteSet(S)
BY RoundAssumption, FS_Subset

\* Every score is a natural number.
Natural(f) == \A a \in Agent : f[a] \in Nat

\* missingWeight is what the absent agents weigh: the four parts of the
\* electorate add up, so the subtraction never goes below zero.
LEMMA MissingIsAbsent ==
    ASSUME NEW f, Natural(f), NEW b, Ballot(b)
    PROVE  /\ Missing(b, Agent, f) = Weight(f, Agent \ DOMAIN b)
           /\ Tally(b, f, "support") = Weight(f, Supporters(b))
           /\ Weight(f, Supporters(b)) + Weight(f, Agent \ DOMAIN b)
                 = Weight(f, Possible(b))
           /\ Weight(f, Supporters(b)) \in Nat /\ Weight(f, Agent) \in Nat
           /\ Weight(f, Agent \ DOMAIN b) \in Nat
<1> DEFINE S == Voters(b, "support")
           R == Voters(b, "reject")
           X == Voters(b, "abstain")
           U == Agent \ DOMAIN b
<1>1. /\ S \subseteq Agent /\ R \subseteq Agent /\ X \subseteq Agent /\ U \subseteq Agent
      /\ S \cap R = {} /\ (S \cup R) \cap X = {} /\ ((S \cup R) \cup X) \cap U = {}
      /\ ((S \cup R) \cup X) \cup U = Agent
      /\ S \cap U = {}
  BY DEF Voters, Ballot, Decision
<1>2. \A T \in SUBSET Agent : IsFiniteSet(T) /\ \A a \in T : f[a] \in Nat
  BY AgentsAreFinite DEF Natural
<1>3. S \cup U = Possible(b) /\ S = Supporters(b)
  BY DEF Possible, Supporters
<1>4. /\ Tally(b, f, "support") = Weight(f, S)
      /\ Tally(b, f, "reject") = Weight(f, R)
      /\ Tally(b, f, "abstain") = Weight(f, X)
  BY DEF Tally
<1> HIDE DEF S, R, X, U
<1>5. \A T \in SUBSET Agent : Weight(f, T) \in Nat
  BY <1>2, WeightIsNat
<1>6. Weight(f, S \cup R) = Weight(f, S) + Weight(f, R)
  BY <1>1, <1>2, WeightSplit
<1>7. Weight(f, (S \cup R) \cup X) = Weight(f, S \cup R) + Weight(f, X)
  <2> DEFINE T == S \cup R
  <2>1. T \in SUBSET Agent /\ T \cap X = {} /\ T \cup X \in SUBSET Agent
    BY <1>1
  <2> HIDE DEF T
  <2>2. Weight(f, T \cup X) = Weight(f, T) + Weight(f, X)
    BY <1>1, <1>2, <2>1, WeightSplit
  <2> QED  BY <2>2 DEF T
<1>8. Weight(f, ((S \cup R) \cup X) \cup U) = Weight(f, (S \cup R) \cup X) + Weight(f, U)
  <2> DEFINE T == (S \cup R) \cup X
  <2>1. T \in SUBSET Agent /\ T \cap U = {} /\ T \cup U \in SUBSET Agent
    BY <1>1
  <2> HIDE DEF T
  <2>2. Weight(f, T \cup U) = Weight(f, T) + Weight(f, U)
    BY <1>1, <1>2, <2>1, WeightSplit
  <2> QED  BY <2>2 DEF T
<1>9. Weight(f, Agent) = Weight(f, S) + Weight(f, R) + Weight(f, X) + Weight(f, U)
  <2>1. Weight(f, ((S \cup R) \cup X) \cup U) = Weight(f, Agent)
    BY <1>1
  <2> QED  BY <1>1, <1>5, <1>6, <1>7, <1>8, <2>1
<1>10. Weight(f, S \cup U) = Weight(f, S) + Weight(f, U)
  BY <1>1, <1>2, WeightSplit
<1>11. /\ Weight(f, S) \in Nat /\ Weight(f, R) \in Nat /\ Weight(f, X) \in Nat
       /\ Weight(f, U) \in Nat /\ Weight(f, Agent) \in Nat
  BY <1>1, <1>5
<1>12. Missing(b, Agent, f) = Weight(f, U)
  BY <1>4, <1>9, <1>11 DEF Missing
<1>13. Weight(f, S \cup U) = Weight(f, Possible(b))
  BY <1>3
<1> QED  BY <1>3, <1>4, <1>10, <1>11, <1>12, <1>13 DEF U

\* What evaluateProposal answers, in terms of who supports and who still can.
LEMMA DecisionInNumbers ==
    ASSUME NEW f, Natural(f), NEW b, Ballot(b), NEW late
    PROVE  LET status == EvaluateProposal(b, Agent, f, late)
           IN  /\ Weight(f, Supporters(b)) \in Nat /\ Weight(f, Possible(b)) \in Nat
               /\ Weight(f, Agent) \in Nat
               /\ Weight(f, Supporters(b)) <= Weight(f, Possible(b))
               /\ status = "accepted" <=>
                     3 * Weight(f, Supporters(b)) >= 2 * Weight(f, Agent)
               /\ status = "rejected" <=>
                     3 * Weight(f, Possible(b)) < 2 * Weight(f, Agent)
<1> DEFINE s == Weight(f, Supporters(b))
           m == Weight(f, Agent \ DOMAIN b)
           e == Weight(f, Agent)
<1>1. /\ Missing(b, Agent, f) = m /\ Tally(b, f, "support") = s
      /\ s + m = Weight(f, Possible(b))
      /\ s \in Nat /\ m \in Nat /\ e \in Nat
  BY MissingIsAbsent
<1>2. Accepts(b, Agent, f) <=> 3 * s >= 2 * e
  BY <1>1 DEF Accepts, Reaches
<1>3. Rejects(b, Agent, f) <=> ~ (3 * (s + m) >= 2 * e)
  BY <1>1 DEF Rejects, Reaches
<1>4. /\ EvaluateProposal(b, Agent, f, late) = "accepted" <=> Accepts(b, Agent, f)
      /\ EvaluateProposal(b, Agent, f, late) = "rejected" <=>
            ~Accepts(b, Agent, f) /\ Rejects(b, Agent, f)
  BY DEF EvaluateProposal
<1> HIDE DEF s, m, e
<1>5. /\ s <= s + m
      /\ ~ (3 * (s + m) >= 2 * e) <=> 3 * (s + m) < 2 * e
      /\ 3 * (s + m) < 2 * e => ~ (3 * s >= 2 * e)
      /\ s + m \in Nat
  BY <1>1
<1> QED  BY <1>1, <1>2, <1>3, <1>4, <1>5 DEF s, e

\* Two thirds of the weight is twice what the others weigh.
LEMMA CarriedInNumbers ==
    ASSUME NEW f, Natural(f), NEW S \in SUBSET Agent
    PROVE  Weight(f, S) >= 2 * Weight(f, Agent \ S)
             <=> 3 * Weight(f, S) >= 2 * Weight(f, Agent)
<1> DEFINE T == Agent \ S
<1>1. /\ IsFiniteSet(S) /\ IsFiniteSet(T) /\ S \cap T = {} /\ S \cup T = Agent
  BY AgentsAreFinite
<1> HIDE DEF T
<1>2. \A a \in S \cup T : f[a] \in Nat
  BY <1>1 DEF Natural
<1>3. /\ Weight(f, S \cup T) = Weight(f, S) + Weight(f, T)
      /\ Weight(f, S) \in Nat /\ Weight(f, T) \in Nat
  BY <1>1, <1>2, WeightSplit
<1>4. Weight(f, S \cup T) = Weight(f, Agent)
  BY <1>1
<1>5. Weight(f, S) >= 2 * Weight(f, T) <=> 3 * Weight(f, S) >= 2 * Weight(f, Agent)
  BY <1>3, <1>4
<1> QED  BY <1>5 DEF T

-----------------------------------------------------------------------------
(* The round *)

LEMMA RoundInit == Init => RoundInv
<1> SUFFICES ASSUME Init PROVE RoundInv
  OBVIOUS
<1>1. Ballot(<<>>)
  BY DEF Ballot
<1> QED  BY <1>1 DEF Init, RoundInv

\* The vote of an agent that has not voted joins the others.
LEMMA VoteJoins ==
    ASSUME RoundInv, NEW a \in Agent, NEW d \in Decision, RecordVote(a, d)
    PROVE  /\ Ballot(votes')
           /\ Supporters(votes) \subseteq Supporters(votes')
           /\ Possible(votes') \subseteq Possible(votes)
<1>1. /\ a \notin DOMAIN votes
      /\ votes' = [v \in DOMAIN votes \cup {a} |-> IF v = a THEN d ELSE votes[v]]
  BY DEF RecordVote
<1>2. /\ DOMAIN votes' = DOMAIN votes \cup {a}
      /\ votes'[a] = d /\ \A v \in DOMAIN votes : votes'[v] = votes[v]
  BY <1>1
<1>3. votes' = [v \in DOMAIN votes' |-> votes'[v]]
  BY <1>1
<1>4. Ballot(votes')
  BY <1>2, <1>3 DEF RoundInv, Ballot
<1> QED  BY <1>1, <1>2, <1>4 DEF Supporters, Possible, Voters

LEMMA RoundStep == RoundInv /\ [Next]_vars => RoundInv'
<1> SUFFICES ASSUME RoundInv, [Next]_vars PROVE RoundInv'
  OBVIOUS
<1>1. CASE UNCHANGED vars
  BY <1>1 DEF vars, RoundInv
<1>2. CASE Expire
  BY <1>2 DEF Expire, RoundInv
<1>3. ASSUME NEW a \in Agent, NEW d \in Decision, RecordVote(a, d)
      PROVE  RoundInv'
  BY <1>3, VoteJoins DEF RecordVote, RoundInv
<1> QED  BY <1>1, <1>2, <1>3 DEF Next

LEMMA RoundAlways == Spec => []RoundInv
BY RoundInit, RoundStep, PTL DEF Spec

LEMMA ScoresAreNatural ==
    ASSUME RoundInv
    PROVE  Natural(score)
BY AgentsAreFinite DEF RoundInv, Natural

\* A ballot is decided by who supports in it, and the round can end in any
\* choice of supporters between those it has and those it may still get.
LEMMA EndingsInNumbers ==
    ASSUME RoundInv
    PROVE  /\ \A w \in Completions :
                 \E S \in SUBSET Agent :
                    /\ Supporters(votes) \subseteq S /\ S \subseteq Possible(votes)
                    /\ Carried(w) <=> 3 * Weight(score, S) >= 2 * Weight(score, Agent)
           /\ \A S \in {Supporters(votes), Possible(votes)} :
                 \E w \in Completions :
                    Carried(w) <=> 3 * Weight(score, S) >= 2 * Weight(score, Agent)
<1>1. Natural(score) /\ Ballot(votes)
  BY ScoresAreNatural DEF RoundInv
<1>2. ASSUME NEW w \in [Agent -> Decision], NEW S,
             S = {a \in Agent : w[a] = "support"}
      PROVE  Carried(w) <=> 3 * Weight(score, S) >= 2 * Weight(score, Agent)
  <2>1. Carried(w) <=> Weight(score, S) >= 2 * Weight(score, Agent \ S)
    BY <1>2 DEF Carried
  <2>2. S \in SUBSET Agent
    BY <1>2
  <2> QED  BY <1>1, <2>1, <2>2, CarriedInNumbers
<1>3. ASSUME NEW w \in Completions
      PROVE  \E S \in SUBSET Agent :
                /\ Supporters(votes) \subseteq S /\ S \subseteq Possible(votes)
                /\ Carried(w) <=> 3 * Weight(score, S) >= 2 * Weight(score, Agent)
  <2> DEFINE S == {a \in Agent : w[a] = "support"}
  <2>1. w \in [Agent -> Decision] /\ \A v \in DOMAIN votes : w[v] = votes[v]
    BY DEF Completions
  <2>2. Supporters(votes) \subseteq S /\ S \subseteq Possible(votes) /\ S \in SUBSET Agent
    BY <1>1, <2>1 DEF Supporters, Possible, Voters, Ballot
  <2>3. Carried(w) <=> 3 * Weight(score, S) >= 2 * Weight(score, Agent)
    BY <1>2, <2>1
  <2> QED  BY <2>2, <2>3
<1>4. ASSUME NEW x \in {"support", "reject"}
      PROVE  \E w \in Completions :
                Carried(w) <=>
                   3 * Weight(score, IF x = "support" THEN Possible(votes)
                                                      ELSE Supporters(votes))
                     >= 2 * Weight(score, Agent)
  <2> DEFINE w == [a \in Agent |-> IF a \in DOMAIN votes THEN votes[a] ELSE x]
             S == {a \in Agent : w[a] = "support"}
  <2>1. w \in [Agent -> Decision] /\ \A v \in DOMAIN votes : w[v] = votes[v]
    BY <1>1 DEF Ballot, Decision
  <2>2. w \in Completions
    BY <2>1 DEF Completions
  <2>3. S = IF x = "support" THEN Possible(votes) ELSE Supporters(votes)
    BY <1>1 DEF Supporters, Possible, Voters, Ballot
  <2> HIDE DEF w
  <2>4. Carried(w) <=> 3 * Weight(score, S) >= 2 * Weight(score, Agent)
    BY <1>2, <2>1
  <2> HIDE DEF S
  <2> QED  BY <2>2, <2>3, <2>4
<1> QED  BY <1>3, <1>4

\* However many agents and whatever their reputations, the engine decides early
\* exactly when the absent agents could no longer turn the decision
\* (missingWeight of evaluateProposal).
THEOREM EarlyDecisionSound == Spec => []EarlyDecisionIsSound
<1>1. RoundInv => EarlyDecisionIsSound
  <2> SUFFICES ASSUME RoundInv PROVE EarlyDecisionIsSound
    OBVIOUS
  <2> DEFINE s == Weight(score, Supporters(votes))
             m == Weight(score, Possible(votes))
             e == Weight(score, Agent)
  <2>1. Natural(score) /\ Ballot(votes)
    BY ScoresAreNatural DEF RoundInv
  <2>2. /\ s \in Nat /\ m \in Nat /\ e \in Nat /\ s <= m
        /\ Status = "accepted" <=> 3 * s >= 2 * e
        /\ Status = "rejected" <=> 3 * m < 2 * e
    BY <2>1, DecisionInNumbers DEF Status
  <2>3. \A S \in SUBSET Agent :
           /\ Supporters(votes) \subseteq S => s <= Weight(score, S)
           /\ S \subseteq Possible(votes) => Weight(score, S) <= m
           /\ Weight(score, S) \in Nat
    <3> TAKE S \in SUBSET Agent
    <3>1. /\ IsFiniteSet(S) /\ \A a \in S : score[a] \in Nat
      BY <2>1, AgentsAreFinite DEF Natural
    <3>2. Possible(votes) \subseteq Agent
      BY <2>1 DEF Possible, Supporters, Voters, Ballot
    <3>3. IsFiniteSet(Possible(votes)) /\ \A a \in Possible(votes) : score[a] \in Nat
      BY <2>1, <3>2, AgentsAreFinite DEF Natural
    <3> QED  BY <3>1, <3>3, WeightGrows, WeightIsNat
  <2>4. ASSUME NEW w \in Completions
        PROVE  (3 * s >= 2 * e => Carried(w)) /\ (3 * m < 2 * e => ~Carried(w))
    <3>1. PICK S \in SUBSET Agent :
             /\ Supporters(votes) \subseteq S /\ S \subseteq Possible(votes)
             /\ Carried(w) <=> 3 * Weight(score, S) >= 2 * Weight(score, Agent)
      BY EndingsInNumbers
    <3>2. s <= Weight(score, S) /\ Weight(score, S) <= m /\ Weight(score, S) \in Nat
      BY <2>3, <3>1
    <3> DEFINE k == Weight(score, S)
    <3>3. Carried(w) <=> 3 * k >= 2 * e
      BY <3>1
    <3> HIDE DEF s, m, e, k
    <3>4. (3 * s >= 2 * e => 3 * k >= 2 * e) /\ (3 * m < 2 * e => ~ (3 * k >= 2 * e))
      BY <2>2, <3>2 DEF k
    <3> QED  BY <3>3, <3>4
  <2>5. \E w \in Completions : Carried(w) <=> 3 * s >= 2 * e
    BY EndingsInNumbers
  <2>6. \E w \in Completions : Carried(w) <=> 3 * m >= 2 * e
    BY EndingsInNumbers
  <2> HIDE DEF s, m, e
  <2>7. ~ (3 * m < 2 * e) <=> 3 * m >= 2 * e
    BY <2>2
  <2> QED  BY <2>2, <2>4, <2>5, <2>6, <2>7 DEF EarlyDecisionIsSound
<1> QED  BY <1>1, RoundAlways, PTL

\* With every vote in nothing is missing: the round is accepted or rejected,
\* whatever the clock says.
THEOREM FullBallotIsDecided == Spec => []FullBallotDecides
<1>1. RoundInv => FullBallotDecides
  <2> SUFFICES ASSUME RoundInv, DOMAIN votes = Agent
               PROVE  Status \in {"accepted", "rejected"}
    BY DEF FullBallotDecides
  <2> DEFINE s == Weight(score, Supporters(votes))
             m == Weight(score, Possible(votes))
             e == Weight(score, Agent)
  <2>1. Natural(score) /\ Ballot(votes)
    BY ScoresAreNatural DEF RoundInv
  <2>2. /\ s \in Nat /\ m \in Nat /\ e \in Nat
        /\ Status = "accepted" <=> 3 * s >= 2 * e
        /\ Status = "rejected" <=> 3 * m < 2 * e
    BY <2>1, DecisionInNumbers DEF Status
  <2>3. Possible(votes) = Supporters(votes)
    BY DEF Possible
  <2>4. s = m
    BY <2>3
  <2> HIDE DEF s, m, e
  <2> QED  BY <2>2, <2>4
<1> QED  BY <1>1, RoundAlways, PTL

\* The threshold is never reached by agents that weigh nothing, while some
\* agent weighs something.
THEOREM AcceptanceSupported == Spec => []AcceptanceHasSupport
<1>1. RoundInv => AcceptanceHasSupport
  <2> SUFFICES ASSUME RoundInv, Status = "accepted",
                      \A a \in DOMAIN votes : ~ (votes[a] = "support" /\ score[a] > 0)
               PROVE  \A a \in Agent : score[a] = 0
    BY DEF AcceptanceHasSupport
  <2> DEFINE S == Supporters(votes)
             s == Weight(score, S)
             e == Weight(score, Agent)
  <2>1. Natural(score) /\ Ballot(votes)
    BY ScoresAreNatural DEF RoundInv
  <2>2. s \in Nat /\ e \in Nat /\ 3 * s >= 2 * e
    BY <2>1, DecisionInNumbers DEF Status
  <2>3. S \subseteq Agent /\ \A a \in S : ~ (score[a] > 0)
    BY <2>1 DEF Supporters, Voters, Ballot
  <2> HIDE DEF S
  <2>4. /\ IsFiniteSet(S) /\ \A a \in S : score[a] \in Nat
        /\ IsFiniteSet(Agent) /\ \A a \in Agent : score[a] \in Nat
    BY <2>1, <2>3, AgentsAreFinite DEF Natural
  <2>5. ~ (s > 0)
    BY <2>3, <2>4, WeightHasMember
  <2>6. ~ (e > 0)
    BY <2>2, <2>5
  <2>7. \A a \in Agent : ~ (score[a] > 0)
    BY <2>4, <2>6, WeightHasMember
  <2> QED  BY <2>4, <2>7
<1> QED  BY <1>1, RoundAlways, PTL

\* A decision by weight is never taken back: more votes only add to the support
\* there is and take from the support there can be, and expiry touches neither.
THEOREM DecisionStays == Spec => DecisionIsStable
<1>1. ASSUME RoundInv, [Next]_vars, Status \in {"accepted", "rejected"}
      PROVE  Status' = Status
  <2>1. Natural(score) /\ Ballot(votes)
    BY <1>1, ScoresAreNatural DEF RoundInv
  <2>2. ASSUME NEW b, Ballot(b), NEW late,
               Supporters(votes) \subseteq Supporters(b),
               Possible(b) \subseteq Possible(votes)
        PROVE  EvaluateProposal(b, Agent, score, late) = Status
    <3> DEFINE status == EvaluateProposal(b, Agent, score, late)
               s == Weight(score, Supporters(votes))
               m == Weight(score, Possible(votes))
               t == Weight(score, Supporters(b))
               n == Weight(score, Possible(b))
               e == Weight(score, Agent)
    <3>1. /\ s \in Nat /\ m \in Nat /\ e \in Nat
          /\ Status = "accepted" <=> 3 * s >= 2 * e
          /\ Status = "rejected" <=> 3 * m < 2 * e
      BY <2>1, DecisionInNumbers DEF Status
    <3>2. /\ t \in Nat /\ n \in Nat
          /\ status = "accepted" <=> 3 * t >= 2 * e
          /\ status = "rejected" <=> 3 * n < 2 * e
      BY <2>1, <2>2, DecisionInNumbers
    <3>3. s <= t
      <4>1. Supporters(b) \subseteq Agent
        BY <2>2 DEF Supporters, Voters, Ballot
      <4>2. IsFiniteSet(Supporters(b)) /\ \A a \in Supporters(b) : score[a] \in Nat
        BY <2>1, <4>1, AgentsAreFinite DEF Natural
      <4> QED  BY <2>2, <4>2, WeightGrows
    <3>4. n <= m
      <4>1. Possible(votes) \subseteq Agent
        BY <2>1 DEF Possible, Supporters, Voters, Ballot
      <4>2. IsFiniteSet(Possible(votes)) /\ \A a \in Possible(votes) : score[a] \in Nat
        BY <2>1, <4>1, AgentsAreFinite DEF Natural
      <4> QED  BY <2>2, <4>2, WeightGrows
    <3> HIDE DEF s, m, t, n, e, status
    <3>5. /\ 3 * s >= 2 * e => 3 * t >= 2 * e
          /\ 3 * m < 2 * e => 3 * n < 2 * e
      BY <3>1, <3>2, <3>3, <3>4
    <3>6. status = Status
      BY <1>1, <3>1, <3>2, <3>5
    <3> QED  BY <3>6 DEF status
  <2>3. score' = score
    BY <1>1 DEF Next, Expire, RecordVote, vars
  <2>4. /\ Ballot(votes')
        /\ Supporters(votes) \subseteq Supporters(votes')
        /\ Possible(votes') \subseteq Possible(votes)
    <3>1. CASE votes' = votes
      BY <2>1, <3>1
    <3>2. CASE \E a \in Agent, d \in Decision : RecordVote(a, d)
      BY <1>1, <3>2, VoteJoins
    <3> QED  BY <1>1, <3>1, <3>2 DEF Next, Expire, vars
  <2>5. EvaluateProposal(votes', Agent, score, expired') = Status
    BY <2>2, <2>4
  <2>6. Status' = EvaluateProposal(votes', Agent, score', expired')
    BY DEF Status
  <2> QED  BY <2>3, <2>5, <2>6
<1> QED  BY <1>1, RoundAlways, PTL DEF Spec, DecisionIsStable
==============================================================================
