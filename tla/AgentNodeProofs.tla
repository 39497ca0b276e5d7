--------------------------- MODULE AgentNodeProofs ---------------------------
(***************************************************************************)
(* Proofs about the network of agent nodes, for any number of nodes and    *)
(* proposals, any opinions, and any number of lost and repeated messages.  *)
(*                                                                         *)
(* The first part is about one core: every operation of ProtocolCore keeps *)
(* what is settled and keeps the core consistent with itself.  The second  *)
(* part is about the network: what is final anywhere was decided by its    *)
(* proposer, and a voter is nowhere on record with two decisions.          *)
(***************************************************************************)
EXTENDS AgentNode, TLAPS

-----------------------------------------------------------------------------
(* One core *)

Score == 0 .. MaxReputation

Event == [before : Score, after : Score]

Events == UNION {[S -> Event] : S \in SUBSET Agent}

Settlement == [proposal : Proposal, events : Events]

\* The entry that settling p leaves in the history.
Settled(p, events) == [proposal |-> p, events |-> events]

\* Blocks hold hashes of blocks, so there is no set of all blocks: a chain is
\* a sequence over its own elements.
IsSequence(s) == s \in Seq({s[i] : i \in DOMAIN s})

IsRecord(c) ==
    c \in [ proposals : SUBSET Proposal, votes : [Proposal -> Votes],
            results : [Proposal -> Status], score : [Agent -> Score],
            history : Seq(Settlement), chain : {c.chain} ]

CoreShape(c) ==
    /\ IsRecord(c)
    /\ IsSequence(c.chain)
    /\ \A i \in DOMAIN c.chain : BlockOK(c.chain[i])

\* What was appended for a proposal is there because the proposal is final.
OnlyFinal(c) ==
    /\ \A i \in DOMAIN c.chain : IsFinalized(c, c.chain[i].proposal)
    /\ \A i \in DOMAIN c.history : IsFinalized(c, c.history[i].proposal)

OneBlockEach(c) ==
    \A i, j \in DOMAIN c.chain : c.chain[i].proposal = c.chain[j].proposal => i = j

OneSettlementEach(c) ==
    \A i, j \in DOMAIN c.history :
        c.history[i].proposal = c.history[j].proposal => i = j

CoreInv(c) ==
    /\ CoreShape(c)
    /\ OnlyFinal(c)
    /\ OneBlockEach(c)
    /\ OneSettlementEach(c)
    /\ VerifyChain(c.chain)

\* From c to d nothing that is final changes: results and blocks stay.
Keeps(c, d) ==
    /\ \A p \in Proposal : IsFinalized(c, p) => d.results[p] = c.results[p]
    /\ \A i \in DOMAIN c.chain : i \in DOMAIN d.chain /\ d.chain[i] = c.chain[i]

\* Append under a name the provers leave alone.
Longer(s, e) == Append(s, e)

LEMMA AppendFacts ==
    ASSUME NEW S, NEW s \in Seq(S), NEW e
    PROVE  /\ Append(s, e) \in Seq(S \cup {e})
           /\ Len(s) \in Nat /\ DOMAIN s = 1 .. Len(s)
           /\ Len(Append(s, e)) = Len(s) + 1
           /\ DOMAIN Append(s, e) = 1 .. Len(s) + 1
           /\ \A i \in 1 .. Len(s) : Append(s, e)[i] = s[i]
           /\ Append(s, e)[Len(s) + 1] = e
  <1>1. s \in Seq(S \cup {e})
    OBVIOUS
  <1> QED  BY <1>1

LEMMA ChainAppend ==
    ASSUME NEW s, IsSequence(s), NEW e
    PROVE  /\ IsSequence(Append(s, e))
           /\ Len(s) \in Nat /\ DOMAIN s = 1 .. Len(s)
           /\ DOMAIN Append(s, e) = 1 .. Len(s) + 1
           /\ \A i \in DOMAIN s : i \in DOMAIN Append(s, e) /\ Append(s, e)[i] = s[i]
           /\ Append(s, e)[Len(s) + 1] = e
           /\ \A i \in DOMAIN Append(s, e) : i \in DOMAIN s \/ i = Len(s) + 1
<1> DEFINE S == {s[i] : i \in DOMAIN s}
           t == Append(s, e)
<1>1. s \in Seq(S)
  BY DEF IsSequence
<1> HIDE DEF S
<1>2. /\ t \in Seq(S \cup {e}) /\ Len(s) \in Nat /\ DOMAIN s = 1 .. Len(s)
      /\ Len(t) = Len(s) + 1 /\ DOMAIN t = 1 .. Len(s) + 1
      /\ \A i \in 1 .. Len(s) : t[i] = s[i]
      /\ t[Len(s) + 1] = e
  BY <1>1, AppendFacts
<1> HIDE DEF t
<1>3. t \in Seq({t[i] : i \in DOMAIN t})
  BY <1>2
<1>4. \A i \in DOMAIN s : i \in DOMAIN t /\ t[i] = s[i]
  BY <1>2
<1>5. \A i \in DOMAIN t : i \in DOMAIN s \/ i = Len(s) + 1
  BY <1>2
<1> QED  BY <1>2, <1>3, <1>4, <1>5 DEF IsSequence, t

LEMMA HeadOfPrefix ==
    ASSUME NEW s, IsSequence(s), NEW k \in 0 .. Len(s)
    PROVE  HeadHash(SubSeq(s, 1, k)) = IF k = 0 THEN Genesis ELSE BlockHash(s[k])
<1> DEFINE S == {s[i] : i \in DOMAIN s}
<1>1. s \in Seq(S)
  BY DEF IsSequence
<1> HIDE DEF S
<1>2. /\ SubSeq(s, 1, k) \in Seq(S) /\ Len(SubSeq(s, 1, k)) = k
      /\ \A i \in 1 .. k : SubSeq(s, 1, k)[i] = s[i]
      /\ k \in Nat
  BY <1>1
<1>3. CASE k = 0
  BY <1>2, <1>3 DEF HeadHash
<1>4. CASE k # 0
  <2>1. SubSeq(s, 1, k) # <<>>
    BY <1>2, <1>4
  <2>2. k \in 1 .. k
    BY <1>2, <1>4
  <2> QED  BY <1>2, <1>4, <2>1, <2>2 DEF HeadHash
<1> QED  BY <1>3, <1>4

LEMMA HeadOfChain ==
    ASSUME NEW s, IsSequence(s)
    PROVE  HeadHash(s) = IF Len(s) = 0 THEN Genesis ELSE BlockHash(s[Len(s)])
<1>1. s \in Seq({s[i] : i \in DOMAIN s})
  BY DEF IsSequence
<1>2. Len(s) \in Nat /\ (s = <<>> <=> Len(s) = 0)
  BY <1>1
<1> QED  BY <1>2 DEF HeadHash

LEMMA VerifyAppend ==
    ASSUME NEW s, IsSequence(s), VerifyChain(s), NEW b, Links(s, b)
    PROVE  VerifyChain(Append(s, b))
<1> DEFINE t == Append(s, b)
<1>1. /\ IsSequence(t) /\ Len(s) \in Nat /\ DOMAIN s = 1 .. Len(s)
      /\ DOMAIN t = 1 .. Len(s) + 1
      /\ \A i \in DOMAIN s : t[i] = s[i]
      /\ t[Len(s) + 1] = b
      /\ Len(t) \in Nat /\ DOMAIN t = 1 .. Len(t)
  BY ChainAppend
<1> HIDE DEF t
<1>2. Len(t) = Len(s) + 1
  BY <1>1
<1>3. \A i \in DOMAIN s : s[i].previousHash = IF i - 1 = 0 THEN Genesis ELSE BlockHash(s[i - 1])
  <2> TAKE i \in DOMAIN s
  <2>1. i - 1 \in 0 .. Len(s)
    BY <1>1
  <2> QED  BY <2>1, HeadOfPrefix DEF VerifyChain
<1>4. b.previousHash = IF Len(s) = 0 THEN Genesis ELSE BlockHash(s[Len(s)])
  BY HeadOfChain DEF Links
<1>5. ASSUME NEW i \in DOMAIN t
      PROVE  t[i].previousHash = IF i - 1 = 0 THEN Genesis ELSE BlockHash(t[i - 1])
  <2>1. CASE i \in DOMAIN s
    <3>1. i - 1 # 0 => i - 1 \in DOMAIN s
      BY <1>1, <2>1
    <3> QED  BY <1>1, <1>3, <2>1, <3>1
  <2>2. CASE i = Len(s) + 1
    <3>1. /\ i - 1 = Len(s)
          /\ Len(s) # 0 => Len(s) \in DOMAIN s
      BY <1>1, <2>2
    <3> QED  BY <1>1, <1>4, <2>2, <3>1
  <2> QED  BY <1>1, <2>1, <2>2
<1>6. ASSUME NEW i \in DOMAIN t
      PROVE  t[i].previousHash = HeadHash(SubSeq(t, 1, i - 1))
  <2>1. i - 1 \in 0 .. Len(t)
    BY <1>1, <1>2
  <2> QED  BY <1>1, <1>5, <2>1, HeadOfPrefix
<1> QED  BY <1>6 DEF VerifyChain, t

-----------------------------------------------------------------------------
(* The operations of a core *)

LEMMA DeltaIsInteger ==
    ASSUME NEW decision, NEW status
    PROVE  Delta(decision, status) \in Int
<1>1. /\ -AbstainPenalty \in Int /\ AlignedReward \in Int /\ -OpposedPenalty \in Int
  BY CoreAssumption
<1>2. CASE decision = "abstain"
  BY <1>1, <1>2 DEF Delta
<1>3. CASE decision # "abstain"
  BY <1>1, <1>3 DEF Delta
<1> QED  BY <1>2, <1>3

LEMMA ClampIsScore ==
    ASSUME NEW x \in Int
    PROVE  ClampReputation(x) \in Score
BY CoreAssumption DEF ClampReputation, Score

LEMMA OutcomeIsEvents ==
    ASSUME NEW score \in [Agent -> Score], NEW votes \in Votes, NEW status
    PROVE  OutcomeEvents(score, votes, status) \in Events
<1> DEFINE S == IF status = "timed_out" THEN {} ELSE DOMAIN votes
<1>1. S \in SUBSET Agent
  BY DEF Votes
<1>2. ASSUME NEW v \in S
      PROVE  [ before |-> score[v],
               after  |-> ClampReputation(score[v] + Delta(votes[v], status)) ] \in Event
  <2>1. score[v] \in Score /\ score[v] \in Int
    BY <1>1, CoreAssumption DEF Score
  <2>2. score[v] + Delta(votes[v], status) \in Int
    BY <2>1, DeltaIsInteger
  <2> QED  BY <2>1, <2>2, ClampIsScore DEF Event
<1>3. OutcomeEvents(score, votes, status) \in [S -> Event]
  BY <1>2 DEF OutcomeEvents
<1> QED  BY <1>1, <1>3 DEF Events

LEMMA ImportIsScore ==
    ASSUME NEW score \in [Agent -> Score], NEW events \in Events
    PROVE  ImportEvents(score, events) \in [Agent -> Score]
<1>1. PICK S \in SUBSET Agent : events \in [S -> Event]
  BY DEF Events
<1>2. ASSUME NEW a \in Agent
      PROVE  (IF a \in DOMAIN events
              THEN ClampReputation(events[a].after) ELSE score[a]) \in Score
  <2>1. CASE a \in DOMAIN events
    <3>1. events[a].after \in Int
      BY <1>1, <2>1, CoreAssumption DEF Event, Score
    <3> QED  BY <2>1, <3>1, ClampIsScore
  <2> QED  BY <2>1
<1> QED  BY <1>2 DEF ImportEvents

\* A core in which one field was replaced.
WithChain(c, t) == [c EXCEPT !.chain = t]

WithVotes(c, p, w) == [c EXCEPT !.votes[p] = w]

WithProposal(c, p) == [c EXCEPT !.proposals = @ \cup {p}]

LEMMA WithChainFields ==
    ASSUME NEW c, IsRecord(c), NEW t
    PROVE  LET d == WithChain(c, t) IN
           /\ IsRecord(d)
           /\ d.proposals = c.proposals /\ d.votes = c.votes
           /\ d.results = c.results /\ d.history = c.history
           /\ d.score = c.score /\ d.chain = t
BY DEF IsRecord, WithChain

LEMMA WithVotesFields ==
    ASSUME NEW c, IsRecord(c), NEW p \in Proposal, NEW w \in Votes
    PROVE  LET d == WithVotes(c, p, w) IN
           /\ IsRecord(d)
           /\ d.proposals = c.proposals
           /\ d.votes = [c.votes EXCEPT ![p] = w]
           /\ d.results = c.results /\ d.history = c.history
           /\ d.score = c.score /\ d.chain = c.chain
<1>1. [c.votes EXCEPT ![p] = w] \in [Proposal -> Votes]
  BY DEF IsRecord
<1> DEFINE vs == [c.votes EXCEPT ![p] = w]
           d == WithVotes(c, p, w)
<1>2. d = [c EXCEPT !.votes = vs]
  BY DEF WithVotes
<1> HIDE DEF vs, d
<1>3. vs \in [Proposal -> Votes]
  BY <1>1 DEF vs
<1>4. /\ IsRecord(d)
      /\ d.proposals = c.proposals /\ d.votes = vs
      /\ d.results = c.results /\ d.history = c.history
      /\ d.score = c.score /\ d.chain = c.chain
  BY <1>2, <1>3 DEF IsRecord
<1> QED  BY <1>4 DEF vs, d

LEMMA WithProposalFields ==
    ASSUME NEW c, IsRecord(c), NEW p \in Proposal
    PROVE  LET d == WithProposal(c, p) IN
           /\ IsRecord(d)
           /\ d.proposals = c.proposals \cup {p} /\ d.votes = c.votes
           /\ d.results = c.results /\ d.history = c.history
           /\ d.score = c.score /\ d.chain = c.chain
BY DEF IsRecord, WithProposal

\* The core c counts the decision d of voter v on proposal p.
Counts(c, p, v, d) == v \in DOMAIN c.votes[p] /\ c.votes[p][v] = d

\* d is c with other proposals and votes: nothing is decided.
LEMMA SameOutcome ==
    ASSUME NEW c, CoreInv(c), NEW d, CoreShape(d),
           d.results = c.results, d.history = c.history, d.chain = c.chain
    PROVE  CoreInv(d) /\ Keeps(c, d)
BY DEF CoreInv, OnlyFinal, OneBlockEach, OneSettlementEach, Keeps, IsFinalized

LEMMA SubmitCore ==
    ASSUME NEW c, CoreInv(c), NEW p \in Proposal
    PROVE  LET d == SubmitProposal(c, p)
           IN  /\ CoreInv(d) /\ Keeps(c, d)
               /\ d.proposals = c.proposals \cup {p}
               /\ d.results = c.results /\ d.chain = c.chain
               /\ d.score = c.score /\ d.history = c.history
               /\ \A q \in Proposal : \A v, y : Counts(d, q, v, y) => Counts(c, q, v, y)
<1> DEFINE d == SubmitProposal(c, p)
<1>1. CoreShape(c)
  BY DEF CoreInv
<1>2. NoVotes \in Votes
  BY DEF NoVotes, Votes, Decision
<1>3. /\ d.proposals = c.proposals \cup {p}
      /\ d.results = c.results /\ d.chain = c.chain
      /\ d.score = c.score /\ d.history = c.history
      /\ d.votes = [c.votes EXCEPT ![p] = NoVotes]
      /\ IsRecord(d)
  BY <1>1, <1>2 DEF CoreShape, IsRecord, SubmitProposal
<1> HIDE DEF d
<1>4. CoreShape(d)
  BY <1>1, <1>3 DEF CoreShape, IsRecord
<1>5. \A q \in Proposal : \A v, y : Counts(d, q, v, y) => Counts(c, q, v, y)
  BY <1>1, <1>3 DEF Counts, NoVotes, CoreShape, IsRecord
<1> QED  BY <1>3, <1>4, <1>5, SameOutcome DEF d

LEMMA RecordCore ==
    ASSUME NEW c, CoreInv(c), NEW p \in Proposal, NEW a \in Agent, NEW x \in Decision
    PROVE  LET d == RecordVote(c, p, a, x)
           IN  /\ CoreInv(d) /\ Keeps(c, d)
               /\ d.proposals = c.proposals
               /\ d.results = c.results /\ d.chain = c.chain
               /\ d.score = c.score /\ d.history = c.history
               /\ \A q \in Proposal : \A v, y :
                     Counts(d, q, v, y) =>
                         Counts(c, q, v, y) \/ (q = p /\ v = a /\ y = x)
<1> DEFINE d == RecordVote(c, p, a, x)
           w == [v \in DOMAIN c.votes[p] \cup {a} |-> IF v = a THEN x ELSE c.votes[p][v]]
<1>1. CoreShape(c)
  BY DEF CoreInv
<1>2. CASE a \in DOMAIN c.votes[p]
  <2>1. d = c
    BY <1>2 DEF RecordVote
  <2>2. CoreInv(c) /\ Keeps(c, c)
    BY <1>1, SameOutcome
  <2> QED  BY <2>1, <2>2
<1>3. CASE a \notin DOMAIN c.votes[p]
  <2>1. d = WithVotes(c, p, w)
    BY <1>3 DEF RecordVote, WithVotes
  <2>2. c.votes \in [Proposal -> Votes]
    BY <1>1 DEF CoreShape, IsRecord
  <2>3. PICK S \in SUBSET Agent : c.votes[p] \in [S -> Decision]
    <3>1. c.votes[p] \in Votes
      BY <2>2
    <3> QED  BY <3>1 DEF Votes
  <2>4. w \in [S \cup {a} -> Decision]
    BY <2>3
  <2>5. w \in Votes
    BY <2>4 DEF Votes
  <2>6. DOMAIN w = DOMAIN c.votes[p] \cup {a} /\ w[a] = x
        /\ \A v \in DOMAIN c.votes[p] : v # a => w[v] = c.votes[p][v]
    BY <2>3
  <2> HIDE DEF w
  <2>7. /\ d.proposals = c.proposals
        /\ d.results = c.results /\ d.chain = c.chain
        /\ d.score = c.score /\ d.history = c.history
        /\ d.votes = [c.votes EXCEPT ![p] = w]
        /\ IsRecord(d)
    BY <1>1, <2>1, <2>5, WithVotesFields DEF CoreShape
  <2> HIDE DEF d
  <2>8. CoreShape(d)
    BY <1>1, <2>7 DEF CoreShape, IsRecord
  <2>9. \A q \in Proposal : \A v, y :
           Counts(d, q, v, y) => Counts(c, q, v, y) \/ (q = p /\ v = a /\ y = x)
    BY <2>2, <2>6, <2>7 DEF Counts
  <2> QED  BY <2>7, <2>8, <2>9, SameOutcome DEF d
<1> QED  BY <1>2, <1>3

\* A block and the reputation events that travel with it.
BroadcastOK(b) == BlockOK(b.block) /\ b.events \in Events

\* What settling a proposal that is not final does, with or without a block.
LEMMA SettleCore ==
    ASSUME NEW c, CoreInv(c), NEW p \in Proposal, ~IsFinalized(c, p),
           NEW status \in FinalStatus, NEW events \in Events,
           NEW d,
           IsRecord(d),
           d.results = [c.results EXCEPT ![p] = status],
           d.history = Append(c.history, [proposal |-> p, events |-> events]),
           \/ d.chain = c.chain
           \/ \E b : /\ d.chain = Append(c.chain, b)
                     /\ BlockOK(b) /\ b.proposal = p /\ Links(c.chain, b)
    PROVE  CoreInv(d) /\ Keeps(c, d)
<1> DEFINE e == [proposal |-> p, events |-> events]
<1>1. /\ CoreShape(c) /\ OnlyFinal(c) /\ OneBlockEach(c) /\ OneSettlementEach(c)
      /\ VerifyChain(c.chain) /\ IsSequence(c.chain)
      /\ c.results \in [Proposal -> Status]
      /\ c.history \in Seq(Settlement)
      /\ \A i \in DOMAIN c.chain : BlockOK(c.chain[i])
  BY DEF CoreInv, CoreShape, IsRecord
<1>2. \A q \in Proposal : IsFinalized(d, q) <=> (IsFinalized(c, q) \/ q = p)
  BY <1>1 DEF IsFinalized, FinalStatus
<1>3. \A q \in Proposal : IsFinalized(c, q) => d.results[q] = c.results[q]
  BY <1>1
<1>4. /\ DOMAIN c.history = 1 .. Len(c.history) /\ Len(c.history) \in Nat
      /\ DOMAIN d.history = 1 .. Len(c.history) + 1
      /\ \A i \in 1 .. Len(c.history) : d.history[i] = c.history[i]
      /\ d.history[Len(c.history) + 1] = e
  BY <1>1, AppendFacts
<1>5. /\ \A i \in DOMAIN c.history : c.history[i].proposal \in Proposal
      /\ e.proposal = p
  <2>1. \A i \in DOMAIN c.history : c.history[i] \in Settlement
    BY <1>1
  <2> QED  BY <2>1 DEF Settlement
<1> HIDE DEF e
<1>6. \A i \in DOMAIN c.history : c.history[i].proposal # p
  BY <1>1 DEF OnlyFinal
<1>7. \A i \in DOMAIN d.history : i \in DOMAIN c.history \/ i = Len(c.history) + 1
  BY <1>4
<1>8. \A i \in DOMAIN d.history : IsFinalized(d, d.history[i].proposal)
  BY <1>1, <1>2, <1>4, <1>5, <1>7 DEF OnlyFinal
<1>9. OneSettlementEach(d)
  BY <1>1, <1>4, <1>5, <1>6, <1>7 DEF OneSettlementEach
<1>10. CASE d.chain = c.chain
  <2>1. \A i \in DOMAIN c.chain : c.chain[i].proposal \in Proposal
    BY <1>1 DEF BlockOK
  <2>2. OnlyFinal(d)
    BY <1>1, <1>2, <1>8, <1>10, <2>1 DEF OnlyFinal
  <2>3. CoreShape(d)
    BY <1>1, <1>10 DEF CoreShape, IsRecord
  <2> QED  BY <1>1, <1>3, <1>9, <1>10, <2>2, <2>3 DEF CoreInv, OneBlockEach, Keeps
<1>11. CASE \E b : /\ d.chain = Append(c.chain, b)
                   /\ BlockOK(b) /\ b.proposal = p /\ Links(c.chain, b)
  <2>1. PICK b : /\ d.chain = Append(c.chain, b)
                 /\ BlockOK(b) /\ b.proposal = p /\ Links(c.chain, b)
    BY <1>11
  <2>2. /\ IsSequence(d.chain)
        /\ \A i \in DOMAIN c.chain : i \in DOMAIN d.chain /\ d.chain[i] = c.chain[i]
        /\ d.chain[Len(c.chain) + 1] = b
        /\ \A i \in DOMAIN d.chain : i \in DOMAIN c.chain \/ i = Len(c.chain) + 1
    BY <1>1, <2>1, ChainAppend
  <2>3. VerifyChain(d.chain)
    BY <1>1, <2>1, VerifyAppend
  <2>4. /\ \A i \in DOMAIN c.chain : c.chain[i].proposal \in Proposal
        /\ \A i \in DOMAIN c.chain : c.chain[i].proposal # p
    BY <1>1 DEF BlockOK, OnlyFinal
  <2>5. \A i \in DOMAIN d.chain : BlockOK(d.chain[i])
    BY <1>1, <2>1, <2>2
  <2>6. OnlyFinal(d)
    BY <1>1, <1>2, <1>8, <2>1, <2>2, <2>4 DEF OnlyFinal
  <2>7. OneBlockEach(d)
    BY <1>1, <2>1, <2>2, <2>4 DEF OneBlockEach
  <2>8. CoreShape(d)
    BY <2>2, <2>5 DEF CoreShape, IsRecord
  <2> QED  BY <1>3, <1>9, <2>2, <2>3, <2>6, <2>7, <2>8 DEF CoreInv, Keeps
<1> QED  BY <1>10, <1>11

LEMMA SettleFields ==
    ASSUME NEW c, IsRecord(c), NEW p \in Proposal, NEW status \in FinalStatus,
           NEW events \in Events
    PROVE  LET d == Settle(c, p, status, events)
           IN  /\ IsRecord(d)
               /\ d.proposals = c.proposals /\ d.votes = c.votes
               /\ d.results = [c.results EXCEPT ![p] = status]
               /\ d.history = Append(c.history, [proposal |-> p, events |-> events])
               /\ d.score = ImportEvents(c.score, events)
               /\ d.chain = c.chain
<1> DEFINE d == Settle(c, p, status, events)
           e == [proposal |-> p, events |-> events]
<1>1. c.score \in [Agent -> Score] /\ c.history \in Seq(Settlement)
      /\ c.results \in [Proposal -> Status]
  BY DEF IsRecord
<1>2. e \in Settlement
  BY DEF Settlement
<1>3. Append(c.history, e) \in Seq(Settlement)
  BY <1>1, <1>2
<1>4. ImportEvents(c.score, events) \in [Agent -> Score]
  BY <1>1, ImportIsScore
<1>5. [c.results EXCEPT ![p] = status] \in [Proposal -> Status]
  BY <1>1 DEF Status
<1>6. /\ d.proposals = c.proposals /\ d.votes = c.votes
      /\ d.results = [c.results EXCEPT ![p] = status]
      /\ d.history = Append(c.history, e)
      /\ d.score = ImportEvents(c.score, events)
      /\ d.chain = c.chain
  BY DEF Settle, IsRecord
<1> HIDE DEF e
<1>7. IsRecord(d)
  BY <1>3, <1>4, <1>5 DEF Settle, IsRecord, e
<1> QED  BY <1>6, <1>7 DEF e

LEMMA FinalizeCore ==
    ASSUME NEW c, CoreInv(c), NEW p \in Proposal, ~IsFinalized(c, p),
           NEW status \in FinalStatus
    PROVE  LET b == Broadcast(c, p, status)
               d == FinalizeProposal(c, p, status)
           IN  /\ CoreInv(d) /\ Keeps(c, d)
               /\ BroadcastOK(b)
               /\ b.block.proposal = p /\ b.block.status = status
               /\ b.block.votes = c.votes[p]
               /\ d.proposals = c.proposals /\ d.votes = c.votes
               /\ d.results[p] = status
               /\ \A q \in Proposal : q # p => d.results[q] = c.results[q]
               /\ d.chain = Longer(c.chain, b.block)
               /\ d.history = Longer(c.history, Settled(p, b.events))
               /\ d.score = ImportEvents(c.score, b.events)
<1> DEFINE b == Broadcast(c, p, status)
           d == FinalizeProposal(c, p, status)
<1>1. IsRecord(c) /\ IsSequence(c.chain)
  BY DEF CoreInv, CoreShape
<1>2. c.score \in [Agent -> Score] /\ c.votes[p] \in Votes
  BY <1>1 DEF IsRecord
<1>3. /\ b.block = NextBlock(c.chain, p, c.votes[p], status)
      /\ b.events = OutcomeEvents(c.score, c.votes[p], status)
  BY DEF Broadcast
<1>4. b.events \in Events
  BY <1>2, <1>3, OutcomeIsEvents
<1>5. /\ BlockOK(b.block) /\ Links(c.chain, b.block)
      /\ b.block.proposal = p /\ b.block.status = status
      /\ b.block.votes = c.votes[p]
  <2>1. Len(c.chain) + 1 \in Nat
    BY <1>1, ChainAppend
  <2> QED  BY <1>2, <1>3, <2>1 DEF NextBlock, BlockOK, Links
<1> DEFINE s == Settle(c, p, status, b.events)
<1>6. d = [s EXCEPT !.chain = Append(@, b.block)]
  BY DEF FinalizeProposal
<1> HIDE DEF b, d
<1>7. /\ IsRecord(s)
      /\ s.proposals = c.proposals /\ s.votes = c.votes
      /\ s.results = [c.results EXCEPT ![p] = status]
      /\ s.history = Append(c.history, [proposal |-> p, events |-> b.events])
      /\ s.score = ImportEvents(c.score, b.events)
      /\ s.chain = c.chain
  BY <1>1, <1>4, SettleFields
<1> HIDE DEF s
<1> DEFINE t == Append(c.chain, b.block)
<1>8. d = WithChain(s, t)
  BY <1>6, <1>7 DEF WithChain
<1> HIDE DEF t
<1>9. /\ IsRecord(d)
      /\ d.proposals = c.proposals /\ d.votes = c.votes
      /\ d.results = [c.results EXCEPT ![p] = status]
      /\ d.history = Append(c.history, [proposal |-> p, events |-> b.events])
      /\ d.score = ImportEvents(c.score, b.events)
      /\ d.chain = t
  BY <1>7, <1>8, WithChainFields
<1>10. \E x : /\ d.chain = Append(c.chain, x)
              /\ BlockOK(x) /\ x.proposal = p /\ Links(c.chain, x)
  BY <1>5, <1>9 DEF t
<1>11. CoreInv(d) /\ Keeps(c, d)
  BY <1>4, <1>9, <1>10, SettleCore
<1>12. /\ d.results[p] = status
       /\ \A q \in Proposal : q # p => d.results[q] = c.results[q]
  BY <1>1, <1>9 DEF IsRecord
<1> QED  BY <1>4, <1>5, <1>9, <1>11, <1>12 DEF BroadcastOK, Longer, Settled, b, d, t

LEMMA ApplyCore ==
    ASSUME NEW c, CoreInv(c), NEW b, BroadcastOK(b)
    PROVE  LET p == b.block.proposal
               d == ApplyFinalizationBroadcast(c, b)
           IN  /\ p \in Proposal
               /\ CoreInv(d) /\ Keeps(c, d)
               /\ IsFinalized(c, p) => d = c
               /\ ~IsFinalized(c, p) =>
                     /\ d.proposals = c.proposals \cup {p}
                     /\ d.votes[p] = b.block.votes /\ d.results[p] = b.block.status
                     /\ \A q \in Proposal : q # p =>
                           d.votes[q] = c.votes[q] /\ d.results[q] = c.results[q]
                     /\ d.history = Longer(c.history, Settled(p, b.events))
                     /\ d.score = ImportEvents(c.score, b.events)
                     /\ d.chain = IF Links(c.chain, b.block)
                                  THEN Longer(c.chain, b.block) ELSE c.chain
<1> DEFINE p == b.block.proposal
           d == ApplyFinalizationBroadcast(c, b)
<1>1. /\ CoreShape(c) /\ IsRecord(c)
      /\ p \in Proposal /\ b.block.status \in FinalStatus /\ b.events \in Events
      /\ b.block.votes \in Votes /\ BlockOK(b.block)
  BY DEF CoreInv, CoreShape, BroadcastOK, BlockOK
<1>2. CASE IsFinalized(c, p)
  <2>1. d = c
    BY <1>2 DEF ApplyFinalizationBroadcast, ImportFails
  <2>2. CoreInv(c) /\ Keeps(c, c)
    BY <1>1, SameOutcome
  <2> QED  BY <1>1, <1>2, <2>1, <2>2
<1>3. CASE ~IsFinalized(c, p)
  <2> DEFINE r == [c EXCEPT !.proposals = @ \cup {p}, !.votes[p] = b.block.votes]
             s == Settle(r, p, b.block.status, b.events)
             t == IF Links(c.chain, b.block) THEN Append(c.chain, b.block) ELSE c.chain
  <2>1. d = IF Links(c.chain, b.block) THEN [s EXCEPT !.chain = Append(@, b.block)] ELSE s
    BY <1>3 DEF ApplyFinalizationBroadcast, ImportFails
  <2> HIDE DEF d, p
  <2>2. /\ IsRecord(r)
        /\ r.proposals = c.proposals \cup {p}
        /\ r.votes = [c.votes EXCEPT ![p] = b.block.votes]
        /\ r.results = c.results /\ r.history = c.history
        /\ r.score = c.score /\ r.chain = c.chain
    <3> DEFINE o == WithProposal(c, p)
    <3>1. r = WithVotes(o, p, b.block.votes)
      BY DEF WithProposal, WithVotes
    <3>2. /\ IsRecord(o)
          /\ o.proposals = c.proposals \cup {p} /\ o.votes = c.votes
          /\ o.results = c.results /\ o.history = c.history
          /\ o.score = c.score /\ o.chain = c.chain
      BY <1>1, WithProposalFields DEF p
    <3> HIDE DEF o, r
    <3> QED  BY <1>1, <3>1, <3>2, WithVotesFields
  <2> HIDE DEF r
  <2>3. /\ IsRecord(s)
        /\ s.proposals = r.proposals /\ s.votes = r.votes
        /\ s.results = [r.results EXCEPT ![p] = b.block.status]
        /\ s.history = Append(r.history, [proposal |-> p, events |-> b.events])
        /\ s.score = ImportEvents(r.score, b.events)
        /\ s.chain = r.chain
    BY <1>1, <2>2, SettleFields, SMTT(30)
  <2> HIDE DEF s
  <2>4. /\ IsRecord(d)
        /\ d.proposals = s.proposals /\ d.votes = s.votes
        /\ d.results = s.results /\ d.history = s.history
        /\ d.score = s.score /\ d.chain = t
    <3>1. CASE Links(c.chain, b.block)
      <4>1. t = Append(c.chain, b.block)
        BY <3>1
      <4>2. d = WithChain(s, t)
        BY <2>1, <2>2, <2>3, <3>1 DEF WithChain
      <4> HIDE DEF t
      <4> QED  BY <2>3, <4>2, WithChainFields
    <3>2. CASE ~Links(c.chain, b.block)
      BY <2>1, <2>2, <2>3, <3>2
    <3> QED  BY <3>1, <3>2
  <2>5. \/ d.chain = c.chain
        \/ \E x : /\ d.chain = Append(c.chain, x)
                  /\ BlockOK(x) /\ x.proposal = p /\ Links(c.chain, x)
    BY <1>1, <2>4 DEF p
  <2>6. /\ d.results = [c.results EXCEPT ![p] = b.block.status]
        /\ d.history = Append(c.history, [proposal |-> p, events |-> b.events])
    BY <2>2, <2>3, <2>4
  <2> HIDE DEF t
  <2>7. CoreInv(d) /\ Keeps(c, d)
    BY <1>1, <1>3, <2>4, <2>5, <2>6, SettleCore
  <2>8. /\ d.votes[p] = b.block.votes /\ d.results[p] = b.block.status
        /\ \A q \in Proposal : q # p =>
              d.votes[q] = c.votes[q] /\ d.results[q] = c.results[q]
    BY <1>1, <2>2, <2>3, <2>4 DEF IsRecord
  <2> QED  BY <1>1, <1>3, <2>2, <2>3, <2>4, <2>6, <2>7, <2>8 DEF Longer, Settled, d, p, t
<1> QED  BY <1>2, <1>3

-----------------------------------------------------------------------------
(* The network *)

MsgOK(m) ==
    \/ m \in [kind : {"proposal"}, proposal : Proposal]
    \/ m \in [kind : {"vote"}, proposal : Proposal, voter : Agent, decision : Decision]
    \/ m = BlockMsg(m.broadcast) /\ BroadcastOK(m.broadcast)

NodesOK ==
    /\ core = [n \in Agent |-> core[n]]
    /\ inbox = [n \in Agent |-> inbox[n]]
    /\ \A n \in Agent : CoreInv(core[n])
    /\ \A n \in Agent : \A m \in inbox[n] : MsgOK(m)

BooksOK ==
    /\ call \in [Proposal -> {"idle", "proposalSent", "voteSent", "blockSent",
                              "waiting", "resolved", "failed"}]
    /\ publishing \subseteq Proposal /\ expired \subseteq Proposal
    /\ running \in [Agent -> BOOLEAN]
    /\ lost \in 0 .. MaxLoss /\ duplicated \in 0 .. MaxDuplicate

\* The block is in its proposer's chain, with the outcome the proposer holds.
Decided(cores, b) ==
    LET c == cores[ProposerOf[b.proposal]]
    IN  /\ c.results[b.proposal] = b.status
        /\ \E i \in DOMAIN c.chain : c.chain[i] = b

\* Whatever is final or on its way to be so was decided by its proposer.
ProposerDecides ==
    /\ \A n \in Agent, p \in Proposal :
          IsFinalized(core[n], p)
              => core[n].results[p] = core[ProposerOf[p]].results[p]
    /\ \A n \in Agent : \A i \in DOMAIN core[n].chain : Decided(core, core[n].chain[i])
    /\ \A n \in Agent : \A m \in inbox[n] :
          m.kind = "block" => Decided(core, m.broadcast.block)

\* The message m tells that v decided d on p.
Reports(m, p, v, d) ==
    \/ m = VoteMsg(p, v, d)
    \/ /\ m.kind = "block"
       /\ m.broadcast.block.proposal = p
       /\ v \in DOMAIN m.broadcast.block.votes
       /\ m.broadcast.block.votes[v] = d

\* Somebody counts this vote, or a message is on its way with it.
OnRecord(p, v, d) ==
    \E n \in Agent :
        \/ Counts(core[n], p, v, d)
        \/ \E m \in inbox[n] : Reports(m, p, v, d)

\* What keeps v from voting on p once more: its call is past that point, or it
\* knows the proposal.  A node may forget its own vote when it applies a block
\* that was decided without it, so its own core is no evidence.
HasVoted(v, p) ==
    \/ v = ProposerOf[p] /\ call[p] \notin {"idle", "proposalSent"}
    \/ v # ProposerOf[p] /\ HasProposal(core[v], p)

VotesOnRecord ==
    \A p \in Proposal, v \in Agent, d \in Decision :
        OnRecord(p, v, d) =>
            /\ HasVoted(v, p)
            /\ \A e \in Decision : OnRecord(p, v, e) => d = e

\* The proposer never receives its own proposal.
NoEcho == \A p \in Proposal : ProposalMsg(p) \notin inbox[ProposerOf[p]]

NetInv == NodesOK /\ ProposerDecides /\ VotesOnRecord /\ NoEcho

\* The inductive invariant.  Agreement needs ProposerDecides: two nodes agree
\* because both agree with the proposer.  VotesAgree needs VotesOnRecord, with
\* the votes that are still on their way.
IInv == NetInv /\ BooksOK

-----------------------------------------------------------------------------
(* What a step does to the network: the core of node n becomes d, and the    *)
(* other nodes may receive msgs.                                             *)

Inboxes(n, msgs) ==
    /\ inbox' = [k \in Agent |-> inbox'[k]]
    /\ \A k \in Agent : inbox'[k] \subseteq inbox[k] \cup msgs
    /\ inbox'[n] \subseteq inbox[n]

Change(n, d, msgs) == core' = [core EXCEPT ![n] = d] /\ Inboxes(n, msgs)

LEMMA PublishFacts ==
    ASSUME NodesOK, NEW n \in Agent, NEW box,
           \A k \in Agent : box[k] \subseteq inbox[k],
           NEW msgs, inbox' = Publish(n, box, msgs)
    PROVE  Inboxes(n, msgs)
BY DEF Publish, Inboxes

LEMMA ReceiveFacts ==
    ASSUME NodesOK, NEW n \in Agent, NEW m, Receive(n, m)
    PROVE  Inboxes(n, {})
BY DEF Receive, Inboxes, NodesOK

LEMMA ReceiveAndPublishFacts ==
    ASSUME NodesOK, NEW n \in Agent, NEW m, NEW msgs, ReceiveAndPublish(n, m, msgs)
    PROVE  Inboxes(n, msgs)
<1> DEFINE box == [inbox EXCEPT ![n] = @ \ {m}]
<1>1. \A k \in Agent : box[k] \subseteq inbox[k] /\ inbox[k] \subseteq inbox[k]
  BY DEF NodesOK
<1> HIDE DEF box
<1>2. inbox' = Publish(n, box, msgs) \/ inbox' = Publish(n, inbox, msgs)
  BY DEF ReceiveAndPublish, box
<1> QED  BY <1>1, <1>2, PublishFacts

LEMMA NodesStep ==
    ASSUME NodesOK, NEW n \in Agent, NEW d, NEW msgs, Change(n, d, msgs),
           CoreInv(d), \A m \in msgs : MsgOK(m)
    PROVE  NodesOK'
<1>1. core' = [k \in Agent |-> core'[k]]
  BY DEF NodesOK, Change
<1>2. \A k \in Agent : core'[k] = IF k = n THEN d ELSE core[k]
  BY DEF NodesOK, Change
<1>3. \A k \in Agent : CoreInv(core'[k])
  BY <1>2 DEF NodesOK
<1>4. inbox' = [k \in Agent |-> inbox'[k]]
  BY DEF Change, Inboxes
<1>5. \A k \in Agent : \A m \in inbox'[k] : MsgOK(m)
  BY DEF NodesOK, Change, Inboxes
<1> QED  BY <1>1, <1>3, <1>4, <1>5 DEF NodesOK, MsgOK

\* The core d settles, beyond what c has settled, only what n proposed.
OwnDecisions(n, c, d) ==
    /\ \A p \in Proposal :
          IsFinalized(d, p) => d.results[p] = c.results[p] \/ n = ProposerOf[p]
    /\ \A i \in DOMAIN d.chain :
          \/ i \in DOMAIN c.chain /\ d.chain[i] = c.chain[i]
          \/ /\ n = ProposerOf[d.chain[i].proposal]
             /\ d.results[d.chain[i].proposal] = d.chain[i].status

\* ... or what the proposer decided before.
LEMMA DecisionsStep ==
    ASSUME NodesOK, ProposerDecides,
           NEW n \in Agent, NEW d, NEW msgs, Change(n, d, msgs),
           CoreInv(d), Keeps(core[n], d), \A m \in msgs : MsgOK(m),
           \A p \in Proposal :
              IsFinalized(d, p) =>
                 \/ d.results[p] = core[n].results[p] \/ n = ProposerOf[p]
                 \/ d.results[p] = core[ProposerOf[p]].results[p],
           \A i \in DOMAIN d.chain :
              \/ i \in DOMAIN core[n].chain /\ d.chain[i] = core[n].chain[i]
              \/ /\ n = ProposerOf[d.chain[i].proposal]
                 /\ d.results[d.chain[i].proposal] = d.chain[i].status
              \/ Decided(core, d.chain[i]),
           \A m \in msgs : m.kind = "block" =>
              LET b == m.broadcast.block
              IN  /\ n = ProposerOf[b.proposal]
                  /\ d.results[b.proposal] = b.status
                  /\ \E i \in DOMAIN d.chain : d.chain[i] = b
    PROVE  ProposerDecides'
<1>1. /\ \A k \in Agent : core'[k] = IF k = n THEN d ELSE core[k]
      /\ \A k \in Agent : Keeps(core[k], core'[k])
  <2>1. \A k \in Agent : core'[k] = IF k = n THEN d ELSE core[k]
    BY DEF NodesOK, Change
  <2>2. \A k \in Agent : Keeps(core[k], core[k])
    BY DEF Keeps
  <2> QED  BY <2>1, <2>2
<1>2. ASSUME NEW b, BlockOK(b), Decided(core, b)
      PROVE  Decided(core', b)
  <2> DEFINE a == ProposerOf[b.proposal]
  <2>1. a \in Agent /\ b.proposal \in Proposal /\ b.status # "none"
    BY <1>2, NodeAssumption DEF BlockOK, FinalStatus
  <2>2. core'[a].results[b.proposal] = b.status
    BY <1>1, <1>2, <2>1 DEF Keeps, Decided, IsFinalized
  <2>3. \E i \in DOMAIN core'[a].chain : core'[a].chain[i] = b
    <3>1. Keeps(core[a], core'[a])
      BY <1>1, <2>1
    <3>2. PICK i \in DOMAIN core[a].chain : core[a].chain[i] = b
      BY <1>2 DEF Decided
    <3>3. i \in DOMAIN core'[a].chain /\ core'[a].chain[i] = b
      BY <3>1, <3>2 DEF Keeps
    <3> QED  BY <3>3
  <2> QED  BY <2>2, <2>3 DEF Decided
<1>3. ASSUME NEW k \in Agent, NEW p \in Proposal, IsFinalized(core'[k], p)
      PROVE  core'[k].results[p] = core'[ProposerOf[p]].results[p]
  <2> DEFINE a == ProposerOf[p]
  <2>1. a \in Agent
    BY NodeAssumption
  <2> HIDE DEF a
  <2>2. CASE k = a
    BY <2>2 DEF a
  <2>3. CASE k # a /\ core'[k].results[p] = core[k].results[p]
    <3>1. core[k].results[p] = core[a].results[p] /\ IsFinalized(core[a], p)
      BY <1>3, <2>3 DEF ProposerDecides, IsFinalized, a
    <3>2. core'[a].results[p] = core[a].results[p]
      BY <1>1, <2>1, <3>1 DEF Keeps
    <3> QED  BY <2>3, <3>1, <3>2 DEF a
  <2>4. CASE k # a /\ core'[k].results[p] # core[k].results[p]
    <3>1. k = n /\ core'[k] = d
      BY <1>1, <2>4
    <3>2. d.results[p] = core[a].results[p] /\ core'[a] = core[a]
      BY <1>1, <1>3, <2>1, <2>4, <3>1 DEF a
    <3> QED  BY <3>1, <3>2 DEF a
  <2> QED  BY <2>2, <2>3, <2>4
<1>4. ASSUME NEW k \in Agent, NEW i \in DOMAIN core'[k].chain
      PROVE  Decided(core', core'[k].chain[i])
  <2>1. CASE i \in DOMAIN core[k].chain /\ core'[k].chain[i] = core[k].chain[i]
    <3>1. BlockOK(core[k].chain[i]) /\ Decided(core, core[k].chain[i])
      BY <2>1 DEF NodesOK, CoreInv, CoreShape, ProposerDecides
    <3> QED  BY <1>2, <2>1, <3>1
  <2>2. CASE ~(i \in DOMAIN core[k].chain /\ core'[k].chain[i] = core[k].chain[i])
    <3>1. k = n /\ core'[k] = d
      BY <1>1, <1>4, <2>2
    <3> DEFINE b == d.chain[i]
    <3>2. BlockOK(b)
      BY <1>4, <3>1 DEF CoreInv, CoreShape
    <3>3. CASE Decided(core, b)
      BY <1>2, <3>1, <3>2, <3>3
    <3>4. CASE n = ProposerOf[b.proposal] /\ d.results[b.proposal] = b.status
      BY <1>4, <3>1, <3>4 DEF Decided
    <3> QED  BY <1>4, <2>2, <3>1, <3>3, <3>4
  <2> QED  BY <2>1, <2>2
<1>5. ASSUME NEW k \in Agent, NEW m \in inbox'[k], m.kind = "block"
      PROVE  Decided(core', m.broadcast.block)
  <2> DEFINE b == m.broadcast.block
  <2>1. CASE m \in inbox[k]
    <3>1. Decided(core, b)
      BY <1>5, <2>1 DEF ProposerDecides
    <3>2. BlockOK(b)
      BY <1>5, <2>1 DEF NodesOK, MsgOK, BlockMsg, BroadcastOK
    <3> QED  BY <1>2, <3>1, <3>2
  <2>2. CASE m \in msgs
    <3>1. core'[n] = d
      BY <1>1
    <3>2. n = ProposerOf[b.proposal] /\ d.results[b.proposal] = b.status
      BY <1>5, <2>2
    <3>3. \E i \in DOMAIN d.chain : d.chain[i] = b
      BY <1>5, <2>2
    <3> QED  BY ONLY <3>1, <3>2, <3>3 DEF Decided
  <2> QED  BY <2>1, <2>2 DEF Change, Inboxes
<1> QED  BY <1>3, <1>4, <1>5 DEF ProposerDecides

\* A step without a new vote.
LEMMA VotesKept ==
    ASSUME NodesOK, VotesOnRecord,
           NEW n \in Agent, NEW d, NEW msgs, Change(n, d, msgs),
           \A p \in Proposal, v \in Agent : HasVoted(v, p) => HasVoted(v, p)',
           \A p \in Proposal, v \in Agent, x \in Decision :
              Counts(d, p, v, x) => OnRecord(p, v, x),
           \A m \in msgs : \A p \in Proposal, v \in Agent, x \in Decision :
              Reports(m, p, v, x) => OnRecord(p, v, x)
    PROVE  VotesOnRecord'
<1>1. \A k \in Agent : core'[k] = IF k = n THEN d ELSE core[k]
  BY DEF NodesOK, Change
<1>2. ASSUME NEW p \in Proposal, NEW v \in Agent, NEW x \in Decision, OnRecord(p, v, x)'
      PROVE  OnRecord(p, v, x)
  <2>1. PICK k \in Agent : \/ Counts(core'[k], p, v, x)
                           \/ \E m \in inbox'[k] : Reports(m, p, v, x)
    BY <1>2 DEF OnRecord, Counts, Reports, VoteMsg
  <2>2. CASE Counts(core'[k], p, v, x)
    BY <1>1, <2>2 DEF OnRecord
  <2>3. CASE \E m \in inbox'[k] : Reports(m, p, v, x)
    BY <2>3 DEF OnRecord, Change, Inboxes
  <2> QED  BY <2>1, <2>2, <2>3
<1> QED  BY <1>2 DEF VotesOnRecord

\* A step in which the agent a casts the vote z on q: its first.
LEMMA VoteCast ==
    ASSUME NodesOK, VotesOnRecord,
           NEW n \in Agent, NEW d, NEW msgs, Change(n, d, msgs),
           NEW q \in Proposal, NEW a \in Agent, NEW z \in Decision,
           ~HasVoted(a, q), HasVoted(a, q)',
           \A p \in Proposal, v \in Agent : HasVoted(v, p) => HasVoted(v, p)',
           \A p \in Proposal, v \in Agent, x \in Decision :
              Counts(d, p, v, x) => OnRecord(p, v, x) \/ (p = q /\ v = a /\ x = z),
           \A m \in msgs : \A p \in Proposal, v \in Agent, x \in Decision :
              Reports(m, p, v, x) => OnRecord(p, v, x) \/ (p = q /\ v = a /\ x = z)
    PROVE  VotesOnRecord'
<1>1. \A k \in Agent : core'[k] = IF k = n THEN d ELSE core[k]
  BY DEF NodesOK, Change
<1>2. ASSUME NEW p \in Proposal, NEW v \in Agent, NEW x \in Decision, OnRecord(p, v, x)'
      PROVE  OnRecord(p, v, x) \/ (p = q /\ v = a /\ x = z)
  <2>1. PICK k \in Agent : \/ Counts(core'[k], p, v, x)
                           \/ \E m \in inbox'[k] : Reports(m, p, v, x)
    BY <1>2 DEF OnRecord, Counts, Reports, VoteMsg
  <2>2. CASE Counts(core'[k], p, v, x)
    BY <1>1, <2>2 DEF OnRecord
  <2>3. CASE \E m \in inbox'[k] : Reports(m, p, v, x)
    BY <2>3 DEF OnRecord, Change, Inboxes
  <2> QED  BY <2>1, <2>2, <2>3
<1>3. \A x \in Decision : ~OnRecord(q, a, x)
  BY DEF VotesOnRecord
<1> QED  BY <1>2, <1>3 DEF VotesOnRecord

\* The proposal itself goes to the other nodes only.
LEMMA NoEchoStep ==
    ASSUME NoEcho, NEW n \in Agent, NEW d, NEW msgs, Change(n, d, msgs),
           \A p \in Proposal : ProposalMsg(p) \in msgs => n = ProposerOf[p]
    PROVE  NoEcho'
<1> SUFFICES ASSUME NEW p \in Proposal
             PROVE  ProposalMsg(p) \notin inbox'[ProposerOf[p]]
  BY DEF NoEcho, ProposalMsg
<1>1. ProposerOf[p] \in Agent /\ ProposalMsg(p) \notin inbox[ProposerOf[p]]
  BY NodeAssumption DEF NoEcho
<1> QED  BY <1>1 DEF Change, Inboxes

LEMMA TryFinalizeFacts ==
    ASSUME NEW n \in Agent, NEW c, CoreInv(c), NEW p \in Proposal
    PROVE  LET d == TryFinalize(n, c, p)
           IN  /\ CoreInv(d) /\ Keeps(c, d) /\ OwnDecisions(n, c, d)
               /\ d.proposals = c.proposals /\ d.votes = c.votes
               /\ \A m \in FinalBlock(n, c, p) :
                     /\ MsgOK(m) /\ m.kind = "block"
                     /\ m.broadcast.block.proposal = p /\ n = ProposerOf[p]
                     /\ m.broadcast.block.votes = c.votes[p]
                     /\ d.results[p] = m.broadcast.block.status
                     /\ \E i \in DOMAIN d.chain : d.chain[i] = m.broadcast.block
<1> DEFINE d == TryFinalize(n, c, p)
<1>1. CASE ~MayFinalize(n, c, p)
  <2>1. d = c /\ FinalBlock(n, c, p) = {}
    BY <1>1 DEF TryFinalize, FinalBlock
  <2>2. Keeps(c, c) /\ OwnDecisions(n, c, c)
    BY DEF Keeps, OwnDecisions
  <2> QED  BY <2>1, <2>2
<1>2. CASE MayFinalize(n, c, p)
  <2> DEFINE status == StatusAt(c, p)
             b == Broadcast(c, p, status)
  <2>1. n = ProposerOf[p] /\ ~IsFinalized(c, p) /\ status # "pending"
    BY <1>2 DEF MayFinalize
  <2>2. status \in FinalStatus
    BY <2>1 DEF StatusAt, EvaluateProposal, FinalStatus
  <2>3. /\ d = FinalizeProposal(c, p, status) /\ b = Broadcast(c, p, status)
        /\ FinalBlock(n, c, p) = {BlockMsg(b)}
    BY <1>2 DEF TryFinalize, FinalBlock
  <2> HIDE DEF status, b, d
  <2>4. /\ CoreInv(d) /\ Keeps(c, d)
        /\ BroadcastOK(b)
        /\ b.block.proposal = p /\ b.block.status = status
        /\ b.block.votes = c.votes[p]
        /\ d.proposals = c.proposals /\ d.votes = c.votes
        /\ d.results[p] = status
        /\ \A q \in Proposal : q # p => d.results[q] = c.results[q]
        /\ d.chain = Longer(c.chain, b.block)
    BY <2>1, <2>2, <2>3, FinalizeCore
  <2>5. /\ \A i \in DOMAIN d.chain : i \in DOMAIN c.chain \/ i = Len(c.chain) + 1
        /\ \A i \in DOMAIN c.chain : d.chain[i] = c.chain[i]
        /\ d.chain[Len(c.chain) + 1] = b.block
        /\ Len(c.chain) + 1 \in DOMAIN d.chain
    BY <2>4, ChainAppend DEF CoreInv, CoreShape, Longer
  <2>6. OwnDecisions(n, c, d)
    <3>1. \A q \in Proposal : d.results[q] = c.results[q] \/ n = ProposerOf[q]
      BY <2>1, <2>4
    <3>2. \A i \in DOMAIN d.chain :
            \/ i \in DOMAIN c.chain /\ d.chain[i] = c.chain[i]
            \/ d.chain[i] = b.block
      BY <2>5
    <3> QED  BY <2>1, <2>4, <3>1, <3>2 DEF OwnDecisions
  <2>7. BlockMsg(b).kind = "block" /\ BlockMsg(b).broadcast = b
    BY DEF BlockMsg
  <2>8. MsgOK(BlockMsg(b))
    BY <2>4, <2>7 DEF MsgOK
  <2>9. \E i \in DOMAIN d.chain : d.chain[i] = b.block
    BY <2>5
  <2> QED  BY <2>1, <2>3, <2>4, <2>6, <2>7, <2>8, <2>9 DEF d
<1> QED  BY <1>1, <1>2

\* A step that neither decides nor votes.
LEMMA QuietStep ==
    ASSUME NetInv, core' = core, NEW n \in Agent, Inboxes(n, {}),
           \A p \in Proposal, v \in Agent : HasVoted(v, p) => HasVoted(v, p)'
    PROVE  NetInv'
<1>1. NodesOK /\ CoreInv(core[n])
  BY DEF NetInv, NodesOK
<1>2. Change(n, core[n], {})
  BY <1>1 DEF Change, NodesOK
<1>3. Keeps(core[n], core[n])
  BY DEF Keeps
<1>4. NodesOK'
  BY <1>1, <1>2, NodesStep
<1>5. ProposerDecides'
  BY <1>1, <1>2, <1>3, DecisionsStep DEF NetInv
<1>6. VotesOnRecord'
  BY <1>1, <1>2, VotesKept DEF NetInv, OnRecord
<1>7. NoEcho'
  BY <1>2, NoEchoStep DEF NetInv
<1> QED  BY <1>4, <1>5, <1>6, <1>7 DEF NetInv

-----------------------------------------------------------------------------
(* One lemma per action *)

\* Nothing that a step does to call or to a core takes back a vote.
LEMMA VotedStays ==
    ASSUME BooksOK, NodesOK, NEW n \in Agent, NEW d, NEW msgs, Change(n, d, msgs),
           core[n].proposals \subseteq d.proposals,
           \A p \in Proposal : call[p] \notin {"idle", "proposalSent"}
              => call'[p] \notin {"idle", "proposalSent"}
    PROVE  \A p \in Proposal, v \in Agent : HasVoted(v, p) => HasVoted(v, p)'
<1>1. \A k \in Agent : core'[k] = IF k = n THEN d ELSE core[k]
  BY DEF NodesOK, Change
<1> QED  BY <1>1 DEF HasVoted, HasProposal

LEMMA CallStays ==
    ASSUME BooksOK, NEW p \in Proposal, NEW from, NEW to, Step(p, from, to),
           to \in {"proposalSent", "voteSent", "blockSent", "waiting", "failed"},
           to = "proposalSent" => from = "idle"
    PROVE  \A q \in Proposal : call[q] \notin {"idle", "proposalSent"}
              => call'[q] \notin {"idle", "proposalSent"}
BY DEF BooksOK, Step

LEMMA ResolvedStays ==
    ASSUME BooksOK, NEW n, NEW p \in Proposal, call' = Resolved(n, p)
    PROVE  \A q \in Proposal : call[q] \notin {"idle", "proposalSent"}
              => call'[q] \notin {"idle", "proposalSent"}
BY DEF BooksOK, Resolved

LEMMA SubmitStep ==
    ASSUME IInv, NEW p \in Proposal, Submit(p)
    PROVE  NetInv'
<1> DEFINE n == ProposerOf[p]
           d == SubmitProposal(core[n], p)
           msgs == {ProposalMsg(p)}
<1>1. /\ NodesOK /\ ProposerDecides /\ VotesOnRecord /\ NoEcho /\ BooksOK
      /\ n \in Agent /\ CoreInv(core[n])
  BY NodeAssumption DEF IInv, NetInv, NodesOK
<1>2. Step(p, "idle", "proposalSent")
  BY DEF Submit
<1>3. core' = [core EXCEPT ![n] = d] /\ inbox' = Publish(n, inbox, msgs)
  BY DEF Submit
<1>4. /\ CoreInv(d) /\ Keeps(core[n], d)
      /\ d.proposals = core[n].proposals \cup {p}
      /\ d.results = core[n].results /\ d.chain = core[n].chain
      /\ \A q \in Proposal : \A v, y : Counts(d, q, v, y) => Counts(core[n], q, v, y)
  BY <1>1, SubmitCore
<1> HIDE DEF d, n
<1>5. Change(n, d, msgs)
  <2>1. Inboxes(n, msgs)
    BY <1>1, <1>3, PublishFacts
  <2> QED  BY <1>3, <2>1 DEF Change
<1>6. \A m \in msgs : MsgOK(m) /\ m.kind # "block"
  BY DEF MsgOK, ProposalMsg
<1>7. \A q \in Proposal, v \in Agent : HasVoted(v, q) => HasVoted(v, q)'
  <2>1. \A q \in Proposal : call[q] \notin {"idle", "proposalSent"}
           => call'[q] \notin {"idle", "proposalSent"}
    BY <1>1, <1>2, CallStays
  <2> QED  BY <1>1, <1>4, <1>5, <2>1, VotedStays
<1>8. NodesOK'
  BY <1>1, <1>4, <1>5, <1>6, NodesStep
<1>9. ProposerDecides'
  BY <1>1, <1>4, <1>5, <1>6, DecisionsStep
<1>10. VotesOnRecord'
  <2>1. \A q \in Proposal, v \in Agent, x \in Decision :
           Counts(d, q, v, x) => OnRecord(q, v, x)
    BY <1>1, <1>4 DEF OnRecord
  <2>2. \A m \in msgs : \A q, v, x : ~Reports(m, q, v, x)
    BY DEF Reports, ProposalMsg, VoteMsg
  <2> QED  BY <1>1, <1>5, <1>7, <2>1, <2>2, VotesKept
<1>11. NoEcho'
  <2>1. \A q \in Proposal : ProposalMsg(q) \in msgs => n = ProposerOf[q]
    BY DEF ProposalMsg, n
  <2> QED  BY <1>1, <1>5, <2>1, NoEchoStep
<1> QED  BY <1>8, <1>9, <1>10, <1>11 DEF NetInv

LEMMA VoteLocallyStep ==
    ASSUME IInv, NEW p \in Proposal, VoteLocally(p)
    PROVE  NetInv'
<1> DEFINE n == ProposerOf[p]
<1>1. /\ NodesOK /\ ProposerDecides /\ VotesOnRecord /\ NoEcho /\ BooksOK
      /\ n \in Agent /\ CoreInv(core[n])
  BY NodeAssumption DEF IInv, NetInv, NodesOK
<1>2. Step(p, "proposalSent", "voteSent")
  BY DEF VoteLocally
<1>3. PICK x \in Opinion[p][n] :
         /\ core' = [core EXCEPT ![n] = RecordVote(@, p, n, x)]
         /\ inbox' = Publish(n, inbox, {VoteMsg(p, n, x)})
  BY DEF VoteLocally
<1>4. x \in Decision
  BY <1>1, <1>3, NodeAssumption
<1> DEFINE d == RecordVote(core[n], p, n, x)
           msgs == {VoteMsg(p, n, x)}
<1>5. core' = [core EXCEPT ![n] = d] /\ inbox' = Publish(n, inbox, msgs)
  BY <1>3
<1>6. /\ CoreInv(d) /\ Keeps(core[n], d)
      /\ d.proposals = core[n].proposals
      /\ d.results = core[n].results /\ d.chain = core[n].chain
      /\ \A q \in Proposal : \A v, y :
            Counts(d, q, v, y) => Counts(core[n], q, v, y) \/ (q = p /\ v = n /\ y = x)
  BY <1>1, <1>4, RecordCore
<1> HIDE DEF d, n
<1>7. Change(n, d, msgs)
  <2>1. Inboxes(n, msgs)
    BY <1>1, <1>5, PublishFacts
  <2> QED  BY <1>5, <2>1 DEF Change
<1>8. \A m \in msgs : MsgOK(m) /\ m.kind = "vote"
  BY <1>1, <1>4 DEF MsgOK, VoteMsg
<1>9. \A q \in Proposal, v \in Agent : HasVoted(v, q) => HasVoted(v, q)'
  <2>1. \A q \in Proposal : call[q] \notin {"idle", "proposalSent"}
           => call'[q] \notin {"idle", "proposalSent"}
    BY <1>1, <1>2, CallStays
  <2> QED  BY <1>1, <1>6, <1>7, <2>1, VotedStays
<1>10. ~HasVoted(n, p) /\ HasVoted(n, p)'
  BY <1>1, <1>2 DEF HasVoted, Step, BooksOK, n
<1>11. NodesOK'
  BY <1>1, <1>6, <1>7, <1>8, NodesStep
<1>12. ProposerDecides'
  BY <1>1, <1>6, <1>7, <1>8, DecisionsStep
<1>13. VotesOnRecord'
  <2>1. \A q \in Proposal, v \in Agent, y \in Decision :
           Counts(d, q, v, y) => OnRecord(q, v, y) \/ (q = p /\ v = n /\ y = x)
    BY <1>1, <1>6 DEF OnRecord
  <2>2. \A m \in msgs : \A q \in Proposal, v \in Agent, y \in Decision :
           Reports(m, q, v, y) => q = p /\ v = n /\ y = x
    BY DEF Reports, VoteMsg
  <2> QED  BY <1>1, <1>4, <1>7, <1>9, <1>10, <2>1, <2>2, VoteCast
<1>14. NoEcho'
  <2>1. \A q \in Proposal : ProposalMsg(q) \notin msgs
    BY DEF ProposalMsg, VoteMsg
  <2> QED  BY <1>1, <1>7, <2>1, NoEchoStep
<1> QED  BY <1>11, <1>12, <1>13, <1>14 DEF NetInv

LEMMA FinalizeLocallyStep ==
    ASSUME IInv, NEW p \in Proposal, FinalizeLocally(p)
    PROVE  NetInv'
<1> DEFINE n == ProposerOf[p]
           d == TryFinalize(n, core[n], p)
           msgs == FinalBlock(n, core[n], p)
<1>1. /\ NodesOK /\ ProposerDecides /\ VotesOnRecord /\ NoEcho /\ BooksOK
      /\ n \in Agent /\ CoreInv(core[n])
  BY NodeAssumption DEF IInv, NetInv, NodesOK
<1>2. Step(p, "voteSent", "blockSent")
  BY DEF FinalizeLocally
<1>3. core' = [core EXCEPT ![n] = d] /\ inbox' = Publish(n, inbox, msgs)
  BY DEF FinalizeLocally
<1>4. /\ CoreInv(d) /\ Keeps(core[n], d) /\ OwnDecisions(n, core[n], d)
      /\ d.proposals = core[n].proposals /\ d.votes = core[n].votes
      /\ \A m \in msgs :
            /\ MsgOK(m) /\ m.kind = "block"
            /\ m.broadcast.block.proposal = p /\ n = ProposerOf[p]
            /\ m.broadcast.block.votes = core[n].votes[p]
            /\ d.results[p] = m.broadcast.block.status
            /\ \E i \in DOMAIN d.chain : d.chain[i] = m.broadcast.block
  BY <1>1, TryFinalizeFacts
<1> HIDE DEF d, n, msgs
<1>5. Change(n, d, msgs)
  <2>1. Inboxes(n, msgs)
    BY <1>1, <1>3, PublishFacts
  <2> QED  BY <1>3, <2>1 DEF Change
<1>6. \A q \in Proposal, v \in Agent : HasVoted(v, q) => HasVoted(v, q)'
  <2>1. \A q \in Proposal : call[q] \notin {"idle", "proposalSent"}
           => call'[q] \notin {"idle", "proposalSent"}
    BY <1>1, <1>2, CallStays
  <2> QED  BY <1>1, <1>4, <1>5, <2>1, VotedStays
<1>7. NodesOK'
  BY <1>1, <1>4, <1>5, NodesStep
<1>8. ProposerDecides'
  BY <1>1, <1>4, <1>5, DecisionsStep DEF OwnDecisions
<1>9. VotesOnRecord'
  <2>1. \A q \in Proposal, v \in Agent, x \in Decision :
           Counts(d, q, v, x) => OnRecord(q, v, x)
    BY <1>1, <1>4 DEF OnRecord, Counts
  <2>2. \A m \in msgs : \A q \in Proposal, v \in Agent, x \in Decision :
           Reports(m, q, v, x) => OnRecord(q, v, x)
    BY <1>1, <1>4 DEF Reports, VoteMsg, OnRecord, Counts
  <2> QED  BY <1>1, <1>5, <1>6, <2>1, <2>2, VotesKept
<1>10. NoEcho'
  <2>1. \A q \in Proposal : ProposalMsg(q) \notin msgs
    BY <1>4 DEF ProposalMsg
  <2> QED  BY <1>1, <1>5, <2>1, NoEchoStep
<1> QED  BY <1>7, <1>8, <1>9, <1>10 DEF NetInv

\* The steps of a call and of the environment that leave every core alone.
LEMMA QuietCallStep ==
    ASSUME IInv, NEW p \in Proposal,
           AwaitResolution(p) \/ LocalWaitExpires(p) \/ ResolveAfterPublish(p) \/ Expire(p)
    PROVE  NetInv'
<1>1. NodesOK /\ BooksOK /\ NetInv
  BY DEF IInv, NetInv
<1> DEFINE n == ProposerOf[p]
<1>2. core' = core /\ inbox' = inbox /\ n \in Agent
  BY NodeAssumption DEF AwaitResolution, LocalWaitExpires, ResolveAfterPublish, Expire
<1> HIDE DEF n
<1>3. Inboxes(n, {}) /\ Change(n, core[n], {})
  BY <1>1, <1>2 DEF Inboxes, Change, NodesOK
<1>4. \A q \in Proposal : call[q] \notin {"idle", "proposalSent"}
         => call'[q] \notin {"idle", "proposalSent"}
  <2>1. CASE AwaitResolution(p)
    <3>1. Step(p, "voteSent", "waiting") \/ Step(p, "blockSent", "waiting")
      BY <2>1 DEF AwaitResolution
    <3> QED  BY <1>1, <3>1, CallStays
  <2>2. CASE LocalWaitExpires(p)
    <3>1. Step(p, "waiting", "failed")
      BY <2>2 DEF LocalWaitExpires
    <3> QED  BY <1>1, <3>1, CallStays
  <2>3. CASE ResolveAfterPublish(p)
    <3>1. call' = Resolved(ProposerOf[p], p)
      BY <2>3 DEF ResolveAfterPublish
    <3> QED  BY <1>1, <3>1, ResolvedStays
  <2>4. CASE Expire(p)
    BY <2>4 DEF Expire
  <2> QED  BY <2>1, <2>2, <2>3, <2>4
<1>5. \A q \in Proposal, v \in Agent : HasVoted(v, q) => HasVoted(v, q)'
  BY <1>1, <1>2, <1>3, <1>4, VotedStays
<1> QED  BY <1>1, <1>2, <1>3, <1>5, QuietStep

LEMMA LoseStep ==
    ASSUME IInv, NEW n \in Agent, Lose(n)
    PROVE  NetInv'
<1>1. NodesOK /\ BooksOK /\ NetInv
  BY DEF IInv, NetInv
<1>2. core' = core /\ call' = call
  BY DEF Lose
<1>3. Inboxes(n, {}) /\ Change(n, core[n], {})
  BY <1>1, <1>2 DEF Lose, Inboxes, Change, NodesOK
<1>4. \A q \in Proposal, v \in Agent : HasVoted(v, q) => HasVoted(v, q)'
  BY <1>1, <1>2, <1>3, VotedStays
<1> QED  BY <1>1, <1>2, <1>3, <1>4, QuietStep

LEMMA IgnoreStep ==
    ASSUME IInv, NEW n \in Agent, NEW m, IgnoreProposal(n, m) \/ IgnoreVote(n, m)
    PROVE  NetInv'
<1>1. NodesOK /\ BooksOK /\ NetInv
  BY DEF IInv, NetInv
<1>2. core' = core /\ call' = call /\ Receive(n, m)
  BY DEF IgnoreProposal, IgnoreVote
<1>3. Inboxes(n, {}) /\ Change(n, core[n], {})
  <2>1. Inboxes(n, {})
    BY <1>1, <1>2, ReceiveFacts
  <2> QED  BY <1>1, <1>2, <2>1 DEF Change, NodesOK
<1>4. \A q \in Proposal, v \in Agent : HasVoted(v, q) => HasVoted(v, q)'
  BY <1>1, <1>2, <1>3, VotedStays
<1> QED  BY <1>1, <1>2, <1>3, <1>4, QuietStep

LEMMA HandleProposalStep ==
    ASSUME IInv, NEW n \in Agent, NEW m \in inbox[n], m.kind = "proposal",
           HandleProposal(n, m)
    PROVE  NetInv'
<1> DEFINE p == m.proposal
<1>1. /\ NodesOK /\ ProposerDecides /\ VotesOnRecord /\ NoEcho /\ BooksOK
      /\ n \in Agent /\ CoreInv(core[n]) /\ MsgOK(m)
  BY DEF IInv, NetInv, NodesOK
<1>2. p \in Proposal /\ n # ProposerOf[p]
  <2>1. p \in Proposal /\ m = ProposalMsg(p)
    BY <1>1 DEF MsgOK, BlockMsg, ProposalMsg
  <2> QED  BY <1>1, <2>1 DEF NoEcho
<1>3. PICK x \in Opinion[p][n] :
         /\ core' = [core EXCEPT ![n] = RecordVote(SubmitProposal(@, p), p, n, x)]
         /\ ReceiveAndPublish(n, m, {VoteMsg(p, n, x)})
  BY DEF HandleProposal
<1>4. x \in Decision
  BY <1>2, <1>3, NodeAssumption
<1> DEFINE s == SubmitProposal(core[n], p)
           d == RecordVote(s, p, n, x)
           msgs == {VoteMsg(p, n, x)}
<1>5. /\ core' = [core EXCEPT ![n] = d] /\ ReceiveAndPublish(n, m, msgs)
      /\ ~HasProposal(core[n], p) /\ call' = call
  BY <1>3 DEF HandleProposal
<1> HIDE DEF p
<1>6. /\ CoreInv(s) /\ Keeps(core[n], s)
      /\ s.proposals = core[n].proposals \cup {p}
      /\ s.results = core[n].results /\ s.chain = core[n].chain
      /\ \A q \in Proposal : \A v, y : Counts(s, q, v, y) => Counts(core[n], q, v, y)
  BY <1>1, <1>2, SubmitCore
<1> HIDE DEF s
<1>7. /\ CoreInv(d) /\ Keeps(s, d)
      /\ d.proposals = s.proposals
      /\ d.results = s.results /\ d.chain = s.chain
      /\ \A q \in Proposal : \A v, y :
            Counts(d, q, v, y) => Counts(s, q, v, y) \/ (q = p /\ v = n /\ y = x)
  BY <1>2, <1>4, <1>6, RecordCore
<1> HIDE DEF d
<1>8. Keeps(core[n], d)
  BY <1>6, <1>7 DEF Keeps
<1>9. Change(n, d, msgs)
  <2>1. Inboxes(n, msgs)
    BY <1>1, <1>5, ReceiveAndPublishFacts
  <2> QED  BY <1>5, <2>1 DEF Change
<1>10. \A r \in msgs : MsgOK(r) /\ r.kind = "vote"
  BY <1>2, <1>4 DEF MsgOK, VoteMsg
<1>11. \A q \in Proposal, v \in Agent : HasVoted(v, q) => HasVoted(v, q)'
  BY <1>1, <1>5, <1>6, <1>7, <1>9, VotedStays
<1>12. ~HasVoted(n, p) /\ HasVoted(n, p)'
  <2>1. core'[n] = d
    BY <1>1, <1>5 DEF NodesOK
  <2> QED  BY <1>2, <1>5, <1>6, <1>7, <2>1 DEF HasVoted, HasProposal
<1>13. NodesOK'
  BY <1>1, <1>7, <1>9, <1>10, NodesStep
<1>14. ProposerDecides'
  BY <1>1, <1>6, <1>7, <1>8, <1>9, <1>10, DecisionsStep
<1>15. VotesOnRecord'
  <2>1. \A q \in Proposal, v \in Agent, y \in Decision :
           Counts(d, q, v, y) => OnRecord(q, v, y) \/ (q = p /\ v = n /\ y = x)
    BY <1>6, <1>7 DEF OnRecord
  <2>2. \A r \in msgs : \A q \in Proposal, v \in Agent, y \in Decision :
           Reports(r, q, v, y) => q = p /\ v = n /\ y = x
    BY DEF Reports, VoteMsg
  <2> QED  BY <1>1, <1>2, <1>4, <1>9, <1>11, <1>12, <2>1, <2>2, VoteCast
<1>16. NoEcho'
  <2>1. \A q \in Proposal : ProposalMsg(q) \notin msgs
    BY DEF ProposalMsg, VoteMsg
  <2> QED  BY <1>1, <1>9, <2>1, NoEchoStep
<1> QED  BY <1>13, <1>14, <1>15, <1>16 DEF NetInv

LEMMA HandleVoteStep ==
    ASSUME IInv, NEW n \in Agent, NEW m \in inbox[n], m.kind = "vote", HandleVote(n, m)
    PROVE  NetInv'
<1> DEFINE p == m.proposal
           a == m.voter
           x == m.decision
           r == RecordVote(core[n], p, a, x)
           d == TryFinalize(n, r, p)
           msgs == FinalBlock(n, r, p)
<1>1. /\ NodesOK /\ ProposerDecides /\ VotesOnRecord /\ NoEcho /\ BooksOK
      /\ CoreInv(core[n]) /\ MsgOK(m)
  BY DEF IInv, NetInv, NodesOK
<1>2. p \in Proposal /\ a \in Agent /\ x \in Decision /\ m = VoteMsg(p, a, x)
  BY <1>1 DEF MsgOK, BlockMsg, VoteMsg
<1>3. /\ core' = [core EXCEPT ![n] = d] /\ ReceiveAndPublish(n, m, msgs)
      /\ call' = call
  BY DEF HandleVote
<1>4. OnRecord(p, a, x)
  BY <1>2 DEF OnRecord, Reports
<1> HIDE DEF p, a, x
<1>5. /\ CoreInv(r) /\ Keeps(core[n], r)
      /\ r.proposals = core[n].proposals
      /\ r.results = core[n].results /\ r.chain = core[n].chain
      /\ \A q \in Proposal : \A v, y :
            Counts(r, q, v, y) => Counts(core[n], q, v, y) \/ (q = p /\ v = a /\ y = x)
  BY <1>1, <1>2, RecordCore
<1> HIDE DEF r
<1>6. /\ CoreInv(d) /\ Keeps(r, d) /\ OwnDecisions(n, r, d)
      /\ d.proposals = r.proposals /\ d.votes = r.votes
      /\ \A b \in msgs :
            /\ MsgOK(b) /\ b.kind = "block"
            /\ b.broadcast.block.proposal = p /\ n = ProposerOf[p]
            /\ b.broadcast.block.votes = r.votes[p]
            /\ d.results[p] = b.broadcast.block.status
            /\ \E i \in DOMAIN d.chain : d.chain[i] = b.broadcast.block
  BY <1>2, <1>5, TryFinalizeFacts
<1> HIDE DEF d, msgs
<1>7. Keeps(core[n], d) /\ OwnDecisions(n, core[n], d)
  BY <1>5, <1>6 DEF Keeps, OwnDecisions, IsFinalized
<1>8. Change(n, d, msgs)
  <2>1. Inboxes(n, msgs)
    BY <1>1, <1>3, ReceiveAndPublishFacts
  <2> QED  BY <1>3, <2>1 DEF Change
<1>9. \A q \in Proposal, v \in Agent : HasVoted(v, q) => HasVoted(v, q)'
  BY <1>1, <1>3, <1>5, <1>6, <1>8, VotedStays
<1>10. \A q \in Proposal, v \in Agent, y \in Decision :
          Counts(r, q, v, y) => OnRecord(q, v, y)
  BY <1>4, <1>5 DEF OnRecord
<1>11. NodesOK'
  BY <1>1, <1>6, <1>8, NodesStep
<1>12. ProposerDecides'
  BY <1>1, <1>6, <1>7, <1>8, DecisionsStep DEF OwnDecisions
<1>13. VotesOnRecord'
  <2>1. \A q \in Proposal, v \in Agent, y \in Decision :
           Counts(d, q, v, y) => OnRecord(q, v, y)
    BY <1>6, <1>10 DEF Counts
  <2>2. \A b \in msgs : \A q \in Proposal, v \in Agent, y \in Decision :
           Reports(b, q, v, y) => OnRecord(q, v, y)
    BY <1>6, <1>10 DEF Reports, VoteMsg, Counts
  <2> QED  BY <1>1, <1>8, <1>9, <2>1, <2>2, VotesKept
<1>14. NoEcho'
  <2>1. \A q \in Proposal : ProposalMsg(q) \notin msgs
    BY <1>6 DEF ProposalMsg
  <2> QED  BY <1>1, <1>8, <2>1, NoEchoStep
<1> QED  BY <1>11, <1>12, <1>13, <1>14 DEF NetInv

\* A block is applied, whether or not the handler raises afterwards.
LEMMA ApplyStep ==
    ASSUME IInv, NEW n \in Agent, NEW m \in inbox[n], m.kind = "block",
           HandleBlock(n, m) \/ RaiseInHandleBlock(n, m)
    PROVE  NetInv'
<1> DEFINE b == m.broadcast
           p == b.block.proposal
           d == ApplyFinalizationBroadcast(core[n], b)
<1>1. /\ NodesOK /\ ProposerDecides /\ VotesOnRecord /\ NoEcho /\ BooksOK
      /\ CoreInv(core[n]) /\ MsgOK(m)
  BY DEF IInv, NetInv, NodesOK
<1>2. BroadcastOK(b)
  BY <1>1 DEF MsgOK, BlockMsg
<1>3. Decided(core, b.block)
  BY <1>1 DEF ProposerDecides
<1>4. \A q \in Proposal, v \in Agent, x \in Decision :
         Reports(m, q, v, x) => OnRecord(q, v, x)
  BY DEF OnRecord
<1>5. core' = [core EXCEPT ![n] = d] /\ Inboxes(n, {})
  <2>1. core' = [core EXCEPT ![n] = d]
    BY DEF HandleBlock, RaiseInHandleBlock
  <2>2. Receive(n, m) \/ inbox' = [inbox EXCEPT ![n] = {}]
    BY DEF HandleBlock, RaiseInHandleBlock
  <2>3. inbox' = [inbox EXCEPT ![n] = {}] => Inboxes(n, {})
    BY <1>1 DEF NodesOK, Inboxes
  <2> QED  BY <1>1, <2>1, <2>2, <2>3, ReceiveFacts
<1>6. call' = call \/ call' = Resolved(n, p)
  BY DEF HandleBlock, RaiseInHandleBlock
<1>7. /\ p \in Proposal
      /\ CoreInv(d) /\ Keeps(core[n], d)
      /\ IsFinalized(core[n], p) => d = core[n]
      /\ ~IsFinalized(core[n], p) =>
            /\ d.proposals = core[n].proposals \cup {p}
            /\ d.votes[p] = b.block.votes /\ d.results[p] = b.block.status
            /\ \A q \in Proposal : q # p =>
                  d.votes[q] = core[n].votes[q] /\ d.results[q] = core[n].results[q]
            /\ d.chain = IF Links(core[n].chain, b.block)
                         THEN Longer(core[n].chain, b.block) ELSE core[n].chain
  BY <1>1, <1>2, ApplyCore
<1> HIDE DEF b, p, d
<1>8. Change(n, d, {})
  BY <1>5 DEF Change
<1>9. core[n].proposals \subseteq d.proposals
  BY <1>7
<1>10. \A q \in Proposal, v \in Agent : HasVoted(v, q) => HasVoted(v, q)'
  <2>1. \A q \in Proposal : call[q] \notin {"idle", "proposalSent"}
           => call'[q] \notin {"idle", "proposalSent"}
    BY <1>1, <1>6, <1>7, ResolvedStays
  <2> QED  BY <1>1, <1>8, <1>9, <2>1, VotedStays
<1>11. NodesOK'
  BY <1>1, <1>7, <1>8, NodesStep
<1>12. ProposerDecides'
  <2>1. \A q \in Proposal :
           \/ d.results[q] = core[n].results[q]
           \/ d.results[q] = core[ProposerOf[q]].results[q]
    BY <1>3, <1>7 DEF Decided, p
  <2>2. \A i \in DOMAIN d.chain :
           \/ i \in DOMAIN core[n].chain /\ d.chain[i] = core[n].chain[i]
           \/ Decided(core, d.chain[i])
    <3>1. CASE d.chain = core[n].chain
      BY <3>1
    <3>2. CASE d.chain = Longer(core[n].chain, b.block)
      <4>1. \A i \in DOMAIN d.chain : 
               \/ i \in DOMAIN core[n].chain /\ d.chain[i] = core[n].chain[i]
               \/ d.chain[i] = b.block
        BY <1>1, <3>2, ChainAppend DEF CoreInv, CoreShape, Longer
      <4> QED  BY <1>3, <4>1
    <3> QED  BY <1>7, <3>1, <3>2
  <2> QED  BY <1>1, <1>7, <1>8, <2>1, <2>2, DecisionsStep
<1>13. VotesOnRecord'
  <2>1. ASSUME NEW q \in Proposal, NEW v \in Agent, NEW x \in Decision, Counts(d, q, v, x)
        PROVE  OnRecord(q, v, x)
    <3>1. CASE d.votes[q] = core[n].votes[q]
      BY <2>1, <3>1 DEF Counts, OnRecord
    <3>2. CASE d.votes[q] # core[n].votes[q]
      <4>1. q = p /\ d.votes[q] = b.block.votes
        BY <1>7, <3>2
      <4>2. Reports(m, q, v, x)
        BY <2>1, <4>1 DEF Counts, Reports, b, p
      <4> QED  BY <1>4, <4>2
    <3> QED  BY <3>1, <3>2
  <2> QED  BY <1>1, <1>8, <1>10, <2>1, VotesKept
<1>14. NoEcho'
  BY <1>1, <1>8, NoEchoStep
<1> QED  BY <1>11, <1>12, <1>13, <1>14 DEF NetInv

LEMMA NetStep ==
    ASSUME IInv, Next
    PROVE  NetInv'
<1>1. ASSUME NEW p \in Proposal, Submit(p) \/ CallStep(p) \/ Expire(p)
      PROVE  NetInv'
  BY <1>1, SubmitStep, VoteLocallyStep, FinalizeLocallyStep, QuietCallStep DEF CallStep
<1>2. ASSUME NEW n \in Agent, Deliver(n)
      PROVE  NetInv'
  <2>1. PICK m \in inbox[n] : Handle(n, m)
    BY <1>2 DEF Deliver
  <2>2. CASE m.kind = "proposal" /\ (HandleProposal(n, m) \/ IgnoreProposal(n, m))
    BY <2>2, HandleProposalStep, IgnoreStep
  <2>3. CASE m.kind = "vote" /\ (HandleVote(n, m) \/ IgnoreVote(n, m))
    BY <2>3, HandleVoteStep, IgnoreStep
  <2>4. CASE m.kind = "block" /\ (HandleBlock(n, m) \/ RaiseInHandleBlock(n, m))
    BY <2>4, ApplyStep
  <2> QED  BY <2>1, <2>2, <2>3, <2>4 DEF Handle
<1> QED  BY <1>1, <1>2, LoseStep DEF Next

\* The variables beside the cores and inboxes, in one go.
LEMMA BooksStep ==
    ASSUME IInv, Next
    PROVE  BooksOK'
<1>1. BooksOK /\ NodesOK
  BY DEF IInv, NetInv
<1>2. ASSUME NEW p \in Proposal, NEW from, NEW to, Step(p, from, to),
             to \in {"proposalSent", "voteSent", "blockSent", "waiting", "failed"}
      PROVE  call' \in [Proposal -> {"idle", "proposalSent", "voteSent", "blockSent",
                                     "waiting", "resolved", "failed"}]
  BY <1>1, <1>2 DEF BooksOK, Step
<1>3. ASSUME NEW n, NEW p \in Proposal, call' = Resolved(n, p)
      PROVE  call' \in [Proposal -> {"idle", "proposalSent", "voteSent", "blockSent",
                                     "waiting", "resolved", "failed"}]
  BY <1>1, <1>3 DEF BooksOK, Resolved
<1>4. MaxLoss \in Nat /\ MaxDuplicate \in Nat /\ MaxExpired \in Nat
  BY NodeAssumption
<1>5. ASSUME NEW p \in Proposal, Submit(p) \/ CallStep(p) \/ Expire(p)
      PROVE  BooksOK'
  <2>1. CASE Submit(p)
    <3>1. Step(p, "idle", "proposalSent")
      BY <2>1 DEF Submit
    <3> QED  BY <1>1, <1>2, <2>1, <3>1 DEF Submit, BooksOK
  <2>2. CASE VoteLocally(p)
    <3>1. Step(p, "proposalSent", "voteSent")
      BY <2>2 DEF VoteLocally
    <3> QED  BY <1>1, <1>2, <2>2, <3>1 DEF VoteLocally, BooksOK
  <2>3. CASE FinalizeLocally(p)
    <3>1. Step(p, "voteSent", "blockSent")
      BY <2>3 DEF FinalizeLocally
    <3> QED  BY <1>1, <1>2, <2>3, <3>1 DEF FinalizeLocally, BooksOK
  <2>4. CASE AwaitResolution(p)
    <3>1. Step(p, "voteSent", "waiting") \/ Step(p, "blockSent", "waiting")
      BY <2>4 DEF AwaitResolution
    <3>2. call' \in [Proposal -> {"idle", "proposalSent", "voteSent", "blockSent",
                                  "waiting", "resolved", "failed"}]
      BY <1>2, <3>1
    <3> QED  BY <1>1, <2>4, <3>2 DEF AwaitResolution, BooksOK
  <2>5. CASE ResolveAfterPublish(p)
    <3>1. call' = Resolved(ProposerOf[p], p)
      BY <2>5 DEF ResolveAfterPublish
    <3> QED  BY <1>1, <1>3, <2>5, <3>1 DEF ResolveAfterPublish, BooksOK
  <2>6. CASE LocalWaitExpires(p)
    <3>1. Step(p, "waiting", "failed")
      BY <2>6 DEF LocalWaitExpires
    <3> QED  BY <1>1, <1>2, <2>6, <3>1 DEF LocalWaitExpires, BooksOK
  <2>7. CASE Expire(p)
    BY <1>1, <2>7 DEF Expire, BooksOK
  <2> QED  BY <1>5, <2>1, <2>2, <2>3, <2>4, <2>5, <2>6, <2>7 DEF CallStep
<1>6. ASSUME NEW n \in Agent, NEW m, Receive(n, m) \/ \E msgs : ReceiveAndPublish(n, m, msgs)
      PROVE  duplicated' \in 0 .. MaxDuplicate
  BY <1>1, <1>4, <1>6 DEF Receive, ReceiveAndPublish, BooksOK
<1>7. ASSUME NEW n \in Agent, NEW m \in inbox[n], Handle(n, m)
      PROVE  BooksOK'
  <2>1. CASE m.kind = "proposal" /\ HandleProposal(n, m)
    <3>1. duplicated' \in 0 .. MaxDuplicate
      BY <1>6, <2>1 DEF HandleProposal
    <3> QED  BY <1>1, <2>1, <3>1 DEF HandleProposal, BooksOK
  <2>2. CASE m.kind = "proposal" /\ IgnoreProposal(n, m)
    BY <1>1, <1>6, <2>2 DEF IgnoreProposal, BooksOK
  <2>3. CASE m.kind = "vote" /\ HandleVote(n, m)
    <3>1. duplicated' \in 0 .. MaxDuplicate
      BY <1>6, <2>3 DEF HandleVote
    <3>2. m.proposal \in Proposal
      BY <1>1, <2>3 DEF NodesOK, MsgOK, BlockMsg
    <3> QED  BY <1>1, <2>3, <3>1, <3>2 DEF HandleVote, BooksOK
  <2>4. CASE m.kind = "vote" /\ IgnoreVote(n, m)
    BY <1>1, <1>6, <2>4 DEF IgnoreVote, BooksOK
  <2>5. CASE m.kind = "block" /\ HandleBlock(n, m)
    <3>1. duplicated' \in 0 .. MaxDuplicate
      BY <1>6, <2>5 DEF HandleBlock
    <3>2. m.broadcast.block.proposal \in Proposal
      BY <1>1, <2>5 DEF NodesOK, MsgOK, BlockMsg, BroadcastOK, BlockOK
    <3>3. call' \in [Proposal -> {"idle", "proposalSent", "voteSent", "blockSent",
                                  "waiting", "resolved", "failed"}]
      BY <1>3, <2>5, <3>2 DEF HandleBlock
    <3> QED  BY <1>1, <2>5, <3>1, <3>3 DEF HandleBlock, BooksOK
  <2>6. CASE m.kind = "block" /\ RaiseInHandleBlock(n, m)
    <3>1. duplicated' \in 0 .. MaxDuplicate
      BY <1>1, <1>6, <2>6 DEF RaiseInHandleBlock, BooksOK
    <3>2. running' \in [Agent -> BOOLEAN]
      BY <1>1, <2>6 DEF RaiseInHandleBlock, BooksOK, Receive
    <3> QED  BY <1>1, <2>6, <3>1, <3>2 DEF RaiseInHandleBlock, BooksOK
  <2> QED  BY <1>7, <2>1, <2>2, <2>3, <2>4, <2>5, <2>6 DEF Handle
<1>8. ASSUME NEW n \in Agent, Lose(n)
      PROVE  BooksOK'
  BY <1>1, <1>4, <1>8 DEF Lose, BooksOK
<1> QED  BY <1>5, <1>7, <1>8 DEF Next, Deliver

-----------------------------------------------------------------------------
(* The theorems *)

LEMMA InitCoreInv == CoreInv(InitCore)
<1> DEFINE c == InitCore
<1>1. /\ c.proposals = {} /\ c.votes = [p \in Proposal |-> NoVotes]
      /\ c.results = [p \in Proposal |-> "none"]
      /\ c.score = [a \in Agent |-> InitialReputation]
      /\ c.history = <<>> /\ c.chain = <<>>
  BY DEF InitCore
<1>2. NoVotes \in Votes
  BY DEF NoVotes, Votes
<1>3. InitialReputation \in Score
  BY CoreAssumption DEF Score
<1>4. IsRecord(c)
  BY <1>2, <1>3 DEF IsRecord, InitCore, Status
<1>5. IsSequence(<<>>) /\ DOMAIN <<>> = {}
  BY DEF IsSequence
<1> HIDE DEF c
<1>6. CoreShape(c)
  BY <1>1, <1>4, <1>5 DEF CoreShape
<1> QED  BY <1>1, <1>5, <1>6
         DEF CoreInv, OnlyFinal, OneBlockEach, OneSettlementEach, VerifyChain, c

LEMMA IInvInit == Init => IInv
<1> SUFFICES ASSUME Init PROVE IInv
  OBVIOUS
<1>1. \A n \in Agent : core[n] = InitCore /\ inbox[n] = {}
  BY DEF Init
<1>2. NodesOK
  BY <1>1, InitCoreInv DEF Init, NodesOK
<1>3. /\ \A p \in Proposal : ~IsFinalized(InitCore, p) /\ InitCore.votes[p] = NoVotes
      /\ InitCore.chain = <<>> /\ DOMAIN <<>> = {}
  BY DEF InitCore, IsFinalized
<1>4. ProposerDecides
  BY <1>1, <1>3 DEF ProposerDecides
<1>5. VotesOnRecord
  BY <1>1, <1>3 DEF VotesOnRecord, OnRecord, Counts, NoVotes
<1>6. NoEcho
  BY <1>1, NodeAssumption DEF NoEcho
<1>7. BooksOK
  BY NodeAssumption DEF Init, BooksOK
<1> QED  BY <1>2, <1>4, <1>5, <1>6, <1>7 DEF IInv, NetInv

LEMMA IInvStep == IInv /\ [Next]_vars => IInv'
<1>1. ASSUME IInv, UNCHANGED vars
      PROVE  IInv'
  <2>1. core' = core /\ inbox' = inbox /\ call' = call
    BY <1>1 DEF vars
  <2>2. NodesOK' /\ ProposerDecides' /\ NoEcho'
    BY <1>1, <2>1 DEF IInv, NetInv, NodesOK, ProposerDecides, NoEcho
  <2>3. VotesOnRecord'
    BY <1>1, <2>1 DEF IInv, NetInv, VotesOnRecord, OnRecord, HasVoted
  <2>4. BooksOK'
    BY <1>1 DEF vars, IInv, BooksOK
  <2> QED  BY <2>2, <2>3, <2>4 DEF IInv, NetInv
<1> QED  BY <1>1, NetStep, BooksStep DEF IInv

LEMMA IInvAlways == Spec => []IInv
BY IInvInit, IInvStep, PTL DEF Spec

\* No sequence of submissions, votes, blocks, losses and failures brings a
\* core, a message or a call out of its type: no reputation leaves its range,
\* no call goes back, and a block holds the votes of agents only.
THEOREM TypeCorrect == Spec => []TypeOK
<1>1. IInv => TypeOK
  <2> SUFFICES ASSUME IInv PROVE TypeOK
    OBVIOUS
  <2>1. ASSUME NEW n \in Agent
        PROVE  CoreOK(core[n])
    <3>1. CoreShape(core[n])
      BY DEF IInv, NetInv, NodesOK, CoreInv
    <3> QED  BY <3>1 DEF CoreShape, IsRecord, CoreOK, Score
  <2>2. ASSUME NEW n \in Agent, NEW m \in inbox[n]
        PROVE  MessageOK(m)
    <3>1. MsgOK(m)
      BY DEF IInv, NetInv, NodesOK
    <3> QED  BY <3>1 DEF MsgOK, MessageOK, BlockMsg, BroadcastOK
  <2> QED  BY <2>1, <2>2 DEF IInv, BooksOK, TypeOK
<1> QED  BY <1>1, IInvAlways, PTL

\* Whatever is lost, repeated or overtakes, two nodes never hold different
\* outcomes of a proposal, nor different blocks of it (tryFinalize).
THEOREM NodesAgree == Spec => []Agreement
<1>1. IInv => Agreement
  <2> SUFFICES ASSUME IInv, NEW m \in Agent, NEW n \in Agent
               PROVE  /\ \A p \in Proposal :
                            IsFinalized(core[m], p) /\ IsFinalized(core[n], p)
                                => core[m].results[p] = core[n].results[p]
                      /\ \A i \in DOMAIN core[m].chain, j \in DOMAIN core[n].chain :
                            core[m].chain[i].proposal = core[n].chain[j].proposal
                                => core[m].chain[i] = core[n].chain[j]
    BY DEF Agreement
  <2>1. NodesOK /\ ProposerDecides
    BY DEF IInv, NetInv
  <2>2. \A p \in Proposal : IsFinalized(core[m], p) /\ IsFinalized(core[n], p)
           => core[m].results[p] = core[n].results[p]
    BY <2>1 DEF ProposerDecides
  <2>3. ASSUME NEW i \in DOMAIN core[m].chain, NEW j \in DOMAIN core[n].chain,
               core[m].chain[i].proposal = core[n].chain[j].proposal
        PROVE  core[m].chain[i] = core[n].chain[j]
    <3> DEFINE p == core[m].chain[i].proposal
               a == ProposerOf[p]
    <3>1. p \in Proposal /\ a \in Agent
      BY <2>1, NodeAssumption DEF NodesOK, CoreInv, CoreShape, BlockOK
    <3>2. Decided(core, core[m].chain[i]) /\ Decided(core, core[n].chain[j])
      BY <2>1 DEF ProposerDecides
    <3>3. PICK k \in DOMAIN core[a].chain : core[a].chain[k] = core[m].chain[i]
      BY <3>2 DEF Decided
    <3>4. PICK l \in DOMAIN core[a].chain : core[a].chain[l] = core[n].chain[j]
      BY <2>3, <3>2 DEF Decided
    <3>5. OneBlockEach(core[a])
      BY <2>1, <3>1 DEF NodesOK, CoreInv
    <3>6. core[a].chain[k].proposal = core[a].chain[l].proposal
      BY <2>3, <3>3, <3>4
    <3> HIDE DEF a
    <3>7. k = l
      BY <3>5, <3>6 DEF OneBlockEach
    <3> QED  BY <3>3, <3>4, <3>7
  <2> QED  BY <2>2, <2>3
<1> QED  BY <1>1, IInvAlways, PTL

\* Every chain passes verify(), although blocks of several proposers race and
\* a handler may raise half way (importBlock).
THEOREM ChainsAreLinked == Spec => []ChainsVerify
<1>1. IInv => ChainsVerify
  BY DEF IInv, NetInv, NodesOK, CoreInv, ChainsVerify
<1> QED  BY <1>1, IInvAlways, PTL

\* No chain holds two blocks of one proposal, however many votes arrive after
\* the decision and however often a block is delivered.
THEOREM OneBlockInAChain == Spec => []OneBlockPerProposal
<1>1. IInv => OneBlockPerProposal
  BY DEF IInv, NetInv, NodesOK, CoreInv, OneBlockEach, OneBlockPerProposal
<1> QED  BY <1>1, IInvAlways, PTL

\* The outcome of a proposal moves the reputations of a node at most once.
THEOREM ReputationMovesOnce == Spec => []SettledOnce
<1>1. IInv => SettledOnce
  BY DEF IInv, NetInv, NodesOK, CoreInv, OneSettlementEach, SettledOnce
<1> QED  BY <1>1, IInvAlways, PTL

\* No two nodes count different decisions of one voter, although a node that
\* applies a block may forget that it has voted itself.
THEOREM OneVotePerVoter == Spec => []VotesAgree
<1>1. IInv => VotesAgree
  <2> SUFFICES ASSUME IInv, NEW m \in Agent, NEW n \in Agent, NEW p \in Proposal,
                      NEW v \in DOMAIN core[m].votes[p] \cap DOMAIN core[n].votes[p]
               PROVE  core[m].votes[p][v] = core[n].votes[p][v]
    BY DEF VotesAgree
  <2>1. NodesOK /\ VotesOnRecord
    BY DEF IInv, NetInv
  <2>2. ASSUME NEW k \in Agent, v \in DOMAIN core[k].votes[p]
        PROVE  v \in Agent /\ core[k].votes[p][v] \in Decision
    <3>1. core[k].votes[p] \in Votes
      BY <2>1 DEF NodesOK, CoreInv, CoreShape, IsRecord
    <3> QED  BY <2>2, <3>1 DEF Votes
  <2>3. OnRecord(p, v, core[m].votes[p][v]) /\ OnRecord(p, v, core[n].votes[p][v])
    BY DEF OnRecord, Counts
  <2> QED  BY <2>1, <2>2, <2>3 DEF VotesOnRecord
<1> QED  BY <1>1, IInvAlways, PTL
==============================================================================
