--------------------------- MODULE AgentLogProofs ---------------------------
(***************************************************************************)
(* Proofs about a network in which one agent proposes: the chains of its   *)
(* nodes implement the abstract ReplicatedLog, and a node that has the     *)
(* whole chain has the proposer's reputations too.  Everything rests on    *)
(* the inductive invariant of AgentNodeProofs.                             *)
(***************************************************************************)
EXTENDS AgentLog, AgentNodeProofs

-----------------------------------------------------------------------------
(* What a step does to the ledgers, that is to chains, histories, scores    *)
(* and results; proposals and votes do not matter here.                     *)

SameLedger(c, d) ==
    /\ d.chain = c.chain /\ d.history = c.history
    /\ d.score = c.score /\ d.results = c.results

\* d is c after the outcome b was settled and its block appended.
SettledInto(c, d, b) ==
    /\ ~IsFinalized(c, b.block.proposal)
    /\ d.history = Longer(c.history, Settled(b.block.proposal, b.events))
    /\ d.score = ImportEvents(c.score, b.events)
    /\ d.results[b.block.proposal] = b.block.status
    /\ \A q \in Proposal : q # b.block.proposal => d.results[q] = c.results[q]

\* No block gets on its way but those in extra.
BlocksSent(extra) ==
    \A k \in Agent : \A m \in inbox'[k] :
        m.kind = "block" => m \in inbox[k] \/ m \in extra

QuietLedgers ==
    /\ \A k \in Agent : SameLedger(core[k], core'[k])
    /\ BlocksSent({})

LeaderDecides(b) ==
    /\ BroadcastOK(b)
    /\ SettledInto(core[Leader], core'[Leader], b)
    /\ core'[Leader].chain = Longer(core[Leader].chain, b.block)
    /\ \A k \in Agent \ {Leader} : SameLedger(core[k], core'[k])
    /\ BlocksSent({BlockMsg(b)})

NodeApplies(n, b) ==
    /\ n # Leader
    /\ BroadcastOK(b) /\ BlockMsg(b) \in inbox[n]
    /\ SettledInto(core[n], core'[n], b)
    /\ core'[n].chain = IF Links(core[n].chain, b.block)
                        THEN Longer(core[n].chain, b.block) ELSE core[n].chain
    /\ \A k \in Agent \ {n} : SameLedger(core[k], core'[k])
    /\ BlocksSent({})

LEMMA LeaderProposes ==
    /\ Leader \in Agent
    /\ \A p \in Proposal : ProposerOf[p] = Leader
BY LeaderAssumption

LEMMA TryFinalizeLedger ==
    ASSUME NEW n \in Agent, NEW c, CoreInv(c), NEW p \in Proposal
    PROVE  LET d == TryFinalize(n, c, p)
           IN  \/ d = c /\ FinalBlock(n, c, p) = {}
               \/ \E b : /\ n = ProposerOf[p] /\ BroadcastOK(b)
                         /\ b.block.proposal = p
                         /\ SettledInto(c, d, b)
                         /\ d.chain = Longer(c.chain, b.block)
                         /\ FinalBlock(n, c, p) = {BlockMsg(b)}
<1>1. CASE ~MayFinalize(n, c, p)
  BY <1>1 DEF TryFinalize, FinalBlock
<1>2. CASE MayFinalize(n, c, p)
  <2> DEFINE status == StatusAt(c, p)
             b == Broadcast(c, p, status)
             d == FinalizeProposal(c, p, status)
  <2>1. n = ProposerOf[p] /\ ~IsFinalized(c, p) /\ status # "pending"
    BY <1>2 DEF MayFinalize
  <2>2. status \in FinalStatus
    BY <2>1 DEF StatusAt, EvaluateProposal, FinalStatus
  <2>3. TryFinalize(n, c, p) = d /\ FinalBlock(n, c, p) = {BlockMsg(b)}
    BY <1>2 DEF TryFinalize, FinalBlock
  <2> HIDE DEF status
  <2>4. /\ BroadcastOK(b)
        /\ b.block.proposal = p /\ b.block.status = status
        /\ d.results[p] = status
        /\ \A q \in Proposal : q # p => d.results[q] = c.results[q]
        /\ d.chain = Longer(c.chain, b.block)
        /\ d.history = Longer(c.history, Settled(p, b.events))
        /\ d.score = ImportEvents(c.score, b.events)
    BY <2>1, <2>2, FinalizeCore
  <2> HIDE DEF b, d
  <2>5. SettledInto(c, d, b)
    BY <2>1, <2>4 DEF SettledInto
  <2> QED  BY <2>1, <2>3, <2>4, <2>5
<1> QED  BY <1>1, <1>2

\* A change that keeps the ledger of n and sends no block.
LEMMA QuietChange ==
    ASSUME NodesOK, NEW n \in Agent, NEW d, NEW msgs, Change(n, d, msgs),
           SameLedger(core[n], d), \A m \in msgs : m.kind # "block"
    PROVE  QuietLedgers
<1>1. \A k \in Agent : core'[k] = IF k = n THEN d ELSE core[k]
  BY DEF NodesOK, Change
<1>2. \A k \in Agent : SameLedger(core[k], core'[k])
  BY <1>1 DEF SameLedger
<1>3. BlocksSent({})
  BY DEF Change, Inboxes, BlocksSent
<1> QED  BY <1>2, <1>3 DEF QuietLedgers

LEMMA DecidingChange ==
    ASSUME NodesOK, NEW n \in Agent, NEW c, CoreInv(c), SameLedger(core[n], c),
           NEW p \in Proposal,
           Change(n, TryFinalize(n, c, p), FinalBlock(n, c, p))
    PROVE  QuietLedgers \/ \E b : LeaderDecides(b)
<1> DEFINE d == TryFinalize(n, c, p)
           msgs == FinalBlock(n, c, p)
<1>1. \/ d = c /\ msgs = {}
      \/ \E b : /\ n = ProposerOf[p] /\ BroadcastOK(b)
                /\ b.block.proposal = p
                /\ SettledInto(c, d, b)
                /\ d.chain = Longer(c.chain, b.block)
                /\ msgs = {BlockMsg(b)}
  BY TryFinalizeLedger
<1>2. Change(n, d, msgs)
  OBVIOUS
<1> HIDE DEF d, msgs
<1>3. CASE d = c /\ msgs = {}
  BY <1>2, <1>3, QuietChange
<1>4. ASSUME NEW b, n = ProposerOf[p], BroadcastOK(b), b.block.proposal = p,
             SettledInto(c, d, b), d.chain = Longer(c.chain, b.block),
             msgs = {BlockMsg(b)}
      PROVE  LeaderDecides(b)
  <2>1. n = Leader
    BY <1>4, LeaderProposes
  <2>2. \A k \in Agent : core'[k] = IF k = n THEN d ELSE core[k]
    BY <1>2 DEF NodesOK, Change
  <2>3. SettledInto(core[n], d, b) /\ d.chain = Longer(core[n].chain, b.block)
    BY <1>4 DEF SettledInto, SameLedger, IsFinalized
  <2>4. BlocksSent({BlockMsg(b)})
    BY <1>2, <1>4 DEF Change, Inboxes, BlocksSent
  <2>5. \A k \in Agent \ {Leader} : SameLedger(core[k], core'[k])
    BY <2>1, <2>2 DEF SameLedger
  <2> QED  BY <1>4, <2>1, <2>2, <2>3, <2>4, <2>5 DEF LeaderDecides
<1> QED  BY <1>1, <1>3, <1>4

LEMMA QuietCores ==
    ASSUME NodesOK, core' = core, NEW n \in Agent, Inboxes(n, {})
    PROVE  QuietLedgers
BY DEF QuietLedgers, SameLedger, Inboxes, BlocksSent

\* Every step is one of the three.
LEMMA StepKinds ==
    ASSUME IInv, Next
    PROVE  \/ QuietLedgers
           \/ \E b : LeaderDecides(b)
           \/ \E n \in Agent : \E b : NodeApplies(n, b)
<1>1. NodesOK /\ ProposerDecides
  BY DEF IInv, NetInv
<1>2. ASSUME NEW p \in Proposal, Submit(p)
      PROVE  QuietLedgers
  <2> DEFINE n == ProposerOf[p]
             d == SubmitProposal(core[n], p)
             msgs == {ProposalMsg(p)}
  <2>1. n \in Agent /\ CoreInv(core[n])
    BY <1>1, NodeAssumption DEF NodesOK
  <2>2. core' = [core EXCEPT ![n] = d] /\ inbox' = Publish(n, inbox, msgs)
    BY <1>2 DEF Submit
  <2>3. SameLedger(core[n], d)
    BY <2>1, SubmitCore DEF SameLedger
  <2> HIDE DEF n, d
  <2>4. Change(n, d, msgs)
    <3>1. Inboxes(n, msgs)
      BY <1>1, <2>1, <2>2, PublishFacts
    <3> QED  BY <2>2, <3>1 DEF Change
  <2>5. \A m \in msgs : m.kind # "block"
    BY DEF ProposalMsg
  <2> QED  BY <1>1, <2>1, <2>3, <2>4, <2>5, QuietChange
<1>3. ASSUME NEW p \in Proposal, VoteLocally(p)
      PROVE  QuietLedgers
  <2> DEFINE n == ProposerOf[p]
  <2>1. n \in Agent /\ CoreInv(core[n])
    BY <1>1, NodeAssumption DEF NodesOK
  <2>2. PICK x \in Opinion[p][n] :
           /\ core' = [core EXCEPT ![n] = RecordVote(@, p, n, x)]
           /\ inbox' = Publish(n, inbox, {VoteMsg(p, n, x)})
    BY <1>3 DEF VoteLocally
  <2> DEFINE d == RecordVote(core[n], p, n, x)
             msgs == {VoteMsg(p, n, x)}
  <2>3. x \in Decision
    BY <2>1, <2>2, NodeAssumption
  <2>4. SameLedger(core[n], d)
    BY <2>1, <2>3, RecordCore DEF SameLedger
  <2>5. core' = [core EXCEPT ![n] = d] /\ inbox' = Publish(n, inbox, msgs)
    BY <2>2
  <2> HIDE DEF n, d
  <2>6. Change(n, d, msgs)
    <3>1. Inboxes(n, msgs)
      BY <1>1, <2>1, <2>5, PublishFacts
    <3> QED  BY <2>5, <3>1 DEF Change
  <2>7. \A m \in msgs : m.kind # "block"
    BY DEF VoteMsg
  <2> QED  BY <1>1, <2>1, <2>4, <2>6, <2>7, QuietChange
<1>4. ASSUME NEW p \in Proposal, FinalizeLocally(p)
      PROVE  QuietLedgers \/ \E b : LeaderDecides(b)
  <2> DEFINE n == ProposerOf[p]
             d == TryFinalize(n, core[n], p)
             msgs == FinalBlock(n, core[n], p)
  <2>1. n \in Agent /\ CoreInv(core[n])
    BY <1>1, NodeAssumption DEF NodesOK
  <2>2. core' = [core EXCEPT ![n] = d] /\ inbox' = Publish(n, inbox, msgs)
    BY <1>4 DEF FinalizeLocally
  <2> HIDE DEF n, d, msgs
  <2>3. Change(n, d, msgs)
    <3>1. Inboxes(n, msgs)
      BY <1>1, <2>1, <2>2, PublishFacts
    <3> QED  BY <2>2, <3>1 DEF Change
  <2>4. SameLedger(core[n], core[n])
    BY DEF SameLedger
  <2> QED  BY <1>1, <2>1, <2>3, <2>4, DecidingChange DEF d, msgs
<1>5. ASSUME NEW p \in Proposal,
             AwaitResolution(p) \/ LocalWaitExpires(p) \/ ResolveAfterPublish(p) \/ Expire(p)
      PROVE  QuietLedgers
  <2>1. core' = core /\ inbox' = inbox
    BY <1>5 DEF AwaitResolution, LocalWaitExpires, ResolveAfterPublish, Expire
  <2> QED  BY <2>1 DEF QuietLedgers, SameLedger, BlocksSent
<1>6. ASSUME NEW n \in Agent, NEW m \in inbox[n], HandleProposal(n, m), m.kind = "proposal"
      PROVE  QuietLedgers
  <2> DEFINE p == m.proposal
  <2>1. p \in Proposal /\ CoreInv(core[n])
    BY <1>1, <1>6 DEF NodesOK, MsgOK, BlockMsg
  <2>2. PICK x \in Opinion[p][n] :
           /\ core' = [core EXCEPT ![n] = RecordVote(SubmitProposal(@, p), p, n, x)]
           /\ ReceiveAndPublish(n, m, {VoteMsg(p, n, x)})
    BY <1>6 DEF HandleProposal
  <2> DEFINE s == SubmitProposal(core[n], p)
             d == RecordVote(s, p, n, x)
             msgs == {VoteMsg(p, n, x)}
  <2>3. x \in Decision
    BY <2>1, <2>2, NodeAssumption
  <2>4. core' = [core EXCEPT ![n] = d] /\ ReceiveAndPublish(n, m, msgs)
    BY <2>2
  <2> HIDE DEF p
  <2>5. CoreInv(s) /\ SameLedger(core[n], s)
    BY <2>1, SubmitCore DEF SameLedger
  <2> HIDE DEF s
  <2>6. SameLedger(s, d)
    BY <2>1, <2>3, <2>5, RecordCore DEF SameLedger
  <2> HIDE DEF d
  <2>7. Change(n, d, msgs)
    <3>1. Inboxes(n, msgs)
      BY <1>1, <2>4, ReceiveAndPublishFacts
    <3> QED  BY <2>4, <3>1 DEF Change
  <2>8. SameLedger(core[n], d)
    BY <2>5, <2>6 DEF SameLedger
  <2>9. \A r \in msgs : r.kind # "block"
    BY DEF VoteMsg
  <2> QED  BY <1>1, <2>7, <2>8, <2>9, QuietChange
<1>7. ASSUME NEW n \in Agent, NEW m, IgnoreProposal(n, m) \/ IgnoreVote(n, m)
      PROVE  QuietLedgers
  <2>1. core' = core /\ Receive(n, m)
    BY <1>7 DEF IgnoreProposal, IgnoreVote
  <2>2. Inboxes(n, {})
    BY <1>1, <2>1, ReceiveFacts
  <2> QED  BY <1>1, <2>1, <2>2, QuietCores
<1>8. ASSUME NEW n \in Agent, Lose(n)
      PROVE  QuietLedgers
  <2>1. core' = core /\ Inboxes(n, {})
    BY <1>1, <1>8 DEF Lose, Inboxes, NodesOK
  <2> QED  BY <1>1, <2>1, QuietCores
<1>9. ASSUME NEW n \in Agent, NEW m \in inbox[n], HandleVote(n, m), m.kind = "vote"
      PROVE  QuietLedgers \/ \E b : LeaderDecides(b)
  <2> DEFINE p == m.proposal
             r == RecordVote(core[n], p, m.voter, m.decision)
             d == TryFinalize(n, r, p)
             msgs == FinalBlock(n, r, p)
  <2>1. /\ p \in Proposal /\ m.voter \in Agent /\ m.decision \in Decision
        /\ CoreInv(core[n])
    BY <1>1, <1>9 DEF NodesOK, MsgOK, BlockMsg
  <2>2. core' = [core EXCEPT ![n] = d] /\ ReceiveAndPublish(n, m, msgs)
    BY <1>9 DEF HandleVote
  <2> HIDE DEF p
  <2>3. CoreInv(r) /\ SameLedger(core[n], r)
    BY <2>1, RecordCore DEF SameLedger
  <2> HIDE DEF r, d, msgs
  <2>4. Change(n, d, msgs)
    <3>1. Inboxes(n, msgs)
      BY <1>1, <2>2, ReceiveAndPublishFacts
    <3> QED  BY <2>2, <3>1 DEF Change
  <2> QED  BY <1>1, <2>1, <2>3, <2>4, DecidingChange DEF d, msgs
<1>10. ASSUME NEW n \in Agent, NEW m \in inbox[n], m.kind = "block",
              HandleBlock(n, m) \/ RaiseInHandleBlock(n, m)
       PROVE  QuietLedgers \/ \E b : NodeApplies(n, b)
  <2> DEFINE b == m.broadcast
             p == b.block.proposal
             d == ApplyFinalizationBroadcast(core[n], b)
  <2>1. CoreInv(core[n]) /\ BroadcastOK(b) /\ m = BlockMsg(b) /\ Decided(core, b.block)
    BY <1>1, <1>10 DEF NodesOK, MsgOK, ProposerDecides
  <2>2. core' = [core EXCEPT ![n] = d]
    BY <1>10 DEF HandleBlock, RaiseInHandleBlock
  <2>3. Inboxes(n, {})
    <3>1. Receive(n, m) \/ inbox' = [inbox EXCEPT ![n] = {}]
      BY <1>10 DEF HandleBlock, RaiseInHandleBlock
    <3>2. inbox' = [inbox EXCEPT ![n] = {}] => Inboxes(n, {})
      BY <1>1 DEF NodesOK, Inboxes
    <3> QED  BY <1>1, <3>1, <3>2, ReceiveFacts
  <2>4. /\ p \in Proposal
        /\ IsFinalized(core[n], p) => d = core[n]
        /\ ~IsFinalized(core[n], p) =>
              /\ d.results[p] = b.block.status
              /\ \A q \in Proposal : q # p => d.results[q] = core[n].results[q]
              /\ d.history = Longer(core[n].history, Settled(p, b.events))
              /\ d.score = ImportEvents(core[n].score, b.events)
              /\ d.chain = IF Links(core[n].chain, b.block)
                           THEN Longer(core[n].chain, b.block) ELSE core[n].chain
    BY <2>1, ApplyCore
  <2>5. n = Leader => IsFinalized(core[n], p)
    <3>1. b.block.status # "none"
      BY <2>1 DEF BroadcastOK, BlockOK, FinalStatus
    <3> QED  BY <2>1, <2>4, <3>1, LeaderProposes DEF Decided, IsFinalized
  <2>6. b.block.proposal = p
    OBVIOUS
  <2> HIDE DEF b, p, d
  <2>7. Change(n, d, {})
    BY <2>2, <2>3 DEF Change
  <2>8. \A k \in Agent : core'[k] = IF k = n THEN d ELSE core[k]
    BY <1>1, <2>2 DEF NodesOK
  <2>9. CASE IsFinalized(core[n], p)
    <3>1. SameLedger(core[n], d)
      BY <2>4, <2>9 DEF SameLedger
    <3> QED  BY <1>1, <2>7, <3>1, QuietChange
  <2>10. CASE ~IsFinalized(core[n], p)
    <3>1. SettledInto(core[n], d, b)
      BY <2>4, <2>6, <2>10 DEF SettledInto
    <3>2. BlocksSent({})
      BY <2>3 DEF Inboxes, BlocksSent
    <3>3. \A k \in Agent \ {n} : SameLedger(core[k], core'[k])
      BY <2>8 DEF SameLedger
    <3> QED  BY <2>1, <2>4, <2>5, <2>8, <2>10, <3>1, <3>2, <3>3 DEF NodeApplies
  <2> QED  BY <2>9, <2>10
<1>11. ASSUME NEW p \in Proposal, Submit(p) \/ CallStep(p) \/ Expire(p)
       PROVE  QuietLedgers \/ \E b : LeaderDecides(b)
  BY <1>2, <1>3, <1>4, <1>5, <1>11 DEF CallStep
<1>12. ASSUME NEW n \in Agent, Deliver(n) \/ Lose(n)
       PROVE  \/ QuietLedgers
              \/ \E b : LeaderDecides(b)
              \/ \E k \in Agent : \E b : NodeApplies(k, b)
  BY <1>6, <1>7, <1>8, <1>9, <1>10, <1>12 DEF Deliver, Handle
<1> QED  BY <1>11, <1>12 DEF Next

-----------------------------------------------------------------------------
(* The invariant of the log *)

\* b is a block of the leader's chain c.chain, with the events it settled.
Published(c, b) ==
    \E i \in DOMAIN c.chain :
        c.chain[i] = b.block /\ c.history[i].events = b.events

\* After the first k settlements of history the scores are these: an agent has
\* what the last settlement that mentions it gave it.
Matches(score, history, k) ==
    \A a \in Agent :
        \/ /\ \A i \in 1 .. k : a \notin DOMAIN history[i].events
           /\ score[a] = InitialReputation
        \/ \E j \in 1 .. k :
              /\ a \in DOMAIN history[j].events
              /\ \A i \in j + 1 .. k : a \notin DOMAIN history[i].events
              /\ score[a] = ClampReputation(history[j].events[a].after)

\* Everything this node settled is in its chain: no block came too early.
InOrder(c) == \A i \in DOMAIN c.history : HasBlock(c, c.history[i].proposal)

\* s is an initial part of t.
StartOf(s, t) ==
    /\ DOMAIN s \subseteq DOMAIN t
    /\ \A i \in DOMAIN s : s[i] = t[i]

\* The leader settles exactly what it appends.
LeaderInOrder(c) ==
    /\ DOMAIN c.history = DOMAIN c.chain
    /\ \A i \in DOMAIN c.chain : c.history[i].proposal = c.chain[i].proposal
    /\ \A p \in Proposal : IsFinalized(c, p) => HasBlock(c, p)

FollowsLeader(c, leader) ==
    /\ StartOf(c.chain, leader.chain)
    /\ InOrder(c) => Matches(c.score, leader.history, Len(c.chain))

\* The inductive invariant.  A node settles a block before it knows whether the
\* block links, so its scores are those of its chain only while it settled
\* nothing out of order; FollowsLeader says so.
LogInv ==
    /\ LeaderInOrder(core[Leader])
    /\ \A n \in Agent : FollowsLeader(core[n], core[Leader])
    /\ \A n \in Agent : \A m \in inbox[n] :
          m.kind = "block" => Published(core[Leader], m.broadcast)

LEMMA MatchesNext ==
    ASSUME NEW k \in Nat, NEW score, NEW history, Matches(score, history, k),
           NEW events, history[k + 1].events = events
    PROVE  Matches(ImportEvents(score, events), history, k + 1)
<1> DEFINE after == ImportEvents(score, events)
<1> SUFFICES ASSUME NEW a \in Agent
             PROVE  \/ /\ \A i \in 1 .. k + 1 : a \notin DOMAIN history[i].events
                       /\ after[a] = InitialReputation
                    \/ \E j \in 1 .. k + 1 :
                          /\ a \in DOMAIN history[j].events
                          /\ \A i \in j + 1 .. k + 1 : a \notin DOMAIN history[i].events
                          /\ after[a] = ClampReputation(history[j].events[a].after)
  BY DEF Matches
<1>1. after[a] = IF a \in DOMAIN events
                 THEN ClampReputation(events[a].after) ELSE score[a]
  BY DEF ImportEvents
<1> HIDE DEF after
<1>2. CASE a \in DOMAIN events
  <2>1. k + 1 \in 1 .. k + 1 /\ k + 1 + 1 .. k + 1 = {}
    OBVIOUS
  <2> QED  BY <1>1, <1>2, <2>1
<1>3. CASE a \notin DOMAIN events
  <2>1. \A j \in Int : \A i \in j .. k + 1 : i \in j .. k \/ i = k + 1
    OBVIOUS
  <2>2. 1 .. k \subseteq 1 .. k + 1
    OBVIOUS
  <2>3. CASE /\ \A i \in 1 .. k : a \notin DOMAIN history[i].events
             /\ score[a] = InitialReputation
    BY <1>1, <1>3, <2>1, <2>3
  <2>4. CASE \E j \in 1 .. k :
                /\ a \in DOMAIN history[j].events
                /\ \A i \in j + 1 .. k : a \notin DOMAIN history[i].events
                /\ score[a] = ClampReputation(history[j].events[a].after)
    <3>1. PICK j \in 1 .. k :
                /\ a \in DOMAIN history[j].events
                /\ \A i \in j + 1 .. k : a \notin DOMAIN history[i].events
                /\ score[a] = ClampReputation(history[j].events[a].after)
      BY <2>4
    <3>2. \A i \in j + 1 .. k + 1 : a \notin DOMAIN history[i].events
      BY <1>3, <2>1, <3>1
    <3> QED  BY <1>1, <1>3, <2>2, <3>1, <3>2
  <2> QED  BY <2>3, <2>4 DEF Matches
<1> QED  BY <1>2, <1>3

LEMMA MatchesSame ==
    ASSUME NEW k, NEW score, NEW history, NEW other, Matches(score, history, k),
           \A i \in 1 .. k : other[i] = history[i], k \in Nat
    PROVE  Matches(score, other, k)
<1> SUFFICES ASSUME NEW a \in Agent
             PROVE  \/ /\ \A i \in 1 .. k : a \notin DOMAIN other[i].events
                       /\ score[a] = InitialReputation
                    \/ \E j \in 1 .. k :
                          /\ a \in DOMAIN other[j].events
                          /\ \A i \in j + 1 .. k : a \notin DOMAIN other[i].events
                          /\ score[a] = ClampReputation(other[j].events[a].after)
  BY DEF Matches
<1>1. \A j \in 1 .. k : j + 1 .. k \subseteq 1 .. k
  OBVIOUS
<1> QED  BY <1>1 DEF Matches

LEMMA MatchesOnce ==
    ASSUME NEW k \in Nat, NEW history, NEW score \in [Agent -> Score],
           NEW other \in [Agent -> Score],
           Matches(score, history, k), Matches(other, history, k)
    PROVE  score = other
<1>1. ASSUME NEW a \in Agent
      PROVE  score[a] = other[a]
  <2> DEFINE Never == \A i \in 1 .. k : a \notin DOMAIN history[i].events
             Last(j) == /\ a \in DOMAIN history[j].events
                        /\ \A i \in j + 1 .. k : a \notin DOMAIN history[i].events
  <2>1. \/ Never /\ score[a] = InitialReputation
        \/ \E j \in 1 .. k : Last(j) /\ score[a] = ClampReputation(history[j].events[a].after)
    BY DEF Matches
  <2>2. \/ Never /\ other[a] = InitialReputation
        \/ \E j \in 1 .. k : Last(j) /\ other[a] = ClampReputation(history[j].events[a].after)
    BY DEF Matches
  <2>3. \A i, j \in 1 .. k : Last(i) /\ Last(j) => i = j
    <3> TAKE i, j \in 1 .. k
    <3>1. i < j => j \in i + 1 .. k
      OBVIOUS
    <3>2. j < i => i \in j + 1 .. k
      OBVIOUS
    <3> QED  BY <3>1, <3>2
  <2>4. \A j \in 1 .. k : Last(j) => ~Never
    OBVIOUS
  <2> HIDE DEF Never, Last
  <2> QED  BY <2>1, <2>2, <2>3, <2>4
<1> QED  BY <1>1

-----------------------------------------------------------------------------
(* How the logs change *)

\* Growing a chain by a block, in terms of its elements.
LEMMA LongerFacts ==
    ASSUME NEW s, IsSequence(s), NEW e
    PROVE  LET t == Longer(s, e)
           IN  /\ Len(s) \in Nat /\ DOMAIN s = 1 .. Len(s)
               /\ IsSequence(t) /\ Len(t) = Len(s) + 1
               /\ DOMAIN t = 1 .. Len(s) + 1
               /\ \A i \in DOMAIN s : t[i] = s[i]
               /\ t[Len(s) + 1] = e
<1> DEFINE t == Append(s, e)
<1>1. /\ IsSequence(t) /\ Len(s) \in Nat /\ DOMAIN s = 1 .. Len(s)
      /\ DOMAIN t = 1 .. Len(s) + 1
      /\ \A i \in DOMAIN s : t[i] = s[i]
      /\ t[Len(s) + 1] = e
  BY ChainAppend
<1> HIDE DEF t
<1>2. Len(t) \in Nat /\ DOMAIN t = 1 .. Len(t)
  BY <1>1 DEF IsSequence
<1>3. Len(t) = Len(s) + 1
  BY <1>1, <1>2
<1> QED  BY <1>1, <1>3 DEF Longer, t

LEMMA HistoryIsSequence ==
    ASSUME NEW c, CoreInv(c)
    PROVE  /\ IsSequence(c.history) /\ IsSequence(c.chain)
           /\ \A i \in DOMAIN c.history : c.history[i] \in Settlement
           /\ \A i \in DOMAIN c.chain : BlockOK(c.chain[i])
           /\ c.score \in [Agent -> Score]
<1>1. c.history \in Seq(Settlement)
  BY DEF CoreInv, CoreShape, IsRecord
<1>2. c.history \in Seq({c.history[i] : i \in DOMAIN c.history})
  BY <1>1
<1>3. \A i \in DOMAIN c.history : c.history[i] \in Settlement
  BY <1>1
<1> QED  BY <1>2, <1>3 DEF CoreInv, CoreShape, IsRecord, IsSequence

\* A log with one more block.
LEMMA LogOfLonger ==
    ASSUME NEW s, IsSequence(s), \A i \in DOMAIN s : BlockOK(s[i]), NEW b, BlockOK(b)
    PROVE  /\ LogOf(s) \in Seq(Log!Entry) /\ Len(LogOf(s)) = Len(s)
           /\ DecisionOf(b) \in Log!Entry
           /\ LogOf(Longer(s, b)) = Append(LogOf(s), DecisionOf(b))
<1> DEFINE t == Longer(s, b)
           e == DecisionOf(b)
<1>1. /\ Len(s) \in Nat /\ DOMAIN s = 1 .. Len(s)
      /\ DOMAIN t = 1 .. Len(s) + 1
      /\ \A i \in DOMAIN s : t[i] = s[i]
      /\ t[Len(s) + 1] = b
  BY LongerFacts
<1> HIDE DEF t
<1>2. \A x : BlockOK(x) => DecisionOf(x) \in Log!Entry
  BY DEF BlockOK, DecisionOf, Log!Entry
<1>3. e \in Log!Entry /\ \A i \in DOMAIN s : DecisionOf(s[i]) \in Log!Entry
  BY <1>2
<1> HIDE DEF e
<1>4. LogOf(s) = [i \in 1 .. Len(s) |-> DecisionOf(s[i])]
  BY <1>1 DEF LogOf
<1>5. LogOf(s) \in Seq(Log!Entry) /\ Len(LogOf(s)) = Len(s)
  BY <1>1, <1>3, <1>4
<1>6. LogOf(t) = [i \in 1 .. Len(s) + 1 |-> DecisionOf(t[i])]
  BY <1>1 DEF LogOf
<1>7. \A i \in 1 .. Len(s) + 1 :
         DecisionOf(t[i]) = IF i = Len(s) + 1 THEN e ELSE LogOf(s)[i]
  <2> TAKE i \in 1 .. Len(s) + 1
  <2>1. CASE i = Len(s) + 1
    BY <1>1, <2>1 DEF e
  <2>2. CASE i # Len(s) + 1
    <3>1. i \in 1 .. Len(s)
      BY <1>1, <2>2
    <3> QED  BY <1>1, <1>4, <2>2, <3>1
  <2> QED  BY <2>1, <2>2
<1> DEFINE u == Append(LogOf(s), e)
<1>8. /\ u \in Seq(Log!Entry) /\ Len(u) = Len(s) + 1
      /\ \A i \in 1 .. Len(s) + 1 : u[i] = IF i = Len(s) + 1 THEN e ELSE LogOf(s)[i]
  BY <1>1, <1>3, <1>5
<1> HIDE DEF u
<1>9. u = [i \in 1 .. Len(s) + 1 |-> u[i]]
  BY <1>8
<1>10. LogOf(t) = u
  BY <1>6, <1>7, <1>8, <1>9
<1> QED  BY <1>3, <1>5, <1>10 DEF t, e, u

LEMMA HashOfOneBlock ==
    ASSUME NEW a, NEW b, BlockHash(a) = BlockHash(b)
    PROVE  a.proposal = b.proposal
<1> DEFINE s == BlockHash(a)
           t == BlockHash(b)
<1>1. s[3] = a.proposal /\ t[3] = b.proposal
  BY DEF BlockHash
<1> QED  BY <1>1

LEMMA HashIsNotGenesis ==
    ASSUME NEW b
    PROVE  BlockHash(b) # Genesis
BY DEF BlockHash, Genesis

\* A block of the leader's chain links to an initial part of that chain in one
\* place only: right behind it.
LEMMA LinksInOnePlace ==
    ASSUME NEW leader, CoreInv(leader), NEW s, IsSequence(s), StartOf(s, leader.chain),
           NEW i \in DOMAIN leader.chain, Links(s, leader.chain[i])
    PROVE  i = Len(s) + 1
<1> DEFINE t == leader.chain
<1>1. /\ IsSequence(t) /\ VerifyChain(t) /\ OneBlockEach(leader)
  BY DEF CoreInv, CoreShape
<1>2. /\ Len(s) \in Nat /\ DOMAIN s = 1 .. Len(s)
      /\ Len(t) \in Nat /\ DOMAIN t = 1 .. Len(t)
      /\ \A k \in DOMAIN s : k \in DOMAIN t /\ s[k] = t[k]
  BY <1>1, LongerFacts DEF StartOf
<1>3. t[i].previousHash = IF i - 1 = 0 THEN Genesis ELSE BlockHash(t[i - 1])
  <2>1. i - 1 \in 0 .. Len(t)
    BY <1>2
  <2> QED  BY <1>1, <2>1, HeadOfPrefix DEF VerifyChain
<1>4. t[i].previousHash = IF Len(s) = 0 THEN Genesis ELSE BlockHash(s[Len(s)])
  BY HeadOfChain DEF Links
<1>5. i - 1 # 0 => i - 1 \in DOMAIN t
  BY <1>2
<1>6. Len(s) # 0 => Len(s) \in DOMAIN t /\ s[Len(s)] = t[Len(s)]
  BY <1>2
<1>7. CASE i - 1 = 0 \/ Len(s) = 0
  BY <1>2, <1>3, <1>4, <1>7, HashIsNotGenesis
<1>8. CASE i - 1 # 0 /\ Len(s) # 0
  <2>1. BlockHash(t[i - 1]) = BlockHash(t[Len(s)])
    BY <1>3, <1>4, <1>6, <1>8
  <2>2. t[i - 1].proposal = t[Len(s)].proposal
    BY <2>1, HashOfOneBlock
  <2>3. i - 1 = Len(s)
    BY <1>1, <1>5, <1>6, <1>8, <2>2 DEF OneBlockEach
  <2> QED  BY <1>2, <2>3
<1> QED  BY <1>7, <1>8

-----------------------------------------------------------------------------
(* The invariant is kept, and each step is one of the log *)

\* The logs of the nodes, as the refinement mapping gives them.
Logs == [n \in Agent |-> LogOf(core[n].chain)]

LEMMA SameFollows ==
    ASSUME NEW c, NEW d, NEW leader, NEW other, SameLedger(c, d), SameLedger(leader, other)
    PROVE  /\ FollowsLeader(c, leader) => FollowsLeader(d, other)
           /\ \A b : Published(leader, b) => Published(other, b)
           /\ LeaderInOrder(leader) => LeaderInOrder(other)
BY DEF SameLedger, FollowsLeader, InOrder, HasBlock, Published, LeaderInOrder, IsFinalized

LEMMA QuietLog ==
    ASSUME IInv, LogInv, QuietLedgers
    PROVE  LogInv' /\ Logs' = Logs
<1>1. \A k \in Agent : SameLedger(core[k], core'[k]) /\ core'[k].chain = core[k].chain
  BY DEF QuietLedgers, SameLedger
<1>2. \A k \in Agent : FollowsLeader(core'[k], core'[Leader])
  BY <1>1, LeaderProposes, SameFollows DEF LogInv
<1>3. LeaderInOrder(core'[Leader])
  BY <1>1, LeaderProposes, SameFollows DEF LogInv
<1>4. \A k \in Agent : \A m \in inbox'[k] :
         m.kind = "block" => Published(core'[Leader], m.broadcast)
  BY <1>1, LeaderProposes, SameFollows DEF LogInv, QuietLedgers, BlocksSent
<1> QED  BY <1>1, <1>2, <1>3, <1>4 DEF LogInv, Logs

\* The ledger of a node after it settled an outcome that was new to it.
LEMMA SettledFacts ==
    ASSUME NEW c, CoreInv(c), NEW d, NEW b, BroadcastOK(b), SettledInto(c, d, b)
    PROVE  LET p == b.block.proposal
               k == Len(c.history)
           IN  /\ p \in Proposal /\ b.block.status # "none"
               /\ k \in Nat /\ DOMAIN c.history = 1 .. k
               /\ DOMAIN d.history = 1 .. k + 1
               /\ \A i \in 1 .. k : d.history[i] = c.history[i]
               /\ d.history[k + 1].proposal = p
               /\ d.history[k + 1].events = b.events
               /\ \A i \in DOMAIN c.chain : c.chain[i].proposal # p
               /\ \A i \in DOMAIN c.history : c.history[i].proposal # p
               /\ \A q \in Proposal : IsFinalized(d, q) <=> q = p \/ IsFinalized(c, q)
               /\ d.score = ImportEvents(c.score, b.events)
<1> DEFINE p == b.block.proposal
           e == Settled(p, b.events)
<1>1. /\ p \in Proposal /\ b.block.status # "none" /\ ~IsFinalized(c, p)
      /\ d.history = Longer(c.history, e)
      /\ d.results[p] = b.block.status
      /\ \A q \in Proposal : q # p => d.results[q] = c.results[q]
      /\ d.score = ImportEvents(c.score, b.events)
  BY DEF BroadcastOK, BlockOK, FinalStatus, SettledInto
<1>2. e.proposal = p /\ e.events = b.events
  BY DEF Settled
<1> HIDE DEF e, p
<1>3. IsSequence(c.history) /\ OnlyFinal(c)
  BY HistoryIsSequence DEF CoreInv
<1>4. /\ Len(c.history) \in Nat /\ DOMAIN c.history = 1 .. Len(c.history)
      /\ DOMAIN d.history = 1 .. Len(c.history) + 1
      /\ \A i \in DOMAIN c.history : d.history[i] = c.history[i]
      /\ d.history[Len(c.history) + 1] = e
  BY <1>1, <1>3, LongerFacts
<1>5. /\ \A i \in DOMAIN c.chain : c.chain[i].proposal # p
      /\ \A i \in DOMAIN c.history : c.history[i].proposal # p
  BY <1>1, <1>3 DEF OnlyFinal
<1>6. \A q \in Proposal : IsFinalized(d, q) <=> q = p \/ IsFinalized(c, q)
  BY <1>1 DEF IsFinalized
<1> QED  BY <1>1, <1>2, <1>4, <1>5, <1>6 DEF p

\* A chain that took one more block has the blocks it had, and that one.
LEMMA BlocksHeld ==
    ASSUME NEW c, NEW d, NEW k \in Nat, DOMAIN c.chain = 1 .. k,
           DOMAIN d.chain = 1 .. k + 1, \A i \in 1 .. k : d.chain[i] = c.chain[i],
           NEW q
    PROVE  HasBlock(d, q) <=> HasBlock(c, q) \/ d.chain[k + 1].proposal = q
<1>1. \A i \in 1 .. k + 1 : i \in 1 .. k \/ i = k + 1
  OBVIOUS
<1>2. 1 .. k \subseteq 1 .. k + 1 /\ k + 1 \in 1 .. k + 1
  OBVIOUS
<1> QED  BY <1>1, <1>2 DEF HasBlock

LEMMA DecideLedger ==
    ASSUME NEW c, CoreInv(c), NEW d, CoreInv(d), NEW b, BroadcastOK(b),
           SettledInto(c, d, b), d.chain = Longer(c.chain, b.block),
           LeaderInOrder(c), FollowsLeader(c, c)
    PROVE  /\ LeaderInOrder(d) /\ FollowsLeader(d, d)
           /\ Published(d, b) /\ \A x : Published(c, x) => Published(d, x)
           /\ \A k \in 1 .. Len(c.chain) : d.history[k] = c.history[k]
           /\ StartOf(c.chain, d.chain)
<1> DEFINE p == b.block.proposal
           k == Len(c.chain)
<1>1. /\ p \in Proposal /\ DOMAIN c.history = 1 .. Len(c.history)
      /\ Len(c.history) \in Nat
      /\ DOMAIN d.history = 1 .. Len(c.history) + 1
      /\ \A i \in 1 .. Len(c.history) : d.history[i] = c.history[i]
      /\ d.history[Len(c.history) + 1].proposal = p
      /\ d.history[Len(c.history) + 1].events = b.events
      /\ \A q \in Proposal : IsFinalized(d, q) <=> q = p \/ IsFinalized(c, q)
      /\ d.score = ImportEvents(c.score, b.events)
  BY SettledFacts
<1>2. /\ k \in Nat /\ DOMAIN c.chain = 1 .. k
      /\ Len(d.chain) = k + 1 /\ DOMAIN d.chain = 1 .. k + 1
      /\ \A i \in 1 .. k : d.chain[i] = c.chain[i]
      /\ d.chain[k + 1] = b.block
      /\ \A q : HasBlock(d, q) <=> HasBlock(c, q) \/ q = p
  <2> DEFINE x == b.block
  <2>1. d.chain = Longer(c.chain, x)
    OBVIOUS
  <2> HIDE DEF x
  <2>2. /\ k \in Nat /\ DOMAIN c.chain = 1 .. k
        /\ Len(d.chain) = k + 1 /\ DOMAIN d.chain = 1 .. k + 1
        /\ \A i \in 1 .. k : d.chain[i] = c.chain[i]
        /\ d.chain[k + 1] = x
    <3>1. IsSequence(c.chain)
      BY DEF CoreInv, CoreShape
    <3> QED  BY <2>1, <3>1, LongerFacts
  <2>3. \A q : HasBlock(d, q) <=> HasBlock(c, q) \/ d.chain[k + 1].proposal = q
    <3> HIDE DEF k
    <3> QED  BY <2>2, BlocksHeld
  <2> QED  BY <2>2, <2>3 DEF x
<1> HIDE DEF p, k
<1>3. Len(c.history) = k
  <2> DEFINE m == Len(c.history)
  <2>1. m \in Nat /\ k \in Nat /\ 1 .. m = 1 .. k
    BY <1>1, <1>2 DEF LeaderInOrder
  <2> HIDE DEF m
  <2>2. (m \in 1 .. m <=> m >= 1) /\ (k \in 1 .. k <=> k >= 1)
    BY <2>1
  <2>3. (m \in 1 .. k => m <= k) /\ (k \in 1 .. m => k <= m)
    BY <2>1
  <2>4. m = k
    BY <2>1, <2>2, <2>3
  <2> QED  BY <2>4 DEF m
<1>4. LeaderInOrder(d)
  <2>1. \A i \in 1 .. k + 1 : i \in 1 .. k \/ i = k + 1
    BY <1>2
  <2>2. \A i \in DOMAIN d.chain : d.history[i].proposal = d.chain[i].proposal
    BY <1>1, <1>2, <1>3, <2>1 DEF LeaderInOrder, p
  <2>3. \A q \in Proposal : IsFinalized(d, q) => HasBlock(d, q)
    BY <1>1, <1>2 DEF LeaderInOrder
  <2> QED  BY <1>1, <1>2, <1>3, <2>2, <2>3 DEF LeaderInOrder
<1>5. InOrder(c)
  BY DEF LeaderInOrder, InOrder, HasBlock
<1>6. Matches(d.score, d.history, k + 1)
  <2>1. Matches(c.score, c.history, k)
    BY <1>5 DEF FollowsLeader, k
  <2>2. Matches(c.score, d.history, k)
    BY <1>1, <1>2, <1>3, <2>1, MatchesSame
  <2> QED  BY <1>1, <1>2, <1>3, <2>2, MatchesNext
<1>7. FollowsLeader(d, d)
  BY <1>2, <1>6 DEF FollowsLeader, StartOf
<1>8. k + 1 \in DOMAIN d.chain /\ \A i \in DOMAIN c.chain : i \in DOMAIN d.chain
  BY <1>2
<1>9. Published(d, b)
  BY <1>1, <1>2, <1>3, <1>8 DEF Published
<1>10. \A x : Published(c, x) => Published(d, x)
  BY <1>1, <1>2, <1>3, <1>8 DEF Published
<1>11. StartOf(c.chain, d.chain)
  BY <1>2, <1>8 DEF StartOf
<1> QED  BY <1>1, <1>3, <1>4, <1>7, <1>9, <1>10, <1>11 DEF k

LEMMA ApplyLedger ==
    ASSUME NEW c, CoreInv(c), NEW d, CoreInv(d), NEW leader, CoreInv(leader),
           NEW b, BroadcastOK(b), SettledInto(c, d, b),
           d.chain = IF Links(c.chain, b.block) THEN Longer(c.chain, b.block) ELSE c.chain,
           FollowsLeader(c, leader), Published(leader, b)
    PROVE  /\ FollowsLeader(d, leader)
           /\ Links(c.chain, b.block) =>
                 /\ Len(c.chain) + 1 \in DOMAIN leader.chain
                 /\ leader.chain[Len(c.chain) + 1] = b.block
<1> DEFINE p == b.block.proposal
           k == Len(c.chain)
           h == Len(c.history)
           x == b.block
<1>1. /\ p \in Proposal /\ h \in Nat
      /\ DOMAIN c.history = 1 .. h /\ DOMAIN d.history = 1 .. h + 1
      /\ \A i \in 1 .. h : d.history[i] = c.history[i]
      /\ d.history[h + 1].proposal = p
      /\ \A i \in DOMAIN c.chain : c.chain[i].proposal # p
      /\ \A i \in DOMAIN c.history : c.history[i].proposal # p
      /\ d.score = ImportEvents(c.score, b.events)
  BY SettledFacts
<1>2. h + 1 \in DOMAIN d.history /\ \A i \in DOMAIN c.history : i \in DOMAIN d.history
  BY <1>1
<1>3. /\ d.chain = IF Links(c.chain, x) THEN Longer(c.chain, x) ELSE c.chain
      /\ IsSequence(c.chain) /\ x.proposal = p
  BY DEF CoreInv, CoreShape
<1>4. PICK i \in DOMAIN leader.chain :
         leader.chain[i] = x /\ leader.history[i].events = b.events
  BY DEF Published
<1> HIDE DEF p, k, h, x
<1>5. CASE ~Links(c.chain, x)
  <2>1. d.chain = c.chain
    BY <1>3, <1>5
  <2>2. ~InOrder(d)
    BY <1>1, <1>2, <2>1 DEF InOrder, HasBlock
  <2> QED  BY <1>5, <2>1, <2>2 DEF FollowsLeader, x
<1>6. CASE Links(c.chain, x)
  <2>1. d.chain = Longer(c.chain, x)
    BY <1>3, <1>6
  <2>2. /\ k \in Nat /\ DOMAIN c.chain = 1 .. k
        /\ Len(d.chain) = k + 1 /\ DOMAIN d.chain = 1 .. k + 1
        /\ \A j \in 1 .. k : d.chain[j] = c.chain[j]
        /\ d.chain[k + 1] = x
    BY <1>3, <2>1, LongerFacts DEF k
  <2>3. i = k + 1
    BY <1>3, <1>4, <1>6, LinksInOnePlace DEF FollowsLeader, k
  <2>4. StartOf(d.chain, leader.chain)
    <3>1. \A j \in 1 .. k + 1 : j \in 1 .. k \/ j = k + 1
      BY <2>2
    <3> QED  BY <1>4, <2>2, <2>3, <3>1 DEF FollowsLeader, StartOf
  <2>5. ASSUME InOrder(d)
        PROVE  Matches(d.score, leader.history, k + 1)
    <3>1. \A q : HasBlock(d, q) <=> HasBlock(c, q) \/ d.chain[k + 1].proposal = q
      <4>1. \A j \in DOMAIN d.chain : j \in DOMAIN c.chain \/ j = k + 1
        BY <2>2
      <4>2. k + 1 \in DOMAIN d.chain /\ \A j \in DOMAIN c.chain : j \in DOMAIN d.chain
        BY <2>2
      <4> QED  BY <2>2, <4>1, <4>2 DEF HasBlock
    <3>2. InOrder(c)
      BY <1>1, <1>2, <1>3, <2>2, <2>5, <3>1 DEF InOrder
    <3>3. Matches(c.score, leader.history, k)
      BY <3>2 DEF FollowsLeader, k
    <3> QED  BY <1>1, <1>4, <2>2, <2>3, <3>3, MatchesNext
  <2>6. FollowsLeader(d, leader)
    BY <2>2, <2>4, <2>5 DEF FollowsLeader
  <2> QED  BY <1>4, <2>3, <2>6 DEF x, k
<1> QED  BY <1>5, <1>6

LEMMA DecideLog ==
    ASSUME IInv, IInv', LogInv, NEW b, LeaderDecides(b)
    PROVE  LogInv' /\ Log!Decide
<1> DEFINE c == core[Leader]
           d == core'[Leader]
           x == b.block
<1>0. Leader \in Agent
  BY LeaderProposes
<1>1. \A k \in Agent : CoreInv(core[k])
  BY DEF IInv, NetInv, NodesOK
<1>2. CoreInv(c) /\ CoreInv(d)
  BY <1>0 DEF IInv, NetInv, NodesOK
<1>3. /\ BroadcastOK(b) /\ SettledInto(c, d, b)
      /\ d.chain = Longer(c.chain, x) /\ BlockOK(x)
      /\ \A k \in Agent \ {Leader} : SameLedger(core[k], core'[k])
      /\ BlocksSent({BlockMsg(b)})
  BY DEF LeaderDecides, BroadcastOK
<1>4. LeaderInOrder(c) /\ FollowsLeader(c, c)
  BY <1>0 DEF LogInv
<1>5. /\ LeaderInOrder(d) /\ FollowsLeader(d, d)
      /\ Published(d, b) /\ \A y : Published(c, y) => Published(d, y)
      /\ \A k \in 1 .. Len(c.chain) : d.history[k] = c.history[k]
      /\ StartOf(c.chain, d.chain)
  BY <1>2, <1>3, <1>4, DecideLedger
<1> HIDE DEF c, d, x
<1>6. ASSUME NEW k \in Agent
      PROVE  FollowsLeader(core'[k], d)
  <2>1. CASE k = Leader
    BY <1>5, <2>1 DEF d
  <2>2. CASE k # Leader
    <3>1. /\ core'[k].chain = core[k].chain /\ core'[k].history = core[k].history
          /\ core'[k].score = core[k].score
      BY <1>3, <2>2 DEF SameLedger
    <3>2. StartOf(core[k].chain, c.chain) /\ StartOf(core[k].chain, d.chain)
      BY <1>5 DEF LogInv, FollowsLeader, StartOf, c
    <3>3. Len(core[k].chain) \in Nat /\ 1 .. Len(core[k].chain) \subseteq 1 .. Len(c.chain)
      <4>1. /\ Len(core[k].chain) \in Nat /\ DOMAIN core[k].chain = 1 .. Len(core[k].chain)
            /\ DOMAIN c.chain = 1 .. Len(c.chain)
        BY <1>1, <1>2, HistoryIsSequence, LongerFacts
      <4> QED  BY <3>2, <4>1 DEF StartOf
    <3>4. InOrder(core[k]) => Matches(core[k].score, d.history, Len(core[k].chain))
      <4>1. SUFFICES ASSUME InOrder(core[k])
                     PROVE  Matches(core[k].score, d.history, Len(core[k].chain))
        OBVIOUS
      <4>2. Matches(core[k].score, c.history, Len(core[k].chain))
        BY <4>1 DEF LogInv, FollowsLeader, c
      <4>3. \A i \in 1 .. Len(core[k].chain) : d.history[i] = c.history[i]
        BY <1>5, <3>3
      <4> QED  BY <3>3, <4>2, <4>3, MatchesSame
    <3> QED  BY <3>1, <3>2, <3>4 DEF FollowsLeader, InOrder, HasBlock
  <2> QED  BY <2>1, <2>2
<1>7. ASSUME NEW k \in Agent, NEW m \in inbox'[k], m.kind = "block"
      PROVE  Published(d, m.broadcast)
  <2>1. m \in inbox[k] \/ m = BlockMsg(b)
    BY <1>3, <1>7 DEF BlocksSent
  <2>2. CASE m \in inbox[k]
    BY <1>5, <1>7, <2>2 DEF LogInv, c
  <2>3. CASE m = BlockMsg(b)
    BY <1>5, <2>3 DEF BlockMsg
  <2> QED  BY <2>1, <2>2, <2>3
<1>8. LogInv'
  BY <1>5, <1>6, <1>7 DEF LogInv, d
<1>9. /\ LogOf(d.chain) = Append(LogOf(c.chain), DecisionOf(x))
      /\ DecisionOf(x) \in Log!Entry
  BY <1>2, <1>3, LogOfLonger, HistoryIsSequence
<1>10. \A i \in DOMAIN LogOf(c.chain) : LogOf(c.chain)[i].proposal # DecisionOf(x).proposal
  <2>1. \A i \in DOMAIN c.chain : c.chain[i].proposal # x.proposal
    BY <1>2, <1>3, SettledFacts DEF x
  <2> QED  BY <2>1 DEF LogOf, DecisionOf
<1>11. Logs' = [Logs EXCEPT ![Leader] = Append(@, DecisionOf(x))]
  <2>1. \A k \in Agent \ {Leader} : core'[k].chain = core[k].chain
    BY <1>3 DEF SameLedger
  <2>2. Logs'[Leader] = Append(Logs[Leader], DecisionOf(x))
    BY <1>0, <1>9 DEF Logs, c, d
  <2> QED  BY <1>0, <2>1, <2>2 DEF Logs
<1>12. Logs[Leader] = LogOf(c.chain)
  BY <1>0 DEF Logs, c
<1> QED  BY <1>8, <1>9, <1>10, <1>11, <1>12 DEF Log!Decide, Log!Undecided, Logs

LEMMA LearnLog ==
    ASSUME IInv, IInv', LogInv, NEW n \in Agent, NEW b, NodeApplies(n, b)
    PROVE  /\ LogInv'
           /\ Log!Learn(n) \/ Logs' = Logs
<1> DEFINE c == core[n]
           d == core'[n]
           leader == core[Leader]
           x == b.block
<1>0. Leader \in Agent /\ n # Leader
  BY LeaderProposes DEF NodeApplies
<1>1. CoreInv(c) /\ CoreInv(d) /\ CoreInv(leader)
  BY <1>0 DEF IInv, NetInv, NodesOK
<1>2. /\ BroadcastOK(b) /\ SettledInto(c, d, b) /\ BlockOK(x)
      /\ d.chain = IF Links(c.chain, x) THEN Longer(c.chain, x) ELSE c.chain
      /\ \A k \in Agent \ {n} : SameLedger(core[k], core'[k])
      /\ BlocksSent({})
  BY DEF NodeApplies, BroadcastOK
<1>3. FollowsLeader(c, leader) /\ Published(leader, b)
  BY DEF NodeApplies, LogInv, BlockMsg
<1>4. /\ FollowsLeader(d, leader)
      /\ Links(c.chain, x) =>
            /\ Len(c.chain) + 1 \in DOMAIN leader.chain
            /\ leader.chain[Len(c.chain) + 1] = x
  BY <1>1, <1>2, <1>3, ApplyLedger
<1>5. SameLedger(leader, core'[Leader])
  BY <1>0, <1>2
<1> HIDE DEF c, d, leader, x
<1>6. \A k \in Agent : FollowsLeader(core'[k], core'[Leader])
  <2> TAKE k \in Agent
  <2>1. CASE k = n
    <3>1. SameLedger(d, d)
      BY DEF SameLedger
    <3> QED  BY <1>4, <1>5, <2>1, <3>1, SameFollows DEF d
  <2>2. CASE k # n
    BY <1>2, <1>5, <2>2, SameFollows DEF LogInv, leader
  <2> QED  BY <2>1, <2>2
<1>7. LeaderInOrder(core'[Leader])
  BY <1>5, SameFollows DEF LogInv, leader
<1>8. \A k \in Agent : \A m \in inbox'[k] :
         m.kind = "block" => Published(core'[Leader], m.broadcast)
  BY <1>2, <1>5, SameFollows DEF LogInv, BlocksSent, leader
<1>9. LogInv'
  BY <1>6, <1>7, <1>8 DEF LogInv
<1>10. \A k \in Agent \ {n} : core'[k].chain = core[k].chain
  BY <1>2 DEF SameLedger
<1>11. CASE ~Links(c.chain, x)
  <2>1. d.chain = c.chain
    BY <1>2, <1>11
  <2>2. Logs' = Logs
    BY <1>10, <2>1 DEF Logs, c, d
  <2> QED  BY <1>9, <2>2
<1>12. CASE Links(c.chain, x)
  <2> DEFINE s == c.chain
             t == leader.chain
  <2>1. /\ IsSequence(s) /\ IsSequence(t)
        /\ Len(s) + 1 \in DOMAIN t /\ t[Len(s) + 1] = x
        /\ \A i \in DOMAIN s : BlockOK(s[i])
        /\ \A i \in DOMAIN t : BlockOK(t[i])
    BY <1>1, <1>4, <1>12, HistoryIsSequence
  <2>2. d.chain = Longer(s, x)
    BY <1>2, <1>12
  <2> HIDE DEF s, t
  <2>3. /\ LogOf(Longer(s, x)) = Append(LogOf(s), DecisionOf(x))
        /\ Len(LogOf(s)) = Len(s) /\ Len(LogOf(t)) = Len(t)
    BY <1>2, <2>1, LogOfLonger
  <2>4. LogOf(t)[Len(s) + 1] = DecisionOf(x)
    BY <2>1 DEF LogOf
  <2>5. Len(s) < Len(t)
    BY <2>1, LongerFacts
  <2>6. Logs[n] = LogOf(s) /\ Logs[Leader] = LogOf(t)
    BY <1>0 DEF Logs, s, t, c, leader
  <2>7. Logs' = [Logs EXCEPT ![n] = Append(@, DecisionOf(x))]
    <3>1. Logs'[n] = Append(Logs[n], DecisionOf(x))
      BY <2>2, <2>3 DEF Logs, s, c, d
    <3> QED  BY <1>10, <3>1 DEF Logs
  <2>8. Len(Logs[n]) < Len(Logs[Leader])
    BY <2>3, <2>5, <2>6
  <2>9. Logs[Leader][Len(Logs[n]) + 1] = DecisionOf(x)
    BY <2>3, <2>4, <2>6
  <2>10. Logs' = [Logs EXCEPT ![n] = Append(@, Logs[Leader][Len(@) + 1])]
    BY <2>7, <2>9
  <2> QED  BY <1>0, <1>9, <2>8, <2>10 DEF Log!Learn, Logs
<1> QED  BY <1>11, <1>12

LEMMA LogStep ==
    IInv /\ IInv' /\ LogInv /\ [Next]_vars => LogInv' /\ [Log!Next]_Logs
<1> SUFFICES ASSUME IInv, IInv', LogInv, [Next]_vars
             PROVE  LogInv' /\ [Log!Next]_Logs
  OBVIOUS
<1>1. CASE UNCHANGED vars
  <2>1. QuietLedgers
    BY <1>1 DEF vars, QuietLedgers, SameLedger, BlocksSent
  <2> QED  BY <2>1, QuietLog
<1>2. CASE QuietLedgers
  BY <1>2, QuietLog
<1>3. CASE \E b : LeaderDecides(b)
  BY <1>3, DecideLog DEF Log!Next
<1>4. CASE \E n \in Agent : \E b : NodeApplies(n, b)
  <2>1. PICK n \in Agent : \E b : NodeApplies(n, b)
    BY <1>4
  <2>2. LogInv' /\ (Log!Learn(n) \/ Logs' = Logs)
    BY <2>1, LearnLog
  <2> QED  BY <2>2 DEF Log!Next
<1> QED  BY <1>1, <1>2, <1>3, <1>4, StepKinds

LEMMA LogInit == Init => LogInv /\ Log!Init
<1> SUFFICES ASSUME Init PROVE LogInv /\ Log!Init
  OBVIOUS
<1>1. \A n \in Agent : core[n] = InitCore /\ inbox[n] = {}
  BY DEF Init
<1>2. /\ InitCore.chain = <<>> /\ InitCore.history = <<>>
      /\ DOMAIN <<>> = {} /\ Len(<<>>) = 0
      /\ \A a \in Agent : InitCore.score[a] = InitialReputation
      /\ \A p \in Proposal : ~IsFinalized(InitCore, p)
  BY DEF InitCore, IsFinalized
<1>3. Matches(InitCore.score, InitCore.history, 0)
  BY <1>2 DEF Matches
<1>4. FollowsLeader(InitCore, InitCore) /\ LeaderInOrder(InitCore)
  BY <1>2, <1>3 DEF FollowsLeader, StartOf, LeaderInOrder
<1>5. LogInv
  BY <1>1, <1>4, LeaderProposes DEF LogInv
<1>6. LogOf(<<>>) = <<>>
  BY <1>2 DEF LogOf
<1>7. Log!Init
  BY <1>1, <1>2, <1>6 DEF Log!Init
<1> QED  BY <1>5, <1>7

LEMMA LogInvAlways == Spec => [](IInv /\ LogInv)
<1>1. Init => IInv /\ LogInv
  BY IInvInit, LogInit
<1>2. IInv /\ LogInv /\ [Next]_vars => IInv' /\ LogInv'
  BY IInvStep, LogStep
<1> QED  BY <1>1, <1>2, PTL DEF Spec

\* The chains of any number of nodes are one log that the proposer writes and
\* the others learn in its order, although blocks are lost, repeated and
\* overtake each other, and a handler may settle a block it cannot append.
THEOREM LogImplemented == Spec => ImplementsReplicatedLog
<1>1. Init => Log!Init
  BY LogInit
<1>2. IInv /\ LogInv /\ [Next]_vars => [Log!Next]_Logs
  BY IInvStep, LogStep
<1> QED  BY <1>1, <1>2, LogInvAlways, PTL
         DEF Spec, ImplementsReplicatedLog, Log!Spec, Logs

\* A node with the proposer's whole chain has the proposer's reputations.  A
\* block that comes too early moves the scores out of order, but then its
\* proposal is final and the block never accepted, so the chain stays short.
THEOREM ScoresFollowChain == Spec => []ChainTellsScores
<1>1. IInv /\ LogInv => ChainTellsScores
  <2> SUFFICES ASSUME IInv, LogInv, NEW n \in Agent,
                      core[n].chain = core[Leader].chain
               PROVE  core[n].score = core[Leader].score
    BY DEF ChainTellsScores
  <2> DEFINE c == core[n]
             leader == core[Leader]
             k == Len(c.chain)
  <2>0. Leader \in Agent
    BY LeaderProposes
  <2>1. CoreInv(c) /\ CoreInv(leader)
    BY <2>0 DEF IInv, NetInv, NodesOK
  <2>2. /\ c.score \in [Agent -> Score] /\ leader.score \in [Agent -> Score]
        /\ \A i \in DOMAIN c.history : c.history[i] \in Settlement
        /\ k \in Nat
    BY <2>1, HistoryIsSequence, LongerFacts
  <2>3. LeaderInOrder(leader) /\ FollowsLeader(c, leader) /\ FollowsLeader(leader, leader)
    BY <2>0 DEF LogInv
  <2>4. InOrder(c)
    <3> SUFFICES ASSUME NEW i \in DOMAIN c.history
                 PROVE  HasBlock(c, c.history[i].proposal)
      BY DEF InOrder
    <3> DEFINE p == c.history[i].proposal
    <3>1. p \in Proposal
      BY <2>2 DEF Settlement
    <3>2. IsFinalized(c, p)
      BY <2>1 DEF CoreInv, OnlyFinal
    <3>3. c.results[p] = leader.results[p]
      BY <3>1, <3>2, LeaderProposes DEF IInv, NetInv, ProposerDecides
    <3>4. HasBlock(leader, p)
      BY <2>3, <3>1, <3>2, <3>3 DEF LeaderInOrder, IsFinalized
    <3> QED  BY <3>4 DEF HasBlock
  <2>5. InOrder(leader)
    BY <2>3 DEF LeaderInOrder, InOrder, HasBlock
  <2>6. /\ Matches(c.score, leader.history, k)
        /\ Matches(leader.score, leader.history, k)
    BY <2>3, <2>4, <2>5 DEF FollowsLeader
  <2> HIDE DEF c, leader, k
  <2>7. c.score = leader.score
    BY <2>2, <2>6, MatchesOnce
  <2> QED  BY <2>7 DEF c, leader
<1> QED  BY <1>1, LogInvAlways, PTL
==============================================================================
