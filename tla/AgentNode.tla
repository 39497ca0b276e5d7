------------------------------ MODULE AgentNode ------------------------------
(***************************************************************************)
(* A network of AgentNodes (packages/agent-node) that run consensus over   *)
(* gossip.  Each node holds a core (ProtocolCore.tla); a message published *)
(* on the protocol topic reaches every other running node, in any order,   *)
(* perhaps twice, perhaps never.  A node handles one message at a time up  *)
(* to its next await, as the event loop does.                              *)
(*                                                                         *)
(* submitProposal is one call per proposal id.  It suspends at each        *)
(* `await publishEnvelope`, and other handlers of the node run meanwhile;  *)
(* `call` says where it is:                                                *)
(*   idle         not called yet                                           *)
(*   proposalSent awaits the publication of the proposal                   *)
(*   voteSent     awaits the publication of the proposer's own vote        *)
(*   blockSent    finalized in its own tryFinalize, awaits the block's     *)
(*   waiting      its promise is in pendingResolutions, its timer is armed *)
(*   resolved     the caller got the resolution                            *)
(*   failed       the caller got "did not finalize before local wait       *)
(*                expired"                                                 *)
(* libp2p itself (the mesh, dialing, streams) is not modelled.             *)
(***************************************************************************)
EXTENDS ProtocolCore

CONSTANTS
    ProposerOf,     \* the agent whose call creates the proposal
    Opinion,        \* the decisions an agent's evaluator may reach on it
    MaxLoss,        \* bound on the messages the network loses
    MaxDuplicate,   \* bound on the messages it delivers once more
    MaxExpired      \* bound on the proposals that outlive their expiresAt

ASSUME NodeAssumption ==
    /\ ProposerOf \in [Proposal -> Agent]
    /\ Opinion \in [Proposal -> [Agent -> (SUBSET Decision) \ {{}}]]
    /\ {MaxLoss, MaxDuplicate, MaxExpired} \subseteq Nat

VARIABLES
    core,           \* the protocol core of each node
    inbox,          \* the messages on their way to each node
    call,           \* where the submitProposal call of each proposal is
    publishing,     \* proposals a vote finalized whose block is being published
    expired,        \* proposals whose expiresAt has passed
    running,        \* FALSE once an unhandled rejection ended the process
    lost,           \* messages lost so far
    duplicated      \* messages delivered once more so far

vars == <<core, inbox, call, publishing, expired, running, lost, duplicated>>

Init ==
    /\ core = [n \in Agent |-> InitCore]
    /\ inbox = [n \in Agent |-> {}]
    /\ call = [p \in Proposal |-> "idle"]
    /\ publishing = {}
    /\ expired = {}
    /\ running = [n \in Agent |-> TRUE]
    /\ lost = 0
    /\ duplicated = 0

-----------------------------------------------------------------------------
ProposalMsg(p) == [kind |-> "proposal", proposal |-> p]
VoteMsg(p, a, d) == [kind |-> "vote", proposal |-> p, voter |-> a, decision |-> d]
BlockMsg(b) == [kind |-> "block", broadcast |-> b]

\* publishEnvelope: gossipsub hands a message to the peers, not to its sender.
Publish(from, box, msgs) ==
    [n \in Agent |-> IF n # from /\ running[n] THEN box[n] \cup msgs ELSE box[n]]

\* The node takes m out of its inbox, or the network brings it once more.
Receive(n, m) ==
    \/ /\ inbox' = [inbox EXCEPT ![n] = @ \ {m}]
       /\ UNCHANGED duplicated
    \/ /\ duplicated < MaxDuplicate
       /\ duplicated' = duplicated + 1
       /\ UNCHANGED inbox

\* The same for a handler that answers by publishing msgs.
ReceiveAndPublish(n, m, msgs) ==
    \/ /\ inbox' = Publish(n, [inbox EXCEPT ![n] = @ \ {m}], msgs)
       /\ UNCHANGED duplicated
    \/ /\ duplicated < MaxDuplicate
       /\ duplicated' = duplicated + 1
       /\ inbox' = Publish(n, inbox, msgs)

-----------------------------------------------------------------------------
(* tryFinalize *)

StatusAt(c, p) == EvaluateProposal(c.votes[p], Agent, c.score, p \in expired)

\* Fault: a proposal is settled before it is decided.
MayFinalizeUndecided(n, c, p) == n = ProposerOf[p] /\ ~IsFinalized(c, p)

\* Fault: every node that sees the decision settles it.
AnyoneMayFinalize(n, c, p) == ~IsFinalized(c, p) /\ StatusAt(c, p) # "pending"

\* Fault: each further vote settles the proposal again.
MayFinalizeAgain(n, c, p) == n = ProposerOf[p] /\ StatusAt(c, p) # "pending"

\* Only the proposer finalizes, once, and only a decided proposal.
MayFinalize(n, c, p) ==
    /\ n = ProposerOf[p]
    /\ ~IsFinalized(c, p)
    /\ StatusAt(c, p) # "pending"

\* The core after tryFinalize, and the block it publishes.
TryFinalize(n, c, p) ==
    IF MayFinalize(n, c, p) THEN FinalizeProposal(c, p, StatusAt(c, p)) ELSE c

FinalBlock(n, c, p) ==
    IF MayFinalize(n, c, p) THEN {BlockMsg(Broadcast(c, p, StatusAt(c, p)))} ELSE {}

-----------------------------------------------------------------------------
(* submitProposal, from one await to the next *)

Step(p, from, to) ==
    /\ call[p] = from
    /\ running[ProposerOf[p]]
    /\ call' = [call EXCEPT ![p] = to]

Submit(p) ==
    LET n == ProposerOf[p]
    IN  /\ Step(p, "idle", "proposalSent")
        /\ core' = [core EXCEPT ![n] = SubmitProposal(@, p)]
        /\ inbox' = Publish(n, inbox, {ProposalMsg(p)})
        /\ UNCHANGED <<publishing, expired, running, lost, duplicated>>

\* The evaluator is a hash of the proposal and the agent: any of its opinions.
VoteLocally(p) ==
    LET n == ProposerOf[p]
    IN  /\ Step(p, "proposalSent", "voteSent")
        /\ \E d \in Opinion[p][n] :
              /\ core' = [core EXCEPT ![n] = RecordVote(@, p, n, d)]
              /\ inbox' = Publish(n, inbox, {VoteMsg(p, n, d)})
        /\ UNCHANGED <<publishing, expired, running, lost, duplicated>>

\* The call's own tryFinalize decides the proposal and publishes the block.
FinalizeLocally(p) ==
    LET n == ProposerOf[p]
    IN  /\ MayFinalize(n, core[n], p)
        /\ Step(p, "voteSent", "blockSent")
        /\ core' = [core EXCEPT ![n] = TryFinalize(n, @, p)]
        /\ inbox' = Publish(n, inbox, FinalBlock(n, core[n], p))
        /\ UNCHANGED <<publishing, expired, running, lost, duplicated>>

\* tryFinalize had nothing to do, or its block is out: the promise is put in
\* pendingResolutions and its timer is armed, whether or not the proposal is
\* finalized by now.
AwaitResolution(p) ==
    LET n == ProposerOf[p]
    IN  /\ \/ ~MayFinalize(n, core[n], p) /\ Step(p, "voteSent", "waiting")
           \/ Step(p, "blockSent", "waiting")
        /\ UNCHANGED <<core, inbox, publishing, expired, running, lost, duplicated>>

\* Fault: the timer gives up on a proposal that is final by now.
LocalWaitExpiresIfPending(p) ==
    /\ p \in expired
    /\ ~IsFinalized(core[ProposerOf[p]], p)
    /\ Step(p, "waiting", "failed")
    /\ UNCHANGED <<core, inbox, publishing, expired, running, lost, duplicated>>

\* The timer of submitProposal.  It was armed after expiresAt was computed and
\* for at least as long, so it never fires before the proposal expires.
LocalWaitExpires(p) ==
    /\ p \in expired
    /\ Step(p, "waiting", "failed")
    /\ UNCHANGED <<core, inbox, publishing, expired, running, lost, duplicated>>

\* Resolving looks the promise up in pendingResolutions.
Resolved(n, p) ==
    IF n = ProposerOf[p] /\ call[p] = "waiting"
    THEN [call EXCEPT ![p] = "resolved"] ELSE call

\* A vote finalized p; its block is published, the promise is looked up.
ResolveAfterPublish(p) ==
    /\ p \in publishing
    /\ running[ProposerOf[p]]
    /\ publishing' = publishing \ {p}
    /\ call' = Resolved(ProposerOf[p], p)
    /\ UNCHANGED <<core, inbox, expired, running, lost, duplicated>>

-----------------------------------------------------------------------------
(* handleRawMessage, by kind *)

\* Fault: a proposal that comes again is voted on again.
HandleProposalEveryTime(n, m) ==
    LET p == m.proposal
    IN  /\ \E d \in Opinion[p][n] :
              /\ core' = [core EXCEPT ![n] =
                             RecordVote(SubmitProposal(@, p), p, n, d)]
              /\ ReceiveAndPublish(n, m, {VoteMsg(p, n, d)})
        /\ UNCHANGED <<call, publishing, expired, running, lost>>

\* A node votes on a proposal the first time it hears of it.
HandleProposal(n, m) ==
    LET p == m.proposal
    IN  /\ ~HasProposal(core[n], p)
        /\ \E d \in Opinion[p][n] :
              /\ core' = [core EXCEPT ![n] =
                             RecordVote(SubmitProposal(@, p), p, n, d)]
              /\ ReceiveAndPublish(n, m, {VoteMsg(p, n, d)})
        /\ UNCHANGED <<call, publishing, expired, running, lost>>

IgnoreProposal(n, m) ==
    /\ HasProposal(core[n], m.proposal)
    /\ Receive(n, m)
    /\ UNCHANGED <<core, call, publishing, expired, running, lost>>

\* A vote is recorded and, at the proposer, may decide the proposal.
HandleVote(n, m) ==
    LET p == m.proposal
        recorded == RecordVote(core[n], p, m.voter, m.decision)
    IN  /\ HasProposal(core[n], p)
        /\ core' = [core EXCEPT ![n] = TryFinalize(n, recorded, p)]
        /\ publishing' = IF MayFinalize(n, recorded, p)
                         THEN publishing \cup {p} ELSE publishing
        /\ ReceiveAndPublish(n, m, FinalBlock(n, recorded, p))
        /\ UNCHANGED <<call, expired, running, lost>>

\* A vote that overtook its proposal is dropped.
IgnoreVote(n, m) ==
    /\ ~HasProposal(core[n], m.proposal)
    /\ Receive(n, m)
    /\ UNCHANGED <<core, call, publishing, expired, running, lost>>

\* buildResolution raises when the chain holds no block of the proposal.
ResolutionFails(c, p) == ~HasBlock(c, p)

\* A block is applied and the promise waiting for it, if any, is resolved.
HandleBlock(n, m) ==
    LET p == m.broadcast.block.proposal
        applied == ApplyFinalizationBroadcast(core[n], m.broadcast)
    IN  /\ ~ResolutionFails(applied, p)
        /\ core' = [core EXCEPT ![n] = applied]
        /\ call' = Resolved(n, p)
        /\ Receive(n, m)
        /\ UNCHANGED <<publishing, expired, running, lost>>

\* importBlock or buildResolution raised inside `void handleRawMessage`: what
\* was applied before stays.  Node.js ends the process on the unhandled
\* rejection unless the host listens for it; both are possible builds.
RaiseInHandleBlock(n, m) ==
    LET p == m.broadcast.block.proposal
        applied == ApplyFinalizationBroadcast(core[n], m.broadcast)
    IN  /\ ResolutionFails(applied, p)
        /\ core' = [core EXCEPT ![n] = applied]
        /\ \/ Receive(n, m) /\ UNCHANGED running
           \/ /\ running' = [running EXCEPT ![n] = FALSE]
              /\ inbox' = [inbox EXCEPT ![n] = {}]
              /\ UNCHANGED duplicated
        /\ UNCHANGED <<call, publishing, expired, lost>>

Handle(n, m) ==
    \/ m.kind = "proposal" /\ (HandleProposal(n, m) \/ IgnoreProposal(n, m))
    \/ m.kind = "vote"     /\ (HandleVote(n, m) \/ IgnoreVote(n, m))
    \/ m.kind = "block"    /\ (HandleBlock(n, m) \/ RaiseInHandleBlock(n, m))

\* A node that has ended has an empty inbox: Publish sends it nothing.
Deliver(n) == \E m \in inbox[n] : Handle(n, m)

-----------------------------------------------------------------------------
(* The environment *)

Lose(n) ==
    /\ lost < MaxLoss
    /\ lost' = lost + 1
    /\ \E m \in inbox[n] : inbox' = [inbox EXCEPT ![n] = @ \ {m}]
    /\ UNCHANGED <<core, call, publishing, expired, running, duplicated>>

\* The clock passes expiresAt of a proposal that has been created.
Expire(p) ==
    /\ call[p] # "idle"
    /\ p \notin expired
    /\ Cardinality(expired) < MaxExpired
    /\ expired' = expired \cup {p}
    /\ UNCHANGED <<core, inbox, call, publishing, running, lost, duplicated>>

CallStep(p) ==
    \/ VoteLocally(p) \/ FinalizeLocally(p) \/ AwaitResolution(p)
    \/ ResolveAfterPublish(p) \/ LocalWaitExpires(p)

Next ==
    \/ \E p \in Proposal : Submit(p) \/ CallStep(p) \/ Expire(p)
    \/ \E n \in Agent : Deliver(n) \/ Lose(n)

Spec == Init /\ [][Next]_vars

(***************************************************************************)
(* The event loop runs every continuation whose await is over, a timer     *)
(* that is armed fires, and gossip delivers what it does not lose.  Nobody *)
(* is obliged to submit a proposal, and the network to lose anything.      *)
(* There are finitely many steps of calls, expiries and deliveries in a    *)
(* behaviour, so these two conditions oblige each of them to be taken as   *)
(* weak fairness of each by itself would.                                  *)
(***************************************************************************)
Fairness ==
    /\ WF_vars(\E p \in Proposal : CallStep(p) \/ Expire(p))
    /\ WF_vars(\E n \in Agent : Deliver(n))

FairSpec == Spec /\ Fairness
-----------------------------------------------------------------------------
(* Properties *)

Votes == UNION {[S -> Decision] : S \in SUBSET Agent}

Status == FinalStatus \cup {"none"}

\* A block's previousHash is as deep as its chain is long: VerifyChain types it.
BlockOK(b) ==
    /\ DOMAIN b = {"height", "previousHash", "proposal", "votes", "status"}
    /\ b.height \in Nat /\ b.proposal \in Proposal
    /\ b.votes \in Votes /\ b.status \in FinalStatus

CoreOK(c) ==
    /\ c.proposals \subseteq Proposal
    /\ c.votes \in [Proposal -> Votes]
    /\ c.results \in [Proposal -> Status]
    /\ c.score \in [Agent -> 0 .. MaxReputation]
    /\ \A i \in DOMAIN c.chain : BlockOK(c.chain[i])

MessageOK(m) ==
    \/ m \in [kind : {"proposal"}, proposal : Proposal]
    \/ m \in [kind : {"vote"}, proposal : Proposal, voter : Agent, decision : Decision]
    \/ m.kind = "block" /\ BlockOK(m.broadcast.block)

TypeOK ==
    /\ \A n \in Agent : CoreOK(core[n]) /\ \A m \in inbox[n] : MessageOK(m)
    /\ call \in [Proposal -> {"idle", "proposalSent", "voteSent", "blockSent",
                              "waiting", "resolved", "failed"}]
    /\ publishing \subseteq Proposal /\ expired \subseteq Proposal
    /\ running \in [Agent -> BOOLEAN]
    /\ lost \in 0 .. MaxLoss /\ duplicated \in 0 .. MaxDuplicate

\* Two nodes that consider a proposal final hold the same outcome, and the
\* blocks they hold for it are the same block: nobody but the proposer decides,
\* although every node collects the votes (tryFinalize).
Agreement ==
    \A m, n \in Agent :
        /\ \A p \in Proposal :
              IsFinalized(core[m], p) /\ IsFinalized(core[n], p)
                  => core[m].results[p] = core[n].results[p]
        /\ \A i \in DOMAIN core[m].chain, j \in DOMAIN core[n].chain :
              core[m].chain[i].proposal = core[n].chain[j].proposal
                  => core[m].chain[i] = core[n].chain[j]

\* A proposal gets one block in a chain, whatever votes still arrive after it
\* was decided and however often its block is delivered.
OneBlockPerProposal ==
    \A n \in Agent : \A i, j \in DOMAIN core[n].chain :
        core[n].chain[i].proposal = core[n].chain[j].proposal => i = j

\* verify() holds of every chain: blocks that arrive out of order, or that were
\* built on another branch, never get into it (importBlock).
ChainsVerify == \A n \in Agent : VerifyChain(core[n].chain)

\* The outcome of a proposal moves the reputations of a node once, however
\* often its block arrives.
SettledOnce ==
    \A n \in Agent : \A i, j \in DOMAIN core[n].history :
        core[n].history[i].proposal = core[n].history[j].proposal => i = j

\* No two nodes count different decisions of one voter on one proposal: an
\* agent votes once, although the proposal may reach it again.
VotesAgree ==
    \A m, n \in Agent, p \in Proposal :
        \A v \in DOMAIN core[m].votes[p] \cap DOMAIN core[n].votes[p] :
            core[m].votes[p][v] = core[n].votes[p][v]

\* What is final at a node is in its chain: "The finalized outcome is appended
\* to the immutable chain as a hash-linked block."
FinalizedIsInChain ==
    \A n \in Agent, p \in Proposal :
        IsFinalized(core[n], p) => HasBlock(core[n], p)

\* The caller is told that the proposal did not finalize only when it did not.
WaitExpiryIsHonest ==
    [][\A p \in Proposal :
          call[p] = "waiting" /\ call'[p] = "failed"
              => ~IsFinalized(core[ProposerOf[p]], p)]_vars

\* A submitProposal call returns: its timer ends what no vote ever decides.
EveryCallReturns ==
    \A p \in Proposal :
        call[p] # "idle" ~> \/ call[p] \in {"resolved", "failed"}
                            \/ ~running[ProposerOf[p]]

\* A proposal is finalized at its proposer, or times out there: "The consensus
\* engine finalizes when support or rejection crosses the BFT threshold, or
\* times out if quorum is not reached."
EveryProposalFinalizes ==
    \A p \in Proposal :
        call[p] # "idle" ~> IsFinalized(core[ProposerOf[p]], p)

\* At most one of the proposals that were submitted is not in every chain yet.
OneAtATime ==
    \A p, q \in Proposal :
        p # q /\ call[p] # "idle" /\ call[q] # "idle"
            => \E r \in {p, q} : \A n \in Agent : HasBlock(core[n], r)

\* While the network loses nothing, and nobody proposes before the block of the
\* proposal before is everywhere, every proposal is decided and its block comes to
\* be in the chain of every node, whoever proposes and whatever messages of the
\* earlier proposals are still on their way.  Two proposals at a time may end with
\* a block that some node never gets (FinalizedIsInChain).
EverybodyLearns ==
    [](lost = 0 /\ OneAtATime)
        => \A p \in Proposal :
              call[p] # "idle" ~> \A n \in Agent : HasBlock(core[n], p)
==============================================================================
