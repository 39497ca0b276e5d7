# FURGE Fabric Protocol: TLA+ verification project

TLA+ models of the Layer 0 runtime of the FURGE Fabric Protocol: reputation-weighted
consensus, the nodes that run it over gossip, the `$FURGE` ledger, the local network that
serves the API and persists everything, operator authentication, and the console in the
browser. TLC checks small instances; TLAPS proves, for every instance, every safety property that
the passing runs check, and the two refinements of abstract specifications. Liveness stays with TLC.

Paths below are relative to the repository. `PROJECT.json` lists every run, mutant, finding,
hazard and theorem, and maps each definition to the lines it models.

## 1. The system

| Component | State | Operations that change it | Talks to |
|---|---|---|---|
| `packages/consensus` | none | `evaluateProposal`: accept, reject, time out or stay pending | reputations and votes handed in by its caller |
| `packages/protocol-core` | proposals, votes, results, reputations and their events, chain, audit trail | `submitProposal`, `recordVote`, `finalizeProposal`, `applyFinalizationBroadcast`, `appendAuditEvent` | called by the node and by LocalNetwork |
| `packages/agent-node` | a core, a ledger, a bridge registry, `pendingResolutions`, `bridgeArtifacts` | `submitProposal`, `executeBridge`, four message handlers, `tryFinalize`, a timer | other nodes, by gossip |
| `packages/tokenomics` | accounts (balance, nonce), token journal, fee journal, minted supply | `seedGenesis`, `recordValidationReward`, `recordTransfer`, `recordBridgeFee`, `importEvent`, `importState` | called by the node and by LocalNetwork |
| `packages/bridges` | adapters, reports | `register`, `executeWithConsensus`, `importReport` | an external adapter, awaited |
| `packages/dev-tools` `LocalNetwork` | the nodes of one process, `started` | `start`, `stop`, `reset`, `submitProposal`, `transferTokens`, `executeBridge` | nodes directly, database through persistence |
| `packages/dev-tools` persistence | identities and snapshot in PostgreSQL, a snapshot in Redis | `saveNodeIdentities`, `saveRuntimeSnapshot`, `loadRuntimeSnapshot`, `clearRuntimeState`, `cacheSnapshot` | LocalNetwork |
| `apps/api` `createOperatorAuth` | failed login attempts; tokens are stateless | `login`, `authenticate` | the routes |
| `apps/api` routes | none | thirteen reads, login, session, proposal, bridge run, transfer, reset | LocalNetwork, `createOperatorAuth` |
| `apps/web` | token and session (also in `localStorage`), the last refresh | `restoreOperatorSession`, login, logout, three forms, `refreshPublicData` | the routes, by independent requests |
| `packages/sdk`, `scripts` | none | fetches | API |

What is hard here, and what makes each part correct:

- **Consensus** decides before all votes are in. The decision must be the one any completion
  of the ballot would give, and must not be turned by a later vote or the clock.
- **Nodes** handle messages between the awaits of their own calls. Messages are reordered,
  duplicated and lost; only the proposer decides, everyone else applies its block. A block
  can arrive on top of another head, and the handler then raises half way through.
- **The ledger** must keep the cap, conserve units, use nonces once and reward a block once,
  also when sender, recipient and validator coincide, when a fee is imported twice, when the
  supply runs out and when a call is refused.
- **LocalNetwork** interleaves calls at their awaits (the save, the adapter, the publication of
  a run), copies one ledger to the other nodes, writes whole snapshots that may overlap, first to
  the database and then to Redis, and is restarted from what was committed. Identities are
  stored one row at a time before anything else; a reset clears database, mirror and nodes one
  after the other and waits for no call.
- **Authentication** counts failures in fixed windows: it must neither let more through than its
  windows allow nor keep an operator out for longer than the attempts earned. A token may expire
  while its request is on the way.
- **The console** overlaps handlers: a login may finish before the session that is being restored,
  refreshes overtake each other, answers are lost. What it shows must be the operator's own session
  and be no older than the operator's own changes, and no handler may hang.

## 2. Modules

| Module | Models | Correspondence |
|---|---|---|
| `Consensus` | `ConsensusEngine` | operators; `EvaluateProposal` is `evaluateProposal` |
| `VoteRound` | one round: votes in any order, the expiry at any time | one action per vote, one for the clock |
| `ProtocolCore` | `ProtocolCore`, `ReputationLedger`, `ImmutableChain` | a core is a record, each method an operator from a core to the next |
| `AgentNode` | a network of nodes over gossip | one action per stretch between two awaits, per handler and outcome; loss, duplication and the clock are actions of the environment |
| `ReplicatedLog` | (abstract) one log, one leader, everyone learns it in order | `AgentLog` implements it |
| `AgentLog` | `AgentNode` with one proposer | refinement mapping: a chain is a log |
| `FurgeFeeLedger` | `FurgeFeeLedger` | a ledger is a record, each method an operator |
| `TokenLedger` | the ledger and its callers | one action per public operation, one per refusal |
| `FixedCapAsset` | (abstract) units are issued up to a cap, or move at the cost of one payer | `TokenLedger` implements it |
| `LocalNetwork` | the process behind the API, composed of `ProtocolCore` (EXTENDS) and `FurgeFeeLedger` (INSTANCE), with its database and its mirror | one action per stretch between two awaits of a call, of a start and of a reset; one for each way a save ends; the end of the process at any moment |
| `OperatorAuth` | `createOperatorAuth` | one action per kind of login, one for the clock, one for a restart; `Authenticate` is a predicate on tokens |
| `WebConsole` | one browser tab of `apps/web` and the routes it calls; EXTENDS `OperatorAuth` | one action per event of the page and per request the API handles; a request is `sent`, `done` or lost |
| `VoteRoundProofs`, `AgentNodeProofs`, `AgentLogProofs`, `ReplicatedLogProofs`, `TokenLedgerProofs`, `LocalNetworkProofs`, `WebConsoleProofs` | theorems; `SumProofs` has the lemmas on sums they share | section 5 |
| `MC*` | instances | model values, ballots, requests |

Abstractions worth knowing:

- The array of votes is a function from voter to decision: `recordVote` keeps the first vote of
  a voter, so the two carry the same information. Scores are integers; every delta is one.
- A block hash is a record of everything it hashes, so equal hashes mean equal chains. It is
  never put together from characters.
- Amounts are integers in the unit of `roundTokenAmount` (0.000001 `$FURGE`); only the rate and
  the halving need rounding, halves up.
- Identities, signatures, schemas, wording and time stamps are left out: all nodes run this
  code, so a message that does not verify does not occur. Ids are distinct; see section 6.
- `LocalNetwork` drives all its cores in the same synchronous stretch, so one core stands for
  all; the ledgers can differ, so one follower's ledger (`replica`) is kept apart.
- In `LocalNetwork` the key of a node is the number of the process that generated it, so two
  processes never generate the same. `Scenario` says which calls are made, what they ask for,
  whether Redis is configured, and how many crashes and resets there are.
- `OperatorAuth` has one clock for the limiter's milliseconds and the tokens' seconds. The history
  `failures` is there for the properties only: the code keeps a count and an expiry.
- `WebConsole` sees the protocol's state as the number of times it changed; forgetting in a restart is one
  of them. A call the API refuses may still
  have changed it (`RefuseForm`), as a transfer does whose nonce is used up.
- A bridge run ends in one of four reports; the code treats them alike, so the model does.
- A journal is a sequence, but rows of the same millisecond may come back from the database in
  another order. No operation of the ledger reads that order, and `RestoredExactly` compares sets.
- An exception inside `void this.handleRawMessage(...)` is an unhandled rejection, which ends
  a Node.js process unless the host listens for it; `AgentNode` allows both outcomes.

## 3. Runs

Passing runs. The bounds are in the `.cfg` files; between them every action of every model fires.

| Run | Shows | Bounds, and why they are enough |
|---|---|---|
| `VoteRound` | early decisions are sound, complete ballots decide, nothing is accepted without support that weighs something unless nobody weighs anything, decisions are stable | 4 agents with every reputation in 0..2: all ties of the two-thirds test, zero weights, every order |
| `AgentFork` | type; only the proposer decides; chains verify, outcomes settle once, one vote per agent | 2 nodes that propose at once, each of which supports its own proposal and supports or rejects the other, 1 message duplicated and 1 lost: the smallest fork, and every order of votes and blocks around it |
| `AgentLog` | the chains implement `ReplicatedLog`; one block per proposal; equal chains mean equal scores | 1 proposer, 2 proposals, so that blocks can overtake; 1 duplicate |
| `AgentCalls` | every call returns; while nothing is lost and proposals are made one at a time, every block comes to be in every chain (fair) | 2 nodes that propose in turn, the follower of the first round free in its vote; a loss, a duplicate and expiry of both, below |
| `TokenLedger` | cap, one reward per block, the halving announcement; the journal explains the balances, nonces are used once, refusals move nothing; refinement of `FixedCapAsset` | 3 agents, one of them the validator: all coincidences of the three roles; a genesis that cannot grant everybody in full, and a supply that ends in the second epoch |
| `LocalCalls` | type; the other nodes' ledgers follow; one reward per block; a repeated transfer settles once; an answered call is durable; snapshots fit the stored identities; the database stays with one history; a start restores what was saved; a reset forgets it | four scenarios, below |
| `Console` | type; the limiter's two bounds; the session is the token's; changes are authorized; what is shown after a form is no older than its change; handlers return (fair) | five budgets, below |

`LocalCalls` starts in one of four scenarios (`MCLocalNetwork!AllScenarios`), because everything at
once is out of reach: two of three contending calls at a time (the same transfer twice and a bridge
run its payer may no longer afford), with one crash; one call of each kind, one at a time, with two
crashes; a transfer and a run, one at a time, with Redis, a crash and a reset; and the same two
overlapping a reset. Saves fail and end in any order in all of them; starts cut off while they store
identities, and resets cut off between database, mirror and restart, occur. Two crashes are enough
for a start that finds what an interrupted start left.

`AgentCalls` checks `SerialSpec`: the behaviours of `FairSpec` in which nobody proposes before the block
of the proposal before is in every chain (`OneAtATime`), which is what `EverybodyLearns` assumes. In the
first round a message may be lost, duplicated and overtaken, the proposal may expire and the follower
may support, reject or abstain; that is all `EveryCallReturns` needs. If nothing was lost, the other
node then proposes, so that its block links to the first one: the second proposal may expire too, and
what was duplicated in the first round may still arrive. Two proposals at a time would make `EverybodyLearns`
false even when nothing is lost: of two blocks built on the same head, or of two that arrive in the
other order, a node applies one outcome without its block and never imports it again.
`AgentForkLost` shows that behaviour.

`Console` starts with one of five budgets (`MCWebConsole!Budgets`): attempts of other clients, up to
seven, around a login, over two windows of a limit of 2 (twice the limit and more, so that both
bounds bite); three logins with logouts and two reloads while a session is restored; two forms and
the refresh button; a form and a reload, past the end of its token; two forms and a restart of the API, which may forget
changes. Two resources are enough for a refresh to be torn.

Runs that end in a violation, each a finding: what a document or a message of the repository
says is not what the code does.

| Run | Finding |
|---|---|
| `AgentLateWait` | `submitProposal` registers its promise after the proposal may have been finalized; the caller is told that it "did not finalize before local wait expired" (`agent-node/src/index.ts:171`) |
| `AgentLostVote` | nothing evaluates a proposal when it expires: after one lost vote it neither finalizes nor times out (`agent-node/src/index.ts:300`) |
| `AgentForkLost` | a block that does not link leaves its outcome applied without the block (`protocol-core/src/index.ts:515`) |
| `LocalTreasuryFee` | a fee the coordinator pays goes to the treasury, which the foreign key of the fee table refuses: this save and all later ones fail (`tokenomics/src/index.ts:568`) |
| `LocalRunsLost` | after a restart the first new bridge run hides the earlier ones, and the save deletes them (`agent-node/src/index.ts:213`) |

Met while modelling, and kept without a run:

- With no eligible weight at all, the support 0 reaches two thirds of 0 and the first evaluation
  accepts, whatever was voted (`consensus/src/index.ts:35`). `EarlyDecisionIsSound` and
  `FullBallotDecides` compare weights, so they hold there too.
- A fee of 0 would make `recordTransfer` raise at the schema of its fee event
  (`tokenomics/src/index.ts:204`, `amount: z.number().positive()`), after the accounts were written and
  before anything is journaled. It takes a policy with a base fee of 0, which the policy's schema
  allows; nothing in the repository overrides the default of 0.05, so `PolicyAssumption` and
  `TokenPolicy` leave such policies out.
- The announced halving is the last block of an epoch (`tokenomics/src/index.ts:563`), and
  `HalvingAnnounced` takes it so. The console prints it as "Next halving at block"
  (`apps/web/src/app.ts:685`), which may be read as the first block with the lower reward, one later.
- A restart makes the audit trail longer: `restoreNode` submits the restored proposals again
  (`dev-tools/src/index.ts:341`), which writes events whose ids depend on the length of the trail at that
  moment (`protocol-core/src/index.ts:404`), and then appends the saved events, those of the first
  submission among them. `local-network.test.ts:127`, which runs only where there is a database, expects
  `expect(restored.auditTrail.length).toBe(beforeStop.auditTrail.length);`. `RestoredExactly` says
  that the trail loses nothing and gains nothing but these submissions.
- A restart may forget changes that were not saved or that an overlapping save replaced, so what the
  console shows after a form is no older than the form's change but need not contain it
  (`OwnChangesAreShown`); what is durable is the matter of `LocalCalls`.
- Saves of calls that overlap are not ordered (`dev-tools/src/index.ts:558`): the older snapshot
  may commit last, and an answered call is missing from the database until the next save.
  `AcknowledgedIsDurable` is therefore about scenarios with one call at a time. `StoredHistory` says
  how far this goes: back to an earlier moment of the same history, never into another one.
- A save or a call that overlaps a reset can commit the old state after the database was cleared
  (`dev-tools/src/index.ts:102`); the start then restores it. `ClearDatabase` is one step, so a save
  commits before or after it; in the database the two transactions are isolated by READ COMMITTED only,
  and one that overlaps the other may also leave a part of its rows. `ResetForgets` is therefore about
  resets that no call overlaps.
- While a reset starts the nodes again, `start()` waits half a second with the nodes in place and
  nothing restored or seeded (`dev-tools/src/index.ts:85`), and the API still takes calls. A
  validation reward given in that window leaves a token event, so `ensureGenesisTokenState` takes the
  genesis for done and the grants are never made.
- Two proposals of one subject within a millisecond share their id (`protocol-core/src/index.ts:545`).
  The second resets the votes of the first and gets a second block for the same proposal, which the
  unique index `Block_proposalId_key` then keeps out of the database.
- The answer to a session restore that comes after a logout shows a session without a token; a
  restore that fails after a login drops the new token (`apps/web/src/app.ts:526`). `SessionIsOfToken`
  leaves these out by its history variable `raced`.
- A refresh that started earlier may end later and show older data; its resources may be of
  different moments (`apps/web/src/app.ts:538`). A form's answer 401 leaves the session displayed.
- A full window of failures at the end of one window and another at the start of the next are
  allowed: fixed windows bound `2 * MaxFailedAttempts`, not `MaxFailedAttempts`
  (`apps/api/src/auth.ts:112`).

Every property of a passing run has a mutant: an operator marked `Fault` next to the definition
it stands in for, a plausible mistake in that code that the property must notice.

`CHECK_DEADLOCK FALSE` stands in every cfg: proposals, calls and crashes are bounded, and a
system that has no call left is at rest.

## 4. Fairness

`AgentNode!FairSpec`: a continuation whose await is over runs (the event loop), an armed timer fires,
the clock passes an expiry, and gossip delivers a message that it does not lose. Two conditions say it,
one for the calls and expiries, one for the deliveries: a behaviour has finitely many of these steps, so
weak fairness of all of them together obliges each one that stays enabled. Nobody is obliged to submit a
proposal, the network need not lose or duplicate anything, and a node that ended stays ended.

`SerialSpec` keeps these conditions and restricts only when a proposal is submitted and a message lost or
duplicated, to which nobody is obliged: it has no behaviour that `FairSpec` has not.

`WebConsole!FairSpec`: the API answers a request it has got and the browser runs the handler of an
answer, each by weak fairness; a lost request or answer is an error the browser reports. No user has
to click, no token has to be good, and time need not pass.

## 5. Proofs

TLAPS checks eight modules from nothing but the named assumptions on the constants
(`CoreAssumption`, `RoundAssumption`, `NodeAssumption`, `LeaderAssumption`, `PolicyAssumption`,
`LedgerAssumption`, `TokenPolicy`, `NetworkAssumption`, `AuthAssumption`, `ConsoleAssumption`), which TLC
evaluates in the runs, and from the hypothesis `Leader \in Node` that the theorems about the abstract log state
themselves. None of them bounds the agents, proposals, calls, requests or windows; where weights or
balances are summed, the agents or accounts are finite.

**Vote rounds** (`VoteRoundProofs`). `EarlyDecisionSound`, `FullBallotIsDecided`,
`AcceptanceSupported`: `RoundSpec => []Inv` of the three invariants, and `DecisionStays` the action
property, for all reputations and ballots. The invariant is only that the ballot is one; the argument
is arithmetic on weights. The weight of the supporters lies between what a ballot has and what it may
still get (`Possible`), so a test that either bound passes is passed by every completion.

**Sums** (`SumProofs`). Weights, balances and journals are folds over sets, and the library's
induction theorems take an operator as a parameter, which no installed prover instantiates. The
lemmas avoid induction: of the finite sets on which a claim fails, one has a least cardinality, and
leaving out one of its elements contradicts that. Hence `TotalIsNat`, the sum of disjoint sets, of a
set with one value changed, and so on.

**Nodes** (`AgentNodeProofs`). `TypeCorrect`, `NodesAgree`, `ChainsAreLinked`, `OneBlockInAChain`,
`ReputationMovesOnce`, `OneVotePerVoter`, with losses, duplicates and any order. The inductive
invariant `IInv` is a conjunction of
- `NodesOK`: every core is consistent with itself (`CoreInv`), and every message well formed;
- `ProposerDecides`: what is final at any node, in a chain or on its way in a block was decided so by its
  proposer. Two nodes agree because both agree with the proposer;
- `VotesOnRecord`: of the votes of one agent on one proposal that are counted or on their way, all are
  the same, and there are none before the agent has voted. `VotesAgree` speaks of counted votes only;
- `NoEcho`: no proposal travels back to its proposer, which would vote on it again;
- `BooksOK`: the types of the rest.

**One proposer** (`AgentLogProofs`). `LogImplemented`: `Spec => ImplementsReplicatedLog`, the chains as
logs. `LogInv` adds to `IInv` that the proposer settles exactly what it appends, that every chain is an
initial part of the proposer's, and that a block on its way is in the proposer's chain: a block that links
is then the next one, and one that does not leaves the log alone. `ScoresFollowChain` needs more, since a
node settles a block before it knows whether the block links: unless it settled something out of order,
its scores are those its chain leads to (`Matches`).
`LogsArePrefixes` and `OneDecisionPerProposal` are the same promises of the abstract log itself, for
logs of any length (`ReplicatedLogProofs`); a follower does not check for duplicates, it inherits their
absence from the leader.

**Ledger** (`TokenLedgerProofs`), with one lemma per operation and one step per action:
- `TypeCorrect`, `SupplyIsCapped`: the inductive invariant is their conjunction. Genesis yields naturals
  only while what is left of the supply is not negative, and that is a number only if the ledger
  types; `GrantsFit` is the arithmetic of a genesis cut short.
- `MovesAreRecorded` (`RefusalMovesNothing`): each operation lengthens the journal or moves nothing.
- `OneRewardPerBlock`: every operation but the reward keeps the reward entries (`SameRewards`), and the
  reward is guarded by their absence.
- `NoncesUsedOnce`: the fee entry behind a transfer uses no nonce of its own, so the invariant has to say
  that no journal ends with a transfer (`FeeIsIn`): otherwise the next entry would change what it is.
- `HalvingIsAnnounced`: arithmetic of the epochs, for every interval and reward.
- `JournalTellsBalances`: `Told` says that every balance is the sum of the entries that credit the
  account less those that charge it, and the supply the sum of the mints; each entry adds one term.
- `AssetImplemented`: `Spec => ImplementsAsset`. The step simulation needs `Covered`: the accounts hold
  exactly the minted supply, also when payer, payee and validator coincide.

**Local network** (`LocalNetworkProofs`). Each invariant below rests on the ones above it:
- `SnapshotsFitIdentities`: everything a call does to the memory keeps the keys of the nodes
  (`CallAdvances`), whatever its ballot, ledger and block are; `IdentityInv` adds that keys are
  generated only when some are missing, and that no snapshot was ever made then. `ShapeInv` says who
  may be saving and when.
- `ResetsForget`: while no call is in progress nobody can save (`QuietSavesNothing`), so what the reset
  has cleared stays cleared until the nodes are seeded.
- `FollowersAgreeAlways`: `FollowInv` says that every fee on its way is in the coordinator's journal
  already, so a copy makes its delivery void and no order of copies and deliveries charges it twice; and
  that what is restored is a ledger, as every stored or pending snapshot holds one.
- `EveryBlockIsRewarded`, `TransfersHaveBlocks`: a restart may continue from any snapshot that a save
  wrote, so `CoreInv` says the same of the memory, of the database, of the mirror and of every snapshot
  being saved (`BooksOK`). The blocks stand one upon the other, one per proposal, with the history of
  their settlements and the reputations of the last (`BlocksOK`); the rewards of the journal belong
  to the blocks the schedule pays (`Paid`), its transfers to accepted blocks, with nonces their payers
  have used up (`Carried`); and what a snapshot holds of a call, that call has done (`Known`): a call
  that has not submitted has no block anywhere, so the block and the transfer it adds are new. Above
  that, one lemma per operator of the model (`DecideNode`, `RewardNode`, `ForcedNode`, `TransferBooks`,
  `RestoredNode`, `GenesisNode`) and one per step.
- `StartsRestore`: the replay of a snapshot is a recursive function on its length, and the induction is
  the one of `SumProofs`: there would be a first block after which the rebuilt core is not the prefix
  of the snapshot (`Rebuilt`). Every ballot is full, so the last settlement alone tells all scores, and
  `LinkedVerifies` gives the links. A second genesis changes no account (`GenesisNode`, `Started`).
  For the audit trail, `TrailInv` says that every snapshot holds the events a start writes, the genesis
  among them, so a start writes none of these a second time (`StartedTrail`).
- `TypeCorrect`: `TypeInv` adds that who awaits a save has one under way, and that a key names one of
  the processes so far.
- `AnswersAreDurable`: with one call at a time, `DurableInv` says that what a call was answered is
  in the database, in every snapshot that may replace it, and in the memory from which the next one
  is taken; and how far a call in progress has got at the nodes (`Progress`). That a step undoes
  nothing of it is `GoesOn`: the chain and the journal only grow (`DoneStays`). The call
  in progress is the only one that saves (`OneSaver`), which is what fails when calls overlap.
- `OneHistoryIsStored`: of two snapshots that may be stored one extends the other, because each was taken
  from running nodes that were ahead of all the others (`HistoryInv`), and a process begins with
  what is stored. That a commit never goes back when calls do not overlap rests on `OneSaver` again.

**Authentication and console** (`WebConsoleProofs`):
- `GuessesLimited`, `LockoutEarned`: the table keeps a count and an expiry, the properties speak of the
  times of all failures. `LimiterInv` says what the one tells of the other: the count is the number of
  failures since the window opened, never above the limit, and each window opened when the one before
  was over. Of `2 * MaxFailedAttempts` failures the last is in a window that opened later than the
  first, and the window before that one lies between them.
- `ConsoleImplementsAuth`: `Spec => AuthSpec` of `WebConsole`, a refinement without a mapping, so
  that `ConsoleGuessesLimited` follows.
- `MutationsAuthorized` needs that only a login issues tokens, all with the same lifetime, and tells
  a restart from a mutation by its budget (`LeftInv`). `SessionFollowsToken` needs that the token whose
  session is asked for is the console's while nothing races.
- `ConsoleTypes`, `OwnChangesShown`: a form waits exactly while its refresh runs, and each answer of that
  refresh was read after the form's change was made.

TLC checked the inductive invariants of the nodes, the log and the local network on the runs'
configurations before they were proved.

Two statements changed on the way. The reward of every block was stated without the end of the supply,
which only the run's policy keeps away; `RewardPerBlock` now lets a block go unpaid only when
nothing is left to mint. And `TypeOK` compares snapshots with `None`, which has to be a record like
them before anything can be said of that comparison; a slot without an identity is the constant `NoKey`.

Only model-checked: liveness (`EveryCallReturns`, `EverybodyLearns`, `HandlersReturn`), since fairness
and `ENABLED` are out of the prover's reach; and the runs that end in a violation, which show a
behaviour and prove nothing.

## 6. Not modelled, and why

- Cryptography, libp2p, zod schemas, formatting: data, or outside `packages/`.
- Proposal and run ids that collide within a millisecond, two resets at a time, calls in the start
  window of a reset (section 3 says what happens), a reset whose start fails before its save: no document says what should hold there.
- The routes that look up one record, CORS, the switch that refuses a reset in production: no state.
- The rendering of the console and its asset manifest; a second click while the same handler is
  still under way.
- The adapters' own checks, the SDK, scripts, assets and deployment: no protocol state.
- Bridge gossip between nodes with independent ledgers: nothing in the repository runs nodes that way;
  inside `LocalNetwork`, where ledgers are copied as well, it is modelled.

## 7. Plan

Done: every component that keeps protocol state, its abstract specifications, and a theorem for
every safety property of the passing runs. What is left:

1. An abstract specification still worth stating: an atomic, durable call service that
   `LocalNetwork` implements while calls do not overlap, with `DurableInv` as the heart of its step
   simulation.
2. What else overlapping calls promise: an answered call is in the memory of the running process
   until that process ends, and in the database once a save that began later has committed.
