----------------------------- MODULE LocalNetwork -----------------------------
(***************************************************************************)
(* LocalNetwork of packages/dev-tools: the runtime behind the API.  One    *)
(* process hosts all the nodes.  A call decides its proposal at every node *)
(* in one synchronous stretch, moves $FURGE on the coordinator's ledger,   *)
(* copies that ledger to the other nodes, and saves a snapshot of          *)
(* everything in the database and then in Redis, its mirror.  Calls and    *)
(* resets interleave at their awaits, and the process may end at any of    *)
(* them.                                                                   *)
(*                                                                         *)
(* The nodes decide together and their cores never differ, so one core     *)
(* stands for all.  Their ledgers may differ for a while: `replica` is the *)
(* ledger of one node that is not the coordinator.                         *)
(*                                                                         *)
(* The runtime is                                                          *)
(*   down         no nodes                                                 *)
(*   identifying  it has read the identities, or saves those it generated  *)
(*   starting     restored, awaits the save at the end of start()          *)
(*   up                                                                    *)
(* A call is                                                               *)
(*   idle        not made yet                                              *)
(*   deciding    its proposal is decided, the first save is under way      *)
(*   decided     the first save is over (transfer, bridge)                 *)
(*   executing   awaits the bridge adapter                                 *)
(*   publishing  the bridge fee is recorded, awaits its publication        *)
(*   settling    the last save is under way                                *)
(*   ok          answered                                                  *)
(*   failed      answered with an error                                    *)
(*   lost        cut off by the end of the process                         *)
(* A reset is                                                              *)
(*   none, or under way: clearing the database, unmirroring, stopping, or  *)
(*   stopped and starting again                                            *)
(* Left out: ids that collide, two resets at a time, calls made while the  *)
(* start of a reset is under way, and a start of a reset that fails before *)
(* its save, which leaves nodes that are not started.                      *)
(***************************************************************************)
EXTENDS ProtocolCore

CONSTANTS
    Call,           \* the calls clients may make
    Coordinator,    \* nodes[0]
    AgentOrder,     \* the nodes in order
    NoKey,          \* a slot of the database without an identity
    Ballots,        \* the ballots the evaluators may produce
    Scenario        \* which calls are made and what they ask for, whether Redis is
                    \* configured, and bounds on the calls in progress at a time,
                    \* the ends of the process and the resets

CONSTANTS Treasury, MaxSupply, GenesisTreasury, GenesisGrant, InitialReward,
    HalvingInterval, BaseFee, FeeRate, FeeRateBase, EpochFeeStep, MemoByteFee

Token == INSTANCE FurgeFeeLedger

\* PolicyAssumption of FurgeFeeLedger.
ASSUME TokenPolicy ==
    /\ Treasury \notin Agent
    /\ MaxSupply \in Nat /\ GenesisTreasury \in Nat /\ GenesisGrant \in Nat
    /\ InitialReward \in Nat /\ HalvingInterval \in Nat \ {0}
    /\ BaseFee \in Nat \ {0} /\ FeeRate \in Nat /\ FeeRateBase \in Nat \ {0}
    /\ EpochFeeStep \in Nat /\ MemoByteFee \in Nat

\* The proposal of a call, and the one that replaces it when it is rejected.
Lane == {"vote", "approved"}

Kind == {"proposal", "transfer", "bridge"}

\* Who saves a snapshot: the calls, and start().
Boot == "start"
Saver == Call \cup {Boot}

ASSUME NetworkAssumption ==
    /\ Proposal = Call \X Lane
    /\ Boot \notin Call /\ NoKey \notin Nat
    /\ AgentOrder \in Seq(Agent) /\ AgentOrder # <<>> /\ Coordinator = AgentOrder[1]
    /\ Ballots \subseteq [Agent -> Decision]
    /\ \A s \in Scenario :
          /\ DOMAIN s.request \subseteq Call /\ s.redis \in BOOLEAN
          /\ \A c \in DOMAIN s.request :
                LET r == s.request[c]
                IN  /\ r.kind \in Kind
                    /\ r.kind \in {"transfer", "bridge"} =>
                          r.from \in Agent /\ r.amount \in Nat \ {0}
                    /\ r.kind = "transfer" => r.to \in Agent
          /\ {s.active, s.crashes, s.resets} \subseteq Nat

VARIABLES
    scenario,
    phase,          \* of the runtime
    net,            \* its memory: keys, core, audit trail, coordinator's ledger, runs
    replica,        \* the ledger of another node
    gossip,         \* bridge fees on their way to that node
    call,           \* where each call is
    pending,        \* the snapshot each of them is saving
    committed,      \* those whose transaction is over, but not yet the mirroring
    db,             \* the snapshot in the database
    mirror,         \* the one in Redis
    slots,          \* the identities in the database: who generated each key
    reset,          \* where the reset is
    crashes, resets,
    alone,          \* history: no call was in progress since the reset was asked for
    cleared         \* history: the calls made before the database was cleared

memory == <<phase, net, replica, gossip>>
saving == <<pending, committed>>
store == <<db, mirror, slots>>
control == <<scenario, reset, crashes, resets, cleared>>
vars == <<memory, call, saving, store, control, alone>>

Request == scenario.request

-----------------------------------------------------------------------------
(* Blocks and the audit trail *)

LastBlock(n) == n.core.chain[Len(n.core.chain)]

\* blockId hashes the proposal and the height.
BlockId(block) == <<block.proposal, block.height>>

\* The ids of audit events; a trail never holds the same id twice.  The ids of
\* a proposal's events depend on the length the trail had at that moment.
Registrations == {<<"agent.registered", a>> : a \in Agent}

ProposalAudit(p, ballot, length) ==
    {<<"proposal.submitted", p, length>>,
     <<"proposal.finalized", p, length + 1 + Cardinality(DOMAIN ballot)>>}
    \cup {<<"vote.recorded", p, v>> : v \in DOMAIN ballot}

Audited(n, id) == [n EXCEPT !.audit = @ \cup {id}]

-----------------------------------------------------------------------------
(* What a call does between two awaits *)

\* All nodes get the proposal and every vote; the coordinator decides, the others
\* apply its broadcast.  With a full ballot the status is never "pending"
\* (FullBallotDecides), so assertConsensusResult does not raise.
Decide(n, p, ballot) ==
    LET voted == [SubmitProposal(n.core, p) EXCEPT !.votes[p] = ballot]
    IN  [n EXCEPT
           !.core = FinalizeProposal(voted, p,
                        EvaluateProposal(ballot, Agent, voted.score, FALSE)),
           !.audit = @ \cup ProposalAudit(p, ballot, Cardinality(n.audit))]

\* settleValidationReward, for the block on top of the chain.
SettleValidationReward(n) ==
    LET block == LastBlock(n)
        due == Token!RewardDue(n.ledger, block.height)
        paid == IF Token!Rewarded(n.ledger, BlockId(block)) \/ due = 0
                THEN n.ledger
                ELSE Token!Mint(n.ledger, "reward", BlockId(block), block.height,
                                Coordinator, due)
    IN  Audited([n EXCEPT !.ledger = paid], <<"token.reward.issued", BlockId(block)>>)

AllSupport == [a \in Agent |-> "support"]

\* Fault: the second block of a call is not rewarded.
ForceAcceptedUnpaid(n, c) ==
    IF n.core.results[<<c, "vote">>] = "accepted" THEN n
    ELSE Decide(n, <<c, "approved">>, AllSupport)

\* Transfers and bridge runs are never turned down: what the vote rejected is
\* proposed once more, with every node supporting it.
ForceAccepted(n, c) ==
    IF n.core.results[<<c, "vote">>] = "accepted" THEN n
    ELSE SettleValidationReward(Decide(n, <<c, "approved">>, AllSupport))

\* The block that carries a transfer: the accepted one of its call.
CarrierOf(n, c) ==
    CHOOSE b \in {n.core.chain[i] : i \in DOMAIN n.core.chain} :
        b.proposal[1] = c /\ b.status = "accepted"

\* The arguments of recordTransfer.
TransferOf(n, c) ==
    [ from |-> Request[c].from, to |-> Request[c].to, amount |-> Request[c].amount,
      nonce |-> Request[c].nonce, validator |-> Coordinator,
      ref |-> BlockId(CarrierOf(n, c)), height |-> CarrierOf(n, c).height,
      memoBytes |-> 0 ]

-----------------------------------------------------------------------------
(* Snapshots *)

\* No snapshot: a record like them, so that it can be compared with them.
None == [snapshot |-> "none"]

\* getSnapshot, which persistRuntimeState saves: the coordinator's bridge artifacts, or
\* the reports of its registry while it has none.
Snapshot(n) ==
    [ agents |-> n.keys, proposals |-> n.core.proposals, chain |-> n.core.chain,
      history |-> n.core.history, score |-> n.core.score,
      ledger |-> n.ledger, audit |-> n.audit,
      runs |-> IF n.artifacts # {} THEN n.artifacts ELSE n.registry ]

\* The foreign keys of the fee events: a fee is paid by an agent to an agent.
Storable(snapshot) ==
    \A i \in DOMAIN snapshot.ledger.fees :
        {snapshot.ledger.fees[i].payer, snapshot.ledger.fees[i].payee} \subseteq Agent

\* Fault: the events are not selected by proposal.
EventsOfFirst(history, p) == history[1].events

\* selectReputationEvents
EventsOf(history, p) ==
    LET i == CHOOSE j \in DOMAIN history : history[j].proposal = p
    IN  history[i].events

\* restoreNode replays the blocks by height, each as a broadcast.
RestoreCore(s) ==
    LET Replay[i \in 0 .. Len(s.chain)] ==
            IF i = 0 THEN [InitCore EXCEPT !.proposals = s.proposals]
            ELSE ApplyFinalizationBroadcast(Replay[i - 1],
                     [ block |-> s.chain[i],
                       events |-> EventsOf(s.history, s.chain[i].proposal) ])
    IN  Replay[Len(s.chain)]

\* The proposals are submitted first, so their audit events get new ids; then
\* the events of the snapshot that are not there yet are appended.
RestoreAudit(s) ==
    Registrations \cup s.audit
    \cup {<<"proposal.submitted", s.chain[i].proposal, Cardinality(Agent) + i - 1>> :
             i \in DOMAIN s.chain}

\* New nodes.
Fresh(keys) ==
    [ keys |-> keys, core |-> InitCore, audit |-> Registrations,
      ledger |-> Token!EmptyLedger, registry |-> {}, artifacts |-> {} ]

NoKeys == [a \in Agent |-> NoKey]
Unused == Fresh(NoKeys)

\* restoreNode.  Rows that were created in the same millisecond may come back in
\* another order, but nothing reads the order of a journal.
Restore(n, s) ==
    [n EXCEPT !.core = RestoreCore(s), !.audit = RestoreAudit(s),
              !.ledger = s.ledger, !.registry = s.runs]

\* Fault: the mirror is asked first.
SourceMirrorFirst == IF mirror # None THEN mirror ELSE db

\* restoreRuntimeState reads the rows of the snapshot that was committed last, or
\* else the mirror.
Source == IF db # None THEN db ELSE mirror

\* cacheSnapshot; without a connection to Redis it does nothing.
Cached(snapshot) ==
    IF scenario.redis /\ phase # "down" THEN snapshot ELSE mirror

\* ensureGenesisTokenState
EnsureGenesis(n) ==
    IF Token!Seeded(n.ledger) THEN n
    ELSE Audited([n EXCEPT !.ledger = Token!SeedGenesis(@, AgentOrder)],
                 <<"token.genesis.seeded">>)

-----------------------------------------------------------------------------
(* The process *)

Init ==
    /\ scenario \in Scenario
    /\ phase = "down"
    /\ net = Unused
    /\ replica = Token!EmptyLedger
    /\ gossip = {}
    /\ call = [c \in Call |-> "idle"]
    /\ pending = [s \in Saver |-> None]
    /\ committed = {}
    /\ db = None /\ mirror = None /\ slots = NoKeys
    /\ reset = "none"
    /\ crashes = 0 /\ resets = 0
    /\ alone = TRUE /\ cleared = {}

\* persistRuntimeState takes the snapshot before its first await.
StartSave(s, n) == pending' = [pending EXCEPT ![s] = Snapshot(n)]

\* Fault: any identity that is found will do.
AllIdentitiesAnyFound == \E a \in Agent : slots[a] # NoKey

\* Identities are taken from the database only when every profile has one.
AllIdentities == \A a \in Agent : slots[a] # NoKey

\* loadOrCreateIdentities, up to its save: the process that generates a key is
\* told by the number of those that ended before it.  stop() has disconnected,
\* so no save outlives it.
LoadIdentities ==
    /\ phase = "down"
    /\ \A s \in Saver : pending[s] = None
    /\ phase' = "identifying"
    /\ net' = Fresh(IF AllIdentities THEN slots ELSE [a \in Agent |-> crashes])
    /\ UNCHANGED <<replica, gossip, call, saving, store, control, alone>>

\* saveNodeIdentities: one statement per slot, in order, with no transaction.
SaveIdentity ==
    /\ phase = "identifying"
    /\ slots # net.keys
    /\ LET i == CHOOSE j \in DOMAIN AgentOrder :
                    /\ slots[AgentOrder[j]] # net.keys[AgentOrder[j]]
                    /\ \A k \in 1 .. j - 1 :
                          slots[AgentOrder[k]] = net.keys[AgentOrder[k]]
       IN  slots' = [slots EXCEPT ![AgentOrder[i]] = net.keys[AgentOrder[i]]]
    /\ UNCHANGED <<memory, call, saving, db, mirror, control, alone>>

\* The rest of start(): restore, which mirrors what the database has, seed, save.
RestoreRuntime ==
    /\ phase = "identifying"
    /\ slots = net.keys
    /\ phase' = "starting"
    /\ net' = EnsureGenesis(IF Source = None THEN net ELSE Restore(net, Source))
    /\ replica' = net'.ledger
    /\ mirror' = IF db = None THEN mirror ELSE Cached(db)
    /\ StartSave(Boot, net')
    /\ UNCHANGED <<gossip, call, committed, db, slots, control, alone>>

Active == {c \in Call : call[c] \notin {"idle", "ok", "failed", "lost"}}

\* The nodes are gone, and with them what they held.
Vanish ==
    /\ phase' = "down"
    /\ net' = Unused
    /\ replica' = Token!EmptyLedger
    /\ gossip' = {}

\* The process ends.
End ==
    /\ phase # "down"
    /\ crashes < scenario.crashes
    /\ crashes' = crashes + 1
    /\ Vanish
    /\ call' = [c \in Call |-> IF c \in Active THEN "lost" ELSE call[c]]
    /\ pending' = [s \in Saver |-> None]
    /\ committed' = {}
    /\ reset' = "none" /\ alone' = TRUE
    /\ UNCHANGED <<store, scenario, resets, cleared>>

-----------------------------------------------------------------------------
(* Saves.  The transaction of a save commits or is rolled back, then Redis    *)
(* is told, then the caller goes on.                                          *)

\* Where a call goes on once its snapshot is saved.  What is left of a transfer
\* or a bridge run raises when the nodes are gone.
AfterSave(c) ==
    CASE call[c] = "settling" \/ Request[c].kind = "proposal" -> "ok"
      [] call[c] = "deciding" /\ Request[c].kind # "proposal" ->
            IF phase = "up" THEN "decided" ELSE "failed"

\* The order of two commits is the database's.
CommitSave(s) ==
    /\ pending[s] # None /\ s \notin committed
    /\ Storable(pending[s])
    /\ db' = pending[s]
    /\ committed' = committed \cup {s}
    /\ UNCHANGED <<memory, call, pending, mirror, slots, control, alone>>

EndSave(s) ==
    /\ pending' = [pending EXCEPT ![s] = None]
    /\ committed' = committed \ {s}

MirrorSave(c) ==
    /\ c \in committed
    /\ mirror' = Cached(pending[c])
    /\ EndSave(c)
    /\ call' = [call EXCEPT ![c] = AfterSave(c)]
    /\ UNCHANGED <<memory, db, slots, control, alone>>

\* A row violates a foreign key, an overlapping save has written the same rows,
\* the transaction takes too long, or the database or Redis is away: the error
\* reaches the caller.
FailSave(c) ==
    /\ pending[c] # None
    /\ EndSave(c)
    /\ call' = [call EXCEPT ![c] = "failed"]
    /\ UNCHANGED <<memory, store, control, alone>>

\* The save at the end of start(); a reset is answered now.  A bootstrap whose save
\* fails ends the process, which is End.
FinishStart ==
    /\ Boot \in committed
    /\ mirror' = Cached(pending[Boot])
    /\ EndSave(Boot)
    /\ phase' = "up"
    /\ reset' = "none" /\ alone' = TRUE
    /\ UNCHANGED <<net, replica, gossip, call, db, slots, scenario, crashes, resets,
                   cleared>>

\* The save at the end of a reset fails: the reset is answered with an error, but
\* the nodes are up.
FailStart ==
    /\ reset = "stopped"
    /\ pending[Boot] # None
    /\ EndSave(Boot)
    /\ phase' = "up"
    /\ reset' = "none" /\ alone' = TRUE
    /\ UNCHANGED <<net, replica, gossip, call, store, scenario, crashes, resets,
                   cleared>>

-----------------------------------------------------------------------------
(* Reset *)

Reset ==
    /\ phase = "up" /\ reset = "none"
    /\ resets < scenario.resets
    /\ resets' = resets + 1
    /\ reset' = "clearing"
    /\ alone' = (Active = {})
    /\ UNCHANGED <<memory, call, saving, store, scenario, crashes, cleared>>

\* clearRuntimeState: one transaction, which leaves the identities.  It is one step
\* here, and a save commits before it or after it; of a save that overlaps it in the
\* database, which isolates them no further than READ COMMITTED, some rows may stay.
ClearDatabase ==
    /\ reset = "clearing"
    /\ reset' = "unmirroring"
    /\ db' = None
    /\ cleared' = {c \in Call : call[c] # "idle"}
    /\ UNCHANGED <<memory, call, saving, mirror, slots, scenario, crashes, resets,
                   alone>>

\* Fault: the mirror is left.
KeepMirror ==
    /\ reset = "unmirroring"
    /\ reset' = "stopping"
    /\ UNCHANGED <<memory, call, saving, store, scenario, crashes, resets, alone,
                   cleared>>

\* Then Redis.
ClearMirror ==
    /\ reset = "unmirroring"
    /\ reset' = "stopping"
    /\ mirror' = None
    /\ UNCHANGED <<memory, call, saving, db, slots, scenario, crashes, resets, alone,
                   cleared>>

\* The database or Redis refuses: the reset is answered with an error and the
\* nodes go on.
FailReset ==
    /\ reset \in {"clearing", "unmirroring"}
    /\ reset' = "none" /\ alone' = TRUE
    /\ UNCHANGED <<memory, call, saving, store, scenario, crashes, resets, cleared>>

\* stop(): a call that still has something to do at the nodes will raise "Local
\* network is not started"; a save may still end before the disconnection does.
Stop ==
    /\ reset = "stopping"
    /\ reset' = "stopped"
    /\ Vanish
    /\ call' = [c \in Call |-> IF c \in Active /\ pending[c] = None
                              THEN "failed" ELSE call[c]]
    /\ UNCHANGED <<saving, store, scenario, crashes, resets, alone, cleared>>

-----------------------------------------------------------------------------
(* Calls *)

Step(c, from, to) ==
    /\ phase = "up"
    /\ call[c] = from
    /\ call' = [call EXCEPT ![c] = to]
    /\ UNCHANGED <<phase, committed, store, control>>

\* submitProposal, which every call begins with, up to its save.
SubmitCall(c) ==
    /\ Cardinality(Active) < scenario.active
    /\ Step(c, "idle", "deciding")
    /\ \E ballot \in Ballots :
          net' = SettleValidationReward(Decide(net, <<c, "vote">>, ballot))
    /\ replica' = net'.ledger
    /\ StartSave(c, net')
    /\ alone' = (alone /\ reset = "none")
    /\ UNCHANGED gossip

\* Fault: the snapshot is taken before the transfer is recorded.
SettleTransferSavedEarly(c) ==
    LET n == ForceAccepted(net, c)
        t == TransferOf(n, c)
        settled == Audited([n EXCEPT !.ledger = Token!Transfer(@, t)],
                           <<"token.transfer.settled", t.ref>>)
    IN  /\ Request[c].kind = "transfer"
        /\ Token!TransferAllowed(n.ledger, t)
        /\ Step(c, "decided", "settling")
        /\ net' = settled
        /\ replica' = settled.ledger
        /\ StartSave(c, n)
        /\ UNCHANGED <<gossip, alone>>

\* transferTokens behind its submitProposal.  The ledger of every node is the
\* coordinator's again when the transfer, or the reward of the second block, has
\* been recorded.
SettleTransfer(c) ==
    LET n == ForceAccepted(net, c)
        t == TransferOf(n, c)
        settled == Audited([n EXCEPT !.ledger = Token!Transfer(@, t)],
                           <<"token.transfer.settled", t.ref>>)
    IN  /\ Request[c].kind = "transfer"
        /\ Token!TransferAllowed(n.ledger, t)
        /\ Step(c, "decided", "settling")
        /\ net' = settled
        /\ replica' = settled.ledger
        /\ StartSave(c, settled)
        /\ UNCHANGED <<gossip, alone>>

\* recordTransfer raises: the blocks and their rewards stay, unsaved.
RefuseTransfer(c) ==
    LET n == ForceAccepted(net, c)
        t == TransferOf(n, c)
    IN  /\ Request[c].kind = "transfer"
        /\ ~Token!TransferAllowed(n.ledger, t)
        /\ Step(c, "decided", "failed")
        /\ net' = [n EXCEPT !.ledger = Token!Ensure(@, Token!TransferOwners(t))]
        /\ replica' = IF n = net THEN replica ELSE n.ledger
        /\ UNCHANGED <<gossip, pending, alone>>

\* executeBridge behind its submitProposal, up to the adapter.
ApproveBridge(c) ==
    /\ Request[c].kind = "bridge"
    /\ Step(c, "decided", "executing")
    /\ net' = ForceAccepted(net, c)
    /\ replica' = IF net' = net THEN replica ELSE net'.ledger
    /\ UNCHANGED <<gossip, pending, alone>>

BridgePayee(c) == Token!FeeCollector(Request[c].from, Coordinator)

\* The request named no adapter of the registry: the approval stays, unsaved.
UnknownAdapter(c) ==
    /\ Step(c, "executing", "failed")
    /\ UNCHANGED <<net, replica, gossip, pending, alone>>

\* executeWithConsensus, once it knows the adapter: each way out of it, blocked,
\* invalid, executed or recovered, leaves one report.
Reported(n, c) == [n EXCEPT !.registry = @ \cup {c}]

\* The adapter has answered: AgentNode.executeBridge charges the fee and
\* publishes the run.
ChargeBridge(c) ==
    LET fee == Token!FeeEvent(c, "bridge", Request[c].from, BridgePayee(c),
                              Request[c].amount)
    IN  /\ Step(c, "executing", "publishing")
        /\ Token!FeeAllowed(net.ledger, fee.payer, fee.amount)
        /\ net' = [Reported(net, c) EXCEPT
                     !.artifacts = @ \cup {c},
                     !.ledger = Token!PayFee(@, c, "bridge", fee.payer, fee.payee,
                                             fee.amount)]
        /\ gossip' = gossip \cup {fee}
        /\ UNCHANGED <<replica, pending, alone>>

\* The run was executed, but the payer cannot pay: its report stays.
RefuseBridge(c) ==
    /\ Step(c, "executing", "failed")
    /\ ~Token!FeeAllowed(net.ledger, Request[c].from, Request[c].amount)
    /\ net' = [Reported(net, c) EXCEPT
                 !.ledger = Token!Ensure(@, {Request[c].from, BridgePayee(c)})]
    /\ UNCHANGED <<replica, gossip, pending, alone>>

\* Fault: the other nodes' ledgers are left to gossip.
FinishBridgeUncopied(c) ==
    /\ Step(c, "publishing", "settling")
    /\ net' = Audited(net, <<"token.fee.bridge", c>>)
    /\ StartSave(c, net')
    /\ UNCHANGED <<replica, gossip, alone>>

\* The run is published: copy the ledger, audit, save.
FinishBridge(c) ==
    /\ Step(c, "publishing", "settling")
    /\ net' = Audited(net, <<"token.fee.bridge", c>>)
    /\ replica' = net.ledger
    /\ StartSave(c, net')
    /\ UNCHANGED <<gossip, alone>>

\* A bridge fee reaches the other node by gossip (handleBridgeEnvelope).
DeliverFee(fee) ==
    /\ gossip' = gossip \ {fee}
    /\ replica' = Token!ImportFee(replica, fee)
    /\ UNCHANGED <<phase, net, call, saving, store, control, alone>>

CallStep(c) ==
    \/ SubmitCall(c) \/ MirrorSave(c) \/ FailSave(c)
    \/ SettleTransfer(c) \/ RefuseTransfer(c)
    \/ ApproveBridge(c) \/ UnknownAdapter(c) \/ ChargeBridge(c)
    \/ RefuseBridge(c) \/ FinishBridge(c)

Next ==
    \/ LoadIdentities \/ SaveIdentity \/ RestoreRuntime \/ FinishStart \/ FailStart
    \/ End
    \/ Reset \/ ClearDatabase \/ ClearMirror \/ FailReset \/ Stop
    \/ \E s \in Saver : CommitSave(s)
    \/ \E c \in DOMAIN Request : CallStep(c)
    \/ \E fee \in gossip : DeliverFee(fee)

Spec == Init /\ [][Next]_vars

-----------------------------------------------------------------------------
(* Properties *)

MemoryOK(n) ==
    /\ n.core.proposals \subseteq Proposal
    /\ n.core.results \in [Proposal -> FinalStatus \cup {"none"}]
    /\ n.core.score \in [Agent -> 0 .. MaxReputation]
    /\ n.ledger.balance \in [Token!Account -> Nat]
    /\ n.registry \subseteq Call /\ n.artifacts \subseteq Call

TypeOK ==
    /\ phase \in {"down", "identifying", "starting", "up"}
    /\ reset \in {"none", "clearing", "unmirroring", "stopping", "stopped"}
    /\ MemoryOK(net)
    /\ replica.balance \in [Token!Account -> Nat]
    /\ call \in [Call -> {"idle", "deciding", "decided", "executing", "publishing",
                          "settling", "ok", "failed", "lost"}]
    /\ \A c \in Call : call[c] \in {"deciding", "settling"} <=> pending[c] # None
    /\ phase = "starting" <=> pending[Boot] # None
    /\ committed \subseteq {s \in Saver : pending[s] # None}
    /\ slots \in [Agent -> 0 .. scenario.crashes \cup {NoKey}]

Blocks(chain) == {chain[i] : i \in DOMAIN chain}

Events(kind) ==
    {i \in DOMAIN net.ledger.events : net.ledger.events[i].kind = kind}

\* Every block that the schedule rewards has paid its validator, exactly once: the
\* second block of a call, calls that interleave and restarts from any snapshot
\* included.  Only a supply that is used up leaves blocks unpaid.
RewardPerBlock ==
    LET paid == {net.ledger.events[i].ref : i \in Events("reward")}
        owed == {BlockId(b) : b \in {d \in Blocks(net.core.chain) :
                                       Token!RewardForBlock(d.height) > 0}}
    IN  /\ paid \subseteq owed
        /\ net.ledger.minted < MaxSupply => paid = owed
        /\ \A i, j \in Events("reward") :
              net.ledger.events[i].ref = net.ledger.events[j].ref => i = j

\* A transfer moves $FURGE on the strength of an accepted block of the chain, at
\* most one transfer per block, and a request that is made twice, before or
\* after a restart, is settled once (its nonce is used up).
TransfersAreCarried ==
    /\ \A i \in Events("transfer") :
          \E b \in Blocks(net.core.chain) :
             b.status = "accepted" /\ BlockId(b) = net.ledger.events[i].ref
    /\ \A i, j \in Events("transfer") :
          LET e == net.ledger.events[i]
              f == net.ledger.events[j]
          IN  e.ref = f.ref \/ <<e.from, e.nonce>> = <<f.from, f.nonce>> => i = j

\* The ledger of every node is the coordinator's whenever no call has a fee it
\* has not copied yet, in whatever order gossip and the copies come.
FollowersAgree ==
    (\A c \in Call : call[c] # "publishing") =>
        /\ replica.balance = net.ledger.balance
        /\ replica.nonce = net.ledger.nonce
        /\ replica.events = net.ledger.events

\* A start brings back what was saved, from the database or else from the mirror:
\* the chain, intact, the outcomes, the accounts, the journals as sets, and the
\* reputations, which are not read from their own column but replayed from the
\* events of the blocks.  The audit trail loses no event, and gets longer by no more
\* than the proposals of the blocks, which are submitted again.
RestoredExactly ==
    [][phase = "identifying" /\ phase' = "starting" /\ Source # None
         => /\ net'.core.chain = Source.chain /\ VerifyChain(net'.core.chain)
            /\ net'.core.score = Source.score
            /\ \A b \in Blocks(Source.chain) :
                  net'.core.results[b.proposal] = b.status
            /\ \A part \in {"accounts", "balance", "nonce", "minted"} :
                  net'.ledger[part] = Source.ledger[part]
            /\ \A part \in {"events", "fees"} :
                  {net'.ledger[part][i] : i \in DOMAIN net'.ledger[part]}
                     = {Source.ledger[part][i] : i \in DOMAIN Source.ledger[part]}
            /\ Source.audit \subseteq net'.audit
            /\ \A e \in net'.audit \ Source.audit :
                  /\ e[1] = "proposal.submitted"
                  /\ \E b \in Blocks(Source.chain) : b.proposal = e[2]]_vars

\* The snapshots are those of the nodes whose keys are stored, all of them: a first
\* start that is cut off while it saves the identities leaves no runtime behind
\* that the identities of the next start do not fit.
SnapshotFitsIdentities ==
    \A s \in {db, mirror} \ {None} :
        s.agents = slots /\ \A a \in Agent : slots[a] # NoKey

\* "The current runtime snapshot is durably persisted in PostgreSQL": when calls are
\* made one at a time, what was answered with success is in the database, unless
\* a reset cleared it.
AcknowledgedIsDurable ==
    scenario.active = 1 =>
        \A c \in Call \ cleared : call[c] = "ok" =>
            /\ db # None
            /\ \E b \in Blocks(db.chain) : b.proposal = <<c, "vote">>
            /\ Request[c].kind = "transfer" =>
                  \E i \in DOMAIN db.ledger.events :
                     /\ db.ledger.events[i].kind = "transfer"
                     /\ db.ledger.events[i].ref[1][1] = c
            /\ Request[c].kind = "bridge" =>
                  \E i \in DOMAIN db.ledger.fees : db.ledger.fees[i].id[1] = c

\* A snapshot t has every block, token event and fee of s.
Extends(s, t) ==
    /\ Blocks(s.chain) \subseteq Blocks(t.chain)
    /\ {s.ledger.events[i] : i \in DOMAIN s.ledger.events}
         \subseteq {t.ledger.events[i] : i \in DOMAIN t.ledger.events}
    /\ {s.ledger.fees[i].id : i \in DOMAIN s.ledger.fees}
         \subseteq {t.ledger.fees[i].id : i \in DOMAIN t.ledger.fees}

\* A save deletes all rows and writes those of the snapshot it was made from, and saves
\* commit in any order.  Yet the database stays with one history: a commit takes it
\* forward, or back to an earlier moment of the same history when calls overlap,
\* and never back, over any number of restarts, when they do not.
StoredHistory ==
    [][db # None /\ db' # None
         => /\ Extends(db, db') \/ Extends(db', db)
            /\ scenario.active = 1 => Extends(db, db')]_vars

\* A reset that no call overlaps leaves nothing: the nodes start again from the
\* genesis, with nothing from the database or the mirror.
ResetForgets ==
    [][reset = "stopped" /\ phase' = "starting" /\ alone
         => net' = EnsureGenesis(Fresh(slots))]_vars

\* Every snapshot can be saved.
SnapshotsAreStorable ==
    \A c \in Call : pending[c] # None => Storable(pending[c])

\* The durable path persists bridge runs: a run that was saved stays saved, unless it
\* is reset.
BridgeRunsStay ==
    [][db # None /\ db' # None => db.runs \subseteq db'.runs]_vars
===============================================================================
