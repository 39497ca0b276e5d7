------------------------------ MODULE TokenLedger ------------------------------
(***************************************************************************)
(* One FurgeFeeLedger and its callers: LocalNetwork seeds it, rewards the  *)
(* validator of each block, settles transfers; AgentNode charges bridge    *)
(* fees and imports those of other nodes.  Every public operation that     *)
(* changes the state is an action, a refused call included, but for two:   *)
(* recordCoordinationFee, which nobody calls, is recordBridgeFee with      *)
(* another kind, and importState replaces the whole ledger (LocalNetwork). *)
(***************************************************************************)
EXTENDS FurgeFeeLedger, FiniteSetsExt

CONSTANTS
    AgentOrder,     \* the order in which LocalNetwork passes the agents
    Validator,      \* the agents paid for validating: LocalNetwork's coordinator
    Run,            \* bridge runs, the references of bridge fees
    MaxHeight,      \* bound on the block heights
    MaxAmount,      \* bound on the amount of one transfer or fee
    MaxNonce,       \* bound on the nonces requested
    MemoSizes,      \* memo lengths tried
    MaxEvents       \* bound on the journal

ASSUME LedgerAssumption ==
    /\ IsFiniteSet(Agent)
    /\ AgentOrder \in Seq(Agent)
    /\ \A i, j \in DOMAIN AgentOrder : AgentOrder[i] = AgentOrder[j] => i = j
    /\ Validator \subseteq Agent
    /\ {MaxHeight, MaxAmount, MaxNonce, MaxEvents} \subseteq Nat
    /\ MemoSizes \subseteq Nat

VARIABLE ledger

Init == ledger = EmptyLedger

Genesis ==
    /\ ~Seeded(ledger)
    /\ ledger' = SeedGenesis(ledger, AgentOrder)

\* settleValidationReward: a block rewards its validator, its id is the reference.
Reward(validator, height) ==
    /\ ~Rewarded(ledger, height)
    /\ RewardDue(ledger, height) \in 1 .. Remaining(ledger)
    /\ ledger' = Mint(ledger, "reward", height, height, validator,
                      RewardDue(ledger, height))

\* The arguments recordTransfer can be called with.
Request ==
    [ from : Agent, to : Agent, amount : 0 .. MaxAmount,
      nonce : 0 .. MaxNonce, validator : Validator, ref : 1 .. MaxHeight,
      height : 1 .. MaxHeight, memoBytes : MemoSizes ]

\* The block that carries a transfer is its reference.
SettleTransfer(t) ==
    /\ t.ref = t.height
    /\ TransferAllowed(ledger, t)
    /\ ledger' = Transfer(ledger, t)

RefuseTransfer(t) ==
    /\ t.ref = t.height
    /\ ~TransferAllowed(ledger, t)
    /\ ledger' = Ensure(ledger, TransferOwners(t))

RecordBridgeFee(payer, preferred, run, amount) ==
    /\ FeeAllowed(ledger, payer, amount)
    /\ ledger' = PayFee(ledger, run, "bridge", payer, FeeCollector(payer, preferred), amount)

RefuseBridgeFee(payer, preferred, amount) ==
    /\ ~FeeAllowed(ledger, payer, amount)
    /\ ledger' = Ensure(ledger, {payer, FeeCollector(payer, preferred)})

\* A bridge fee another node recorded.
ImportEvent(payer, preferred, run, amount) ==
    ledger' = ImportFee(ledger,
                  FeeEvent(run, "bridge", payer, FeeCollector(payer, preferred), amount))

\* Looking an account up creates it.
GetAgentAccount(a) == ledger' = Ensure(ledger, {a})

Next ==
    /\ Len(ledger.events) < MaxEvents
    /\ \/ Genesis
       \/ \E v \in Validator, h \in 1 .. MaxHeight : Reward(v, h)
       \/ \E t \in Request : SettleTransfer(t) \/ RefuseTransfer(t)
       \/ \E p, q \in Agent, r \in Run, x \in 1 .. MaxAmount :
             RecordBridgeFee(p, q, r, x) \/ ImportEvent(p, q, r, x)
       \/ \E p, q \in Agent, x \in 1 .. MaxAmount : RefuseBridgeFee(p, q, x)
       \/ \E a \in Agent : GetAgentAccount(a)

Spec == Init /\ [][Next]_ledger

-----------------------------------------------------------------------------
(* Properties *)

MintKinds == {"genesis", "reward"}

TokenEvent ==
    [ kind : MintKinds, ref : Account \cup Nat, height : Nat, to : Account, amount : Nat ]
    \cup
    [ kind : {"transfer", "fee_settlement"}, ref : Nat \cup Run, height : Nat,
      from : Account, to : Account, amount : Nat, nonce : Nat ]

FeeRecord ==
    [ id : (Nat \cup Run) \X {"coordination", "bridge"},
      payer : Account, payee : Account, amount : Nat ]

Ledger ==
    [ accounts : SUBSET Account, balance : [Account -> Nat], nonce : [Account -> Nat],
      minted : Nat, events : Seq(TokenEvent), fees : Seq(FeeRecord) ]

TypeOK == ledger \in Ledger

\* The indices of the events that issue supply, and of those that debit.
Mints == {i \in DOMAIN ledger.events : ledger.events[i].kind \in MintKinds}

Debits == DOMAIN ledger.events \ Mints

Amounts(indices) == MapThenSumSet(LAMBDA i : ledger.events[i].amount, indices)

\* Fixed max supply: no sequence of genesis grants and rewards mints more than
\* the cap, and the reward that would cross it is cut to what is left.
SupplyCap == ledger.minted <= MaxSupply

\* The journal tells the whole state: each balance is what the events credit to
\* the account less what they debit, and the supply is what they mint.  A fee
\* collected by the recipient of the transfer is not lost, nor collected twice.
JournalReplays ==
    /\ ledger.minted = Amounts(Mints)
    /\ \A a \in Account :
          ledger.balance[a] =
              Amounts({i \in DOMAIN ledger.events : ledger.events[i].to = a})
              - Amounts({i \in Debits : ledger.events[i].from = a})

\* The fee event of a transfer comes right behind it and shares its nonce.
FeeOfTransfer(i) ==
    i - 1 \in DOMAIN ledger.events /\ ledger.events[i - 1].kind = "transfer"

\* Double-spend prevention: the payments of an account use up the nonces below
\* its own one after the other, each exactly once.
NoncesConsumedOnce ==
    \A a \in Account :
        LET payments == {i \in Debits : ledger.events[i].from = a /\ ~FeeOfTransfer(i)}
        IN  /\ {ledger.events[i].nonce : i \in payments} = 0 .. ledger.nonce[a] - 1
            /\ \A i, j \in payments : ledger.events[i].nonce = ledger.events[j].nonce => i = j

\* A block is rewarded once, whoever asks again.
RewardedOnce ==
    \A i, j \in Mints :
        /\ ledger.events[i].kind = "reward" /\ ledger.events[j].kind = "reward"
        /\ ledger.events[i].ref = ledger.events[j].ref
        => i = j

\* The next halving is announced for the right block, if the block announced is the
\* last one of its epoch: the reward of every block up to it is today's, and the
\* block after it is in the next epoch.  (The console's "Next halving at block" may
\* be read as the first block of that epoch, which is one later.)
HalvingAnnounced ==
    LET next == NextRewardBlock(ledger)
        last == NextHalving(ledger)
    IN  /\ next <= last
        /\ \A b \in next .. last : RewardForBlock(b) = RewardForBlock(next)
        /\ Epoch(last + 1) = Epoch(next) + 1

\* Nothing moves off the record: a call that appends no event, because it was
\* refused or had been done before, leaves every balance, nonce and the supply.
RefusalMovesNothing ==
    [][ledger'.events = ledger.events
         => /\ ledger'.balance = ledger.balance
            /\ ledger'.nonce = ledger.nonce
            /\ ledger'.minted = ledger.minted]_ledger

Asset == INSTANCE FixedCapAsset WITH
            Holder <- Account, Cap <- MaxSupply,
            holdings <- ledger.balance, issued <- ledger.minted

\* The ledger is a fixed-cap asset: supply appears only by minting, and a
\* payment takes from one account what it gives to the others.
ImplementsAsset == Asset!Spec
================================================================================
