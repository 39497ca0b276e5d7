---------------------------- MODULE FurgeFeeLedger ----------------------------
(***************************************************************************)
(* FurgeFeeLedger of packages/tokenomics: the $FURGE account ledger, as    *)
(* operators from a ledger to the next.  A ledger is a record              *)
(*                                                                         *)
(*   accounts  the accounts that exist (ensureAccount)                     *)
(*   balance   per account, 0 while it does not exist                      *)
(*   nonce     per account, 0 while it does not exist                      *)
(*   minted    mintedSupply                                                *)
(*   events    tokenEvents, oldest first                                   *)
(*   fees      feeEvents, oldest first                                     *)
(*                                                                         *)
(* An agent stands for its account "agent:<id>", Treasury for the account  *)
(* "system:protocol-treasury".  Amounts are integers that count the unit   *)
(* of roundTokenAmount, 0.000001 $FURGE, so a rounded sum or difference is *)
(* exact and only a rate or a halving needs rounding.  Time stamps and the *)
(* metadata of events are left out; an event id is the pair it is hashed   *)
(* from, a reference and a kind.                                           *)
(***************************************************************************)
EXTENDS Integers, Sequences

CONSTANTS
    Agent,              \* agent ids
    Treasury,           \* PROTOCOL_TREASURY_OWNER_ID
    MaxSupply,          \* the policy, in units of 0.000001 $FURGE
    GenesisTreasury,    \* genesisTreasuryAllocation
    GenesisGrant,       \* genesisAgentGrant
    InitialReward,
    HalvingInterval,
    BaseFee,            \* baseTransferFee
    FeeRate,            \* transferFeeRate, as a fraction
    FeeRateBase,        \*   FeeRate / FeeRateBase
    EpochFeeStep,
    MemoByteFee         \* 0.0001 $FURGE

\* A base fee of 0 is left out.  No code overrides that of the default policy, and
\* ProtocolFeeEventSchema refuses a fee of 0 when recordTransfer has written the
\* accounts already: the transfer would move its amount without a token event.
ASSUME PolicyAssumption ==
    /\ Treasury \notin Agent
    /\ MaxSupply \in Nat /\ GenesisTreasury \in Nat /\ GenesisGrant \in Nat
    /\ InitialReward \in Nat /\ HalvingInterval \in Nat \ {0}
    /\ BaseFee \in Nat \ {0} /\ FeeRate \in Nat /\ FeeRateBase \in Nat \ {0}
    /\ EpochFeeStep \in Nat /\ MemoByteFee \in Nat

Account == Agent \cup {Treasury}

EmptyLedger ==
    [ accounts |-> {},
      balance  |-> [a \in Account |-> 0],
      nonce    |-> [a \in Account |-> 0],
      minted   |-> 0,
      events   |-> <<>>,
      fees     |-> <<>> ]

\* ensureAccount, for several owners.
Ensure(L, owners) == [L EXCEPT !.accounts = @ \cup owners]

Remaining(L) == MaxSupply - L.minted

Least(x, y) == IF x < y THEN x ELSE y

\* Division rounded to the nearest unit, halves up, as toFixed(6) rounds.
Rounded(n, d) == (2 * n + d) \div (2 * d)

-----------------------------------------------------------------------------
(* Events *)

MintEvent(kind, ref, height, to, amount) ==
    [kind |-> kind, ref |-> ref, height |-> height, to |-> to, amount |-> amount]

DebitEvent(kind, ref, height, from, to, amount, nonce) ==
    [ kind |-> kind, ref |-> ref, height |-> height,
      from |-> from, to |-> to, amount |-> amount, nonce |-> nonce ]

FeeEvent(ref, kind, payer, payee, amount) ==
    [id |-> <<ref, kind>>, payer |-> payer, payee |-> payee, amount |-> amount]

\* An event about no block has no blockHeight.
NoHeight == 0

-----------------------------------------------------------------------------
(* Issuance *)

Epoch(height) == (height - 1) \div HalvingInterval

\* calculateRewardForBlock
RewardForBlock(height) ==
    IF height <= 0 THEN 0 ELSE Rounded(InitialReward, 2 ^ Epoch(height))

\* creditAccount.  Its callers keep within the cap, so it does not raise here.
Mint(L, kind, ref, height, to, amount) ==
    [Ensure(L, {to}) EXCEPT
        !.minted = @ + amount,
        !.balance[to] = @ + amount,
        !.events = Append(@, MintEvent(kind, ref, height, to, amount))]

\* seedGenesis does nothing on a ledger that has events.
Seeded(L) == L.events # <<>>

\* Fault: the grants are not held against the cap.
GrantsToAll(room, n) == n

\* The grants that fit in what is left of the supply; the loop over the agents
\* raises at the first one that does not.
GrantsThatFit(room, n) ==
    IF n * GenesisGrant <= room THEN n ELSE room \div GenesisGrant

\* The treasury and fit agents are credited, in that order.
GenesisEvents(agents, fit) ==
    <<MintEvent("genesis", Treasury, NoHeight, Treasury, GenesisTreasury)>>
    \o [i \in 1 .. fit |->
           MintEvent("genesis", agents[i], NoHeight, agents[i], GenesisGrant)]

GenesisBalance(balance, paid) ==
    [a \in Account |->
        CASE a = Treasury -> balance[a] + GenesisTreasury
          [] a \in paid   -> balance[a] + GenesisGrant
          [] OTHER        -> balance[a]]

\* The accounts that exist once the loop is over or has raised: the owner whose
\* credit raises has got its account by then.
GenesisOwners(agents, fit) ==
    {Treasury} \cup {agents[i] : i \in 1 .. Least(fit + 1, Len(agents))}

\* seedGenesis
SeedGenesis(L, agents) ==
    IF GenesisTreasury > Remaining(L)
    THEN Ensure(L, {Treasury})
    ELSE LET fit == GrantsThatFit(Remaining(L) - GenesisTreasury, Len(agents))
         IN  [Ensure(L, GenesisOwners(agents, fit)) EXCEPT
                !.minted = @ + GenesisTreasury + fit * GenesisGrant,
                !.balance = GenesisBalance(@, {agents[i] : i \in 1 .. fit}),
                !.events = @ \o GenesisEvents(agents, fit)]

\* Fault: only the latest event is looked at.
RewardedLately(L, ref) ==
    /\ L.events # <<>>
    /\ LET last == L.events[Len(L.events)] IN last.kind = "reward" /\ last.ref = ref

\* recordValidationReward pays a reference once ...
Rewarded(L, ref) ==
    \E i \in DOMAIN L.events : L.events[i].kind = "reward" /\ L.events[i].ref = ref

\* ... what the schedule says, or the rest of the supply if that is less.
RewardDue(L, height) == Least(RewardForBlock(height), Remaining(L))

\* nextRewardBlockHeight and nextHalvingAtBlock
NextRewardBlock(L) ==
    LET heights == {L.events[i].height :
                       i \in {j \in DOMAIN L.events : L.events[j].kind = "reward"}}
    IN  IF heights = {} THEN 1
        ELSE (CHOOSE h \in heights : \A g \in heights : g <= h) + 1

\* Fault: a boundary block counts as being in the epoch it precedes.
NextHalvingLate(L) ==
    ((NextRewardBlock(L) + HalvingInterval) \div HalvingInterval) * HalvingInterval

NextHalving(L) ==
    ((NextRewardBlock(L) + HalvingInterval - 1) \div HalvingInterval) * HalvingInterval

-----------------------------------------------------------------------------
(* Transfers and fees *)

\* resolveFeeCollector: nobody collects a fee from himself.
FeeCollector(payer, preferred) == IF preferred # payer THEN preferred ELSE Treasury

\* estimateTransferFee
TransferFee(amount, height, memoBytes) ==
    BaseFee + Rounded(amount * FeeRate, FeeRateBase)
        + Epoch(height) * EpochFeeStep + memoBytes * MemoByteFee

\* Fault: the sender is not charged the fee.
TransferTotalWithoutFee(t) == t.amount

\* recordTransfer: a request is a record of its arguments.
TransferTotal(t) == t.amount + TransferFee(t.amount, t.height, t.memoBytes)

\* Fault: the nonce is not compared.
TransferAllowedAtAnyNonce(L, t) ==
    /\ t.amount > 0
    /\ t.from # t.to
    /\ L.balance[t.from] >= TransferTotal(t)

\* The checks of recordTransfer.
TransferAllowed(L, t) ==
    /\ t.amount > 0
    /\ t.from # t.to
    /\ t.nonce = L.nonce[t.from]
    /\ L.balance[t.from] >= TransferTotal(t)

\* Fault: the validator's balance is not read again when it is the recipient's.
TransferBalancesStale(L, t) ==
    LET validator == FeeCollector(t.from, t.validator)
        fee == TransferFee(t.amount, t.height, t.memoBytes)
        paid == [L.balance EXCEPT ![t.from] = L.balance[t.from] - TransferTotal(t),
                                  ![t.to] = L.balance[t.to] + t.amount]
    IN  [paid EXCEPT ![validator] = L.balance[validator] + fee]

\* The balances recordTransfer writes: it has read the three accounts before,
\* and reads the validator's again when it is the recipient's.
TransferBalances(L, t) ==
    LET validator == FeeCollector(t.from, t.validator)
        fee == TransferFee(t.amount, t.height, t.memoBytes)
        paid == [L.balance EXCEPT ![t.from] = L.balance[t.from] - TransferTotal(t),
                                  ![t.to] = L.balance[t.to] + t.amount]
        base == IF validator = t.to THEN paid[t.to] ELSE L.balance[validator]
    IN  [paid EXCEPT ![validator] = base + fee]

\* The three accounts exist even when the transfer is refused.
TransferOwners(t) == {t.from, t.to, FeeCollector(t.from, t.validator)}

Transfer(L, t) ==
    LET validator == FeeCollector(t.from, t.validator)
        fee == TransferFee(t.amount, t.height, t.memoBytes)
    IN  [Ensure(L, TransferOwners(t)) EXCEPT
            !.balance = TransferBalances(L, t),
            !.nonce[t.from] = @ + 1,
            !.events = @ \o << DebitEvent("transfer", t.ref, t.height, t.from, t.to,
                                          t.amount, t.nonce),
                               DebitEvent("fee_settlement", t.ref, t.height, t.from,
                                          validator, fee, t.nonce) >>,
            !.fees = Append(@, FeeEvent(t.ref, "coordination", t.from, validator, fee))]

\* Fault: a fee may overdraw the payer.
FeeAlwaysAllowed(L, payer, amount) == TRUE

\* recordFeeSettlement, recordBridgeFee and recordCoordinationFee
FeeAllowed(L, payer, amount) == L.balance[payer] >= amount

\* Fault: a fee does not use up a nonce of the payer.
PayFeeWithoutNonce(L, ref, kind, payer, payee, amount) ==
    [Ensure(L, {payer, payee}) EXCEPT
        !.balance = [@ EXCEPT ![payer] = L.balance[payer] - amount,
                              ![payee] = L.balance[payee] + amount],
        !.events = Append(@, DebitEvent("fee_settlement", ref, NoHeight, payer, payee,
                                        amount, L.nonce[payer])),
        !.fees = Append(@, FeeEvent(ref, kind, payer, payee, amount))]

\* The effect of a fee on the accounts, recorded here or imported.
PayFee(L, ref, kind, payer, payee, amount) ==
    [Ensure(L, {payer, payee}) EXCEPT
        !.balance = [@ EXCEPT ![payer] = L.balance[payer] - amount,
                              ![payee] = L.balance[payee] + amount],
        !.nonce[payer] = @ + 1,
        !.events = Append(@, DebitEvent("fee_settlement", ref, NoHeight, payer, payee,
                                        amount, L.nonce[payer])),
        !.fees = Append(@, FeeEvent(ref, kind, payer, payee, amount))]

\* importEvent ignores a fee event it holds already ...
HasFee(L, fee) == \E i \in DOMAIN L.fees : L.fees[i].id = fee.id

\* Fault: a fee event that is held already moves the balances once more.
ImportFeeTwice(L, fee) ==
    CASE HasFee(L, fee) /\ FeeAllowed(L, fee.payer, fee.amount) ->
            [L EXCEPT !.balance =
                PayFee(L, fee.id[1], fee.id[2], fee.payer, fee.payee, fee.amount).balance]
      [] ~HasFee(L, fee) /\ FeeAllowed(L, fee.payer, fee.amount) ->
            PayFee(L, fee.id[1], fee.id[2], fee.payer, fee.payee, fee.amount)
      [] OTHER -> Ensure(L, {fee.payer, fee.payee})

\* ... and replays any other; the account schema refuses a negative balance.
ImportFee(L, fee) ==
    CASE HasFee(L, fee) -> L
      [] ~HasFee(L, fee) /\ FeeAllowed(L, fee.payer, fee.amount) ->
            PayFee(L, fee.id[1], fee.id[2], fee.payer, fee.payee, fee.amount)
      [] OTHER -> Ensure(L, {fee.payer, fee.payee})
===============================================================================
