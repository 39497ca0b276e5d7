-------------------------- MODULE TokenLedgerProofs --------------------------
(***************************************************************************)
(* Proofs about TokenLedger, for every policy and every set of agents.     *)
(***************************************************************************)
EXTENDS TokenLedger, SumProofs

(***************************************************************************)
(* Arithmetic of the policy                                                *)
(***************************************************************************)

\* A rounded quotient of naturals is a natural.
LEMMA RoundedType ==
    ASSUME NEW n \in Nat, NEW d \in Nat \ {0}
    PROVE  Rounded(n, d) \in Nat
<1>1. 2 * n + d \in Nat /\ 2 * d \in Nat \ {0}
  OBVIOUS
<1>2. \A a \in Nat, b \in Nat \ {0} : a \div b \in Nat
  OBVIOUS
<1> QED  BY <1>1, <1>2 DEF Rounded

\* The epoch of a block is a natural.
LEMMA EpochType ==
    ASSUME NEW h \in Nat \ {0}
    PROVE  Epoch(h) \in Nat
<1>1. h - 1 \in Nat
  OBVIOUS
<1>2. \A a \in Nat, b \in Nat \ {0} : a \div b \in Nat
  OBVIOUS
<1> QED  BY <1>1, <1>2, PolicyAssumption DEF Epoch

\* estimateTransferFee is never negative.
LEMMA TransferFeeType ==
    ASSUME NEW amount \in Nat, NEW h \in Nat \ {0}, NEW memo \in Nat
    PROVE  TransferFee(amount, h, memo) \in Nat
<1>1. \A a, b \in Nat : a * b \in Nat
  OBVIOUS
<1>2. amount * FeeRate \in Nat /\ memo * MemoByteFee \in Nat
  BY <1>1, PolicyAssumption
<1>3. Rounded(amount * FeeRate, FeeRateBase) \in Nat
  BY <1>2, RoundedType, PolicyAssumption
<1>4. Epoch(h) * EpochFeeStep \in Nat
  BY <1>1, EpochType, PolicyAssumption
<1> QED  BY <1>2, <1>3, <1>4, PolicyAssumption DEF TransferFee

\* As many grants as fit do fit, and no more are paid than were asked for.
LEMMA GrantsFit ==
    ASSUME NEW room \in Nat, NEW n \in Nat
    PROVE  /\ GrantsThatFit(room, n) \in 0 .. n
           /\ GrantsThatFit(room, n) * GenesisGrant \in 0 .. room
<1> DEFINE g == GenesisGrant
<1>0. g \in Nat
  BY PolicyAssumption
<1>1. CASE n * g <= room
  <2>1. GrantsThatFit(room, n) = n
    BY <1>1 DEF GrantsThatFit
  <2>2. n * g \in Nat
    BY <1>0
  <2> QED  BY <1>1, <2>1, <2>2
<1>2. CASE ~(n * g <= room)
  <2>1. g \in Nat \ {0} /\ n * g > room
    BY <1>0, <1>2
  <2>2. GrantsThatFit(room, n) = room \div g
    BY <1>2 DEF GrantsThatFit
  <2>3. \A a, m \in Nat, b \in Nat \ {0} :
           m * b > a => (a \div b) \in 0 .. m /\ (a \div b) * b <= a
    OBVIOUS
  <2>4. (room \div g) \in 0 .. n /\ (room \div g) * g <= room
    BY <2>1, <2>3
  <2>5. \A a, b \in Nat : a * b \in Nat
    OBVIOUS
  <2>6. (room \div g) * g \in Nat
    BY <2>1, <2>4, <2>5
  <2> HIDE DEF g
  <2>7. GrantsThatFit(room, n) \in 0 .. n /\ GrantsThatFit(room, n) * g \in 0 .. room
    BY <2>2, <2>4, <2>6
  <2> QED  BY <2>7 DEF g
<1> QED  BY <1>1, <1>2
(***************************************************************************)
(* Every operation leads from a ledger to a ledger                         *)
(***************************************************************************)

\* A ledger, by its fields.
LEMMA LedgerFields ==
    ASSUME NEW L \in Ledger
    PROVE  /\ L.accounts \in SUBSET Account
           /\ L.balance \in [Account -> Nat]
           /\ L.nonce \in [Account -> Nat]
           /\ L.minted \in Nat
           /\ L.events \in Seq(TokenEvent)
           /\ L.fees \in Seq(FeeRecord)
  BY DEF Ledger

\* An agent and the treasury have accounts.
LEMMA AccountFacts ==
    Agent \subseteq Account /\ Treasury \in Account
  BY DEF Account

\* The ledger a node starts with.
LEMMA EmptyLedgerType ==
    EmptyLedger \in Ledger
  BY DEF EmptyLedger, Ledger

\* ensureAccount
LEMMA EnsureType ==
    ASSUME NEW L \in Ledger, NEW owners \in SUBSET Account
    PROVE  Ensure(L, owners) \in Ledger
  BY DEF Ensure, Ledger

\* creditAccount
LEMMA MintType ==
    ASSUME NEW L \in Ledger, NEW kind \in MintKinds, NEW ref \in Account \cup Nat,
           NEW height \in Nat, NEW to \in Account, NEW amount \in Nat
    PROVE  Mint(L, kind, ref, height, to, amount) \in Ledger
<1>1. MintEvent(kind, ref, height, to, amount) \in TokenEvent
  BY DEF MintEvent, TokenEvent
<1>2. Append(L.events, MintEvent(kind, ref, height, to, amount)) \in Seq(TokenEvent)
  BY <1>1, LedgerFields
<1>3. [L.balance EXCEPT ![to] = @ + amount] \in [Account -> Nat]
  BY LedgerFields
<1>4. L.minted + amount \in Nat /\ L.accounts \cup {to} \in SUBSET Account
  BY LedgerFields
<1> QED  BY <1>2, <1>3, <1>4 DEF Mint, Ensure, Ledger

\* A payment of a fee.
LEMMA PayFeeType ==
    ASSUME NEW L \in Ledger, NEW ref \in Nat \cup Run,
           NEW kind \in {"coordination", "bridge"},
           NEW payer \in Account, NEW payee \in Account, NEW amount \in Nat,
           payer # payee, FeeAllowed(L, payer, amount)
    PROVE  PayFee(L, ref, kind, payer, payee, amount) \in Ledger
<1>1. DebitEvent("fee_settlement", ref, NoHeight, payer, payee, amount, L.nonce[payer])
          \in TokenEvent
  BY LedgerFields DEF DebitEvent, TokenEvent, NoHeight
<1>2. FeeEvent(ref, kind, payer, payee, amount) \in FeeRecord
  BY DEF FeeEvent, FeeRecord
<1>3. /\ Append(L.events, DebitEvent("fee_settlement", ref, NoHeight, payer, payee,
                                     amount, L.nonce[payer])) \in Seq(TokenEvent)
      /\ Append(L.fees, FeeEvent(ref, kind, payer, payee, amount)) \in Seq(FeeRecord)
  BY <1>1, <1>2, LedgerFields
<1>4. [L.balance EXCEPT ![payer] = L.balance[payer] - amount,
                        ![payee] = L.balance[payee] + amount] \in [Account -> Nat]
  BY LedgerFields DEF FeeAllowed
<1>5. /\ [L.nonce EXCEPT ![payer] = @ + 1] \in [Account -> Nat]
      /\ L.accounts \cup {payer, payee} \in SUBSET Account
  BY LedgerFields
<1> QED  BY <1>3, <1>4, <1>5 DEF PayFee, Ensure, Ledger

\* The collector of a fee is an account other than the payer's.
LEMMA CollectorType ==
    ASSUME NEW payer \in Agent, NEW preferred \in Agent
    PROVE  /\ FeeCollector(payer, preferred) \in Account
           /\ FeeCollector(payer, preferred) # payer
  BY PolicyAssumption, AccountFacts DEF FeeCollector

\* A bridge fee of another node, new or known, payable or not.
LEMMA ImportFeeType ==
    ASSUME NEW L \in Ledger, NEW run \in Run, NEW payer \in Agent,
           NEW preferred \in Agent, NEW amount \in Nat
    PROVE  ImportFee(L, FeeEvent(run, "bridge", payer, FeeCollector(payer, preferred),
                                 amount)) \in Ledger
<1> DEFINE payee == FeeCollector(payer, preferred)
           fee == FeeEvent(run, "bridge", payer, payee, amount)
<1>1. payer \in Account /\ payee \in Account /\ payer # payee
  BY CollectorType, AccountFacts
<1>2. /\ fee.id[1] = run /\ fee.id[2] = "bridge"
      /\ fee.payer = payer /\ fee.payee = payee /\ fee.amount = amount
  BY DEF FeeEvent
<1> HIDE DEF payee, fee
<1>3. FeeAllowed(L, payer, amount) =>
          PayFee(L, run, "bridge", payer, payee, amount) \in Ledger
  BY <1>1, PayFeeType
<1>4. Ensure(L, {payer, payee}) \in Ledger
  BY <1>1, EnsureType
<1>5. ImportFee(L, fee) \in Ledger
  BY <1>2, <1>3, <1>4 DEF ImportFee
<1> QED  BY <1>5 DEF fee, payee

\* What a request can ask for.
LEMMA RequestFacts ==
    ASSUME NEW t \in Request
    PROVE  /\ t.from \in Agent /\ t.to \in Agent /\ t.validator \in Agent
           /\ t.amount \in Nat /\ t.nonce \in Nat /\ t.ref \in Nat
           /\ t.height \in Nat \ {0} /\ t.memoBytes \in Nat
           /\ TransferFee(t.amount, t.height, t.memoBytes) \in Nat
           /\ FeeCollector(t.from, t.validator) \in Account
           /\ FeeCollector(t.from, t.validator) # t.from
<1>1. /\ t.from \in Agent /\ t.to \in Agent /\ t.validator \in Agent
      /\ t.amount \in Nat /\ t.nonce \in Nat /\ t.ref \in Nat
      /\ t.height \in Nat \ {0} /\ t.memoBytes \in Nat
  <2>1. MaxHeight \in Nat /\ MaxAmount \in Nat /\ MaxNonce \in Nat
    BY LedgerAssumption
  <2>2. /\ t.from \in Agent /\ t.to \in Agent /\ t.validator \in Validator
        /\ t.amount \in 0 .. MaxAmount /\ t.nonce \in 0 .. MaxNonce
        /\ t.ref \in 1 .. MaxHeight /\ t.height \in 1 .. MaxHeight
        /\ t.memoBytes \in MemoSizes
    BY DEF Request
  <2>3. Validator \subseteq Agent /\ MemoSizes \subseteq Nat
    BY LedgerAssumption
  <2>4. t.validator \in Agent /\ t.memoBytes \in Nat
    BY <2>2, <2>3
  <2>5. t.amount \in Nat /\ t.nonce \in Nat
    BY <2>1, <2>2
  <2>6. t.ref \in Nat /\ t.height \in Nat /\ t.height # 0
    BY <2>1, <2>2
  <2> QED  BY <2>2, <2>4, <2>5, <2>6
<1>2. TransferFee(t.amount, t.height, t.memoBytes) \in Nat
  BY <1>1, TransferFeeType
<1> QED  BY <1>1, <1>2, CollectorType

\* An allowed transfer overdraws nobody, whichever of the accounts coincide.
LEMMA TransferBalancesType ==
    ASSUME NEW L \in Ledger, NEW t \in Request, TransferAllowed(L, t)
    PROVE  TransferBalances(L, t) \in [Account -> Nat]
<1> DEFINE validator == FeeCollector(t.from, t.validator)
           fee == TransferFee(t.amount, t.height, t.memoBytes)
           paid == [L.balance EXCEPT ![t.from] = L.balance[t.from] - TransferTotal(t),
                                     ![t.to] = L.balance[t.to] + t.amount]
           base == IF validator = t.to THEN paid[t.to] ELSE L.balance[validator]
<1>1. L.balance \in [Account -> Nat] /\ fee \in Nat /\ validator \in Account
  BY LedgerFields, RequestFacts
<1>2. t.from \in Account /\ t.to \in Account /\ t.amount \in Nat
  BY RequestFacts, AccountFacts
<1>3. L.balance[t.from] - TransferTotal(t) \in Nat
  <2>1. TransferTotal(t) \in Nat
    BY RequestFacts DEF TransferTotal
  <2>2. L.balance[t.from] \in Nat
    BY <1>1, <1>2
  <2> QED  BY <2>1, <2>2 DEF TransferAllowed
<1>4. paid \in [Account -> Nat]
  BY <1>1, <1>2, <1>3
<1>5. base \in Nat
  BY <1>1, <1>2, <1>4
<1> HIDE DEF fee, paid, base
<1>6. [paid EXCEPT ![validator] = base + fee] \in [Account -> Nat]
  BY <1>1, <1>4, <1>5
<1>7. TransferBalances(L, t) = [paid EXCEPT ![validator] = base + fee]
  BY DEF TransferBalances, paid, base, fee
<1> QED  BY <1>6, <1>7

\* A settled transfer.
LEMMA TransferType ==
    ASSUME NEW L \in Ledger, NEW t \in Request, TransferAllowed(L, t)
    PROVE  Transfer(L, t) \in Ledger
<1> DEFINE validator == FeeCollector(t.from, t.validator)
           fee == TransferFee(t.amount, t.height, t.memoBytes)
           spend == DebitEvent("transfer", t.ref, t.height, t.from, t.to, t.amount, t.nonce)
           charge == DebitEvent("fee_settlement", t.ref, t.height, t.from, validator, fee,
                                t.nonce)
           record == FeeEvent(t.ref, "coordination", t.from, validator, fee)
<1>1. /\ t.from \in Account /\ t.to \in Account /\ validator \in Account
      /\ t.amount \in Nat /\ t.nonce \in Nat /\ t.ref \in Nat /\ t.height \in Nat
      /\ fee \in Nat
  BY RequestFacts, AccountFacts
<1> HIDE DEF validator, fee
<1>2. spend \in TokenEvent /\ charge \in TokenEvent /\ record \in FeeRecord
  BY <1>1 DEF DebitEvent, TokenEvent, FeeEvent, FeeRecord
<1> HIDE DEF spend, charge, record
<1>3. L.events \o <<spend, charge>> \in Seq(TokenEvent)
  <2>1. <<spend, charge>> \in Seq(TokenEvent)
    BY <1>2
  <2> QED  BY <2>1, LedgerFields
<1>4. Append(L.fees, record) \in Seq(FeeRecord)
  BY <1>2, LedgerFields
<1>5. TransferBalances(L, t) \in [Account -> Nat]
  BY TransferBalancesType
<1>6. [L.nonce EXCEPT ![t.from] = @ + 1] \in [Account -> Nat]
  BY <1>1, LedgerFields
<1>7. L.accounts \cup TransferOwners(t) \in SUBSET Account
  BY <1>1, LedgerFields DEF TransferOwners, validator
<1>8. Transfer(L, t) =
        [Ensure(L, TransferOwners(t)) EXCEPT
            !.balance = TransferBalances(L, t), !.nonce[t.from] = @ + 1,
            !.events = @ \o <<spend, charge>>, !.fees = Append(@, record)]
  BY DEF Transfer, spend, charge, record, validator, fee
<1> QED  BY <1>3, <1>4, <1>5, <1>6, <1>7, <1>8 DEF Ensure, Ledger

\* Genesis, complete or cut short by the cap; what it mints stays within it.
LEMMA SeedGenesisType ==
    ASSUME NEW L \in Ledger, L.minted <= MaxSupply
    PROVE  /\ SeedGenesis(L, AgentOrder) \in Ledger
           /\ SeedGenesis(L, AgentOrder).minted <= MaxSupply
<1>1. CASE GenesisTreasury > Remaining(L)
  <2>1. SeedGenesis(L, AgentOrder) = Ensure(L, {Treasury})
    BY <1>1 DEF SeedGenesis
  <2>2. Ensure(L, {Treasury}) \in Ledger
    BY AccountFacts, EnsureType
  <2> QED  BY <2>1, <2>2 DEF Ensure, Ledger
<1>2. CASE ~(GenesisTreasury > Remaining(L))
  <2> DEFINE room == Remaining(L) - GenesisTreasury
             fit == GrantsThatFit(room, Len(AgentOrder))
             paid == {AgentOrder[i] : i \in 1 .. fit}
             grants == [i \in 1 .. fit |->
                 MintEvent("genesis", AgentOrder[i], NoHeight, AgentOrder[i], GenesisGrant)]
             first == MintEvent("genesis", Treasury, NoHeight, Treasury, GenesisTreasury)
  <2>1. L.minted \in Nat /\ MaxSupply \in Nat /\ GenesisTreasury \in Nat /\ GenesisGrant \in Nat
    BY LedgerFields, PolicyAssumption
  <2>2. room \in Nat /\ room = MaxSupply - L.minted - GenesisTreasury
    BY <1>2, <2>1 DEF Remaining
  <2>3. Len(AgentOrder) \in Nat /\ AgentOrder \in [1 .. Len(AgentOrder) -> Agent]
    BY LedgerAssumption
  <2> HIDE DEF room
  <2>4. fit \in 0 .. Len(AgentOrder) /\ fit * GenesisGrant \in 0 .. room
    BY <2>2, <2>3, GrantsFit
  <2> HIDE DEF fit
  <2>5. \A i \in 1 .. fit : AgentOrder[i] \in Account
    BY <2>3, <2>4, AccountFacts
  <2>6. L.events \o (<<first>> \o grants) \in Seq(TokenEvent)
    <3>1. first \in TokenEvent
      BY <2>1, AccountFacts DEF MintEvent, TokenEvent, MintKinds, NoHeight
    <3>2. \A i \in 1 .. fit : grants[i] \in TokenEvent
      BY <2>1, <2>5 DEF MintEvent, TokenEvent, MintKinds, NoHeight
    <3>3. fit \in Nat
      BY <2>3, <2>4
    <3> HIDE DEF first
    <3>4. grants \in [1 .. fit -> TokenEvent]
      BY <3>2
    <3> HIDE DEF grants
    <3>5. grants \in Seq(TokenEvent)
      BY <3>3, <3>4
    <3>6. <<first>> \in Seq(TokenEvent)
      BY <3>1
    <3>7. <<first>> \o grants \in Seq(TokenEvent)
      BY <3>5, <3>6
    <3> QED  BY <3>7, LedgerFields
  <2>7. GenesisBalance(L.balance, paid) \in [Account -> Nat]
    BY <2>1, LedgerFields DEF GenesisBalance
  <2>8. L.accounts \cup GenesisOwners(AgentOrder, fit) \in SUBSET Account
    <3>1. \A i \in 1 .. Least(fit + 1, Len(AgentOrder)) : AgentOrder[i] \in Account
      BY <2>3, <2>4, AccountFacts DEF Least
    <3> QED  BY <3>1, LedgerFields, AccountFacts DEF GenesisOwners
  <2>9. L.minted + GenesisTreasury + fit * GenesisGrant \in 0 .. MaxSupply
    BY <2>1, <2>2, <2>4, SMTT(30)
  <2>10. SeedGenesis(L, AgentOrder) =
           [Ensure(L, GenesisOwners(AgentOrder, fit)) EXCEPT
              !.minted = @ + GenesisTreasury + fit * GenesisGrant,
              !.balance = GenesisBalance(@, paid),
              !.events = @ \o (<<first>> \o grants)]
    BY <1>2 DEF SeedGenesis, GenesisEvents, fit, room
  <2> DEFINE new == <<first>> \o grants
  <2>11. L.minted + GenesisTreasury + fit * GenesisGrant \in Nat
    BY <2>1, <2>9
  <2> HIDE DEF paid, new
  <2>12. SeedGenesis(L, AgentOrder) \in Ledger
    BY <2>6, <2>7, <2>8, <2>10, <2>11 DEF Ensure, Ledger, new
  <2>13. SeedGenesis(L, AgentOrder).minted = L.minted + GenesisTreasury + fit * GenesisGrant
    BY <2>10 DEF Ensure, Ledger
  <2> QED  BY <2>1, <2>9, <2>12, <2>13
<1> QED  BY <1>1, <1>2

\* Event e is the i-th of genesis.
GrantAt(e, i) ==
    /\ e.kind = "genesis"
    /\ e.to = IF i = 1 THEN Treasury ELSE AgentOrder[i - 1]
    /\ e.amount = IF i = 1 THEN GenesisTreasury ELSE GenesisGrant

\* What genesis writes, when the treasury's share fits: its grant, and that of the
\* agents whose grants fit, each once.
LEMMA GenesisJournal ==
    ASSUME NEW L \in Ledger, ~(GenesisTreasury > Remaining(L)), NEW fit,
           fit = GrantsThatFit(Remaining(L) - GenesisTreasury, Len(AgentOrder))
    PROVE  /\ fit \in Nat /\ fit \in 0 .. Len(AgentOrder)
           /\ \A i \in 1 .. fit : AgentOrder[i] \in Account
           /\ GenesisEvents(AgentOrder, fit) \in Seq(TokenEvent)
           /\ Len(GenesisEvents(AgentOrder, fit)) = fit + 1
           /\ \A i \in 1 .. fit + 1 : GrantAt(GenesisEvents(AgentOrder, fit)[i], i)
           /\ SeedGenesis(L, AgentOrder).events = L.events \o GenesisEvents(AgentOrder, fit)
           /\ SeedGenesis(L, AgentOrder).nonce = L.nonce
<1> DEFINE first == MintEvent("genesis", Treasury, NoHeight, Treasury, GenesisTreasury)
           grants == [i \in 1 .. fit |->
               MintEvent("genesis", AgentOrder[i], NoHeight, AgentOrder[i], GenesisGrant)]
           new == GenesisEvents(AgentOrder, fit)
<1>1. /\ SeedGenesis(L, AgentOrder).events = L.events \o new
      /\ SeedGenesis(L, AgentOrder).nonce = L.nonce
  BY DEF SeedGenesis, Ensure, Ledger
<1>2. Remaining(L) - GenesisTreasury \in Nat /\ Len(AgentOrder) \in Nat
  BY LedgerFields, PolicyAssumption, LedgerAssumption DEF Remaining
<1>3. fit \in 0 .. Len(AgentOrder) /\ fit \in Nat
  BY <1>2, GrantsFit
<1>4. \A i \in 1 .. fit : AgentOrder[i] \in Account
  BY <1>2, <1>3, LedgerAssumption, AccountFacts
<1>5. /\ first \in TokenEvent /\ first.kind = "genesis"
      /\ first.to = Treasury /\ first.amount = GenesisTreasury
  BY PolicyAssumption, AccountFacts DEF MintEvent, TokenEvent, MintKinds, NoHeight
<1>6. \A i \in 1 .. fit : /\ grants[i] \in TokenEvent /\ grants[i].kind = "genesis"
                          /\ grants[i].to = AgentOrder[i] /\ grants[i].amount = GenesisGrant
  BY <1>4, PolicyAssumption DEF MintEvent, TokenEvent, MintKinds, NoHeight
<1>7. new = <<first>> \o grants
  BY DEF GenesisEvents
<1> HIDE DEF first, new
<1>8. grants \in [1 .. fit -> TokenEvent]
  BY <1>6
<1> HIDE DEF grants
<1>9. grants \in Seq(TokenEvent) /\ DOMAIN grants = 1 .. fit /\ Len(grants) = fit
  BY <1>3, <1>8
<1>10. new \in Seq(TokenEvent) /\ Len(new) = fit + 1
  BY <1>3, <1>5, <1>7, <1>9
<1>11. \A i \in 1 .. fit + 1 :
          \/ i = 1 /\ new[i] = first
          \/ i # 1 /\ i - 1 \in 1 .. fit /\ new[i] = grants[i - 1]
  BY <1>3, <1>5, <1>7, <1>8, <1>9
<1>12. ASSUME NEW i \in 1 .. fit + 1
       PROVE  GrantAt(new[i], i)
  BY <1>5, <1>6, <1>11 DEF GrantAt
<1> QED  BY <1>1, <1>3, <1>4, <1>10, <1>12 DEF new

(***************************************************************************)
(* What a step does to the ledger, whatever called it                      *)
(***************************************************************************)

Looks(L, M) == M = L \/ \E owners \in SUBSET Account : M = Ensure(L, owners)

Seeds(L, M) == ~Seeded(L) /\ M = SeedGenesis(L, AgentOrder)

Rewards(L, M) ==
    \E v \in Account, h \in Nat, due \in Nat :
        /\ ~Rewarded(L, h)
        /\ L.minted + due <= MaxSupply
        /\ M = Mint(L, "reward", h, h, v, due)

Pays(L, M) ==
    \E p, q \in Account, r \in Nat \cup Run, x \in Nat :
        /\ p # q
        /\ FeeAllowed(L, p, x)
        /\ M = PayFee(L, r, "bridge", p, q, x)

Transfers(L, M) == \E t \in Request : TransferAllowed(L, t) /\ M = Transfer(L, t)

\* The block heights and amounts the actions range over.
LEMMA BoundFacts ==
    /\ \A h \in 1 .. MaxHeight : h \in Nat /\ h # 0
    /\ \A x \in 1 .. MaxAmount : x \in Nat
    /\ Validator \subseteq Agent
<1>1. MaxHeight \in Nat /\ MaxAmount \in Nat
  BY LedgerAssumption
<1> QED  BY <1>1, LedgerAssumption

\* One step per action.
LEMMA StepKinds ==
    ASSUME ledger \in Ledger, ledger.minted <= MaxSupply, [Next]_ledger
    PROVE  \/ Looks(ledger, ledger') \/ Seeds(ledger, ledger') \/ Rewards(ledger, ledger')
           \/ Pays(ledger, ledger') \/ Transfers(ledger, ledger')
<1>1. CASE Genesis
  BY <1>1 DEF Genesis, Seeds
<1>2. ASSUME NEW v \in Validator, NEW h \in 1 .. MaxHeight, Reward(v, h)
      PROVE  Rewards(ledger, ledger')
  <2> DEFINE due == RewardDue(ledger, h)
  <2>1. /\ due \in 1 .. Remaining(ledger) /\ ~Rewarded(ledger, h)
        /\ ledger' = Mint(ledger, "reward", h, h, v, due)
    BY <1>2 DEF Reward
  <2>2. v \in Account /\ h \in Nat
    BY BoundFacts, AccountFacts
  <2>3. ledger.minted \in Nat /\ MaxSupply \in Nat
    BY LedgerFields, PolicyAssumption
  <2> HIDE DEF due
  <2>4. due \in Nat /\ ledger.minted + due <= MaxSupply
    BY <2>1, <2>3 DEF Remaining
  <2> QED  BY <2>1, <2>2, <2>4 DEF Rewards
<1>3. ASSUME NEW t \in Request, SettleTransfer(t)
      PROVE  Transfers(ledger, ledger')
  BY <1>3 DEF SettleTransfer, Transfers
<1>4. ASSUME NEW t \in Request, RefuseTransfer(t)
      PROVE  Looks(ledger, ledger')
  <2>1. TransferOwners(t) \in SUBSET Account
    BY RequestFacts, AccountFacts DEF TransferOwners
  <2> QED  BY <1>4, <2>1 DEF RefuseTransfer, Looks
<1>5. ASSUME NEW p \in Agent, NEW q \in Agent, NEW r \in Run, NEW x \in 1 .. MaxAmount,
             RecordBridgeFee(p, q, r, x)
      PROVE  Pays(ledger, ledger')
  <2>1. x \in Nat /\ p \in Account
    BY BoundFacts, AccountFacts
  <2>2. FeeCollector(p, q) \in Account /\ FeeCollector(p, q) # p
    BY CollectorType
  <2>3. r \in Nat \cup Run
    OBVIOUS
  <2> QED  BY <1>5, <2>1, <2>2, <2>3 DEF RecordBridgeFee, Pays
<1>6. ASSUME NEW p \in Agent, NEW q \in Agent, NEW r \in Run, NEW x \in 1 .. MaxAmount,
             ImportEvent(p, q, r, x)
      PROVE  Looks(ledger, ledger') \/ Pays(ledger, ledger')
  <2> DEFINE payee == FeeCollector(p, q)
             fee == FeeEvent(r, "bridge", p, payee, x)
  <2>1. x \in Nat /\ p \in Account /\ payee \in Account /\ payee # p
    BY BoundFacts, AccountFacts, CollectorType
  <2>2. /\ fee.id[1] = r /\ fee.id[2] = "bridge"
        /\ fee.payer = p /\ fee.payee = payee /\ fee.amount = x
    BY DEF FeeEvent
  <2>3. ledger' = ImportFee(ledger, fee)
    BY <1>6 DEF ImportEvent
  <2> HIDE DEF payee, fee
  <2>4. \/ ledger' = ledger
        \/ FeeAllowed(ledger, p, x) /\ ledger' = PayFee(ledger, r, "bridge", p, payee, x)
        \/ ledger' = Ensure(ledger, {p, payee})
    BY <2>2, <2>3 DEF ImportFee
  <2>5. {p, payee} \in SUBSET Account /\ r \in Nat \cup Run
    BY <2>1
  <2> QED  BY <2>1, <2>4, <2>5 DEF Looks, Pays
<1>7. ASSUME NEW p \in Agent, NEW q \in Agent, NEW x \in 1 .. MaxAmount,
             RefuseBridgeFee(p, q, x)
      PROVE  Looks(ledger, ledger')
  <2>1. {p, FeeCollector(p, q)} \in SUBSET Account
    BY CollectorType, AccountFacts
  <2> QED  BY <1>7, <2>1 DEF RefuseBridgeFee, Looks
<1>8. ASSUME NEW a \in Agent, GetAgentAccount(a)
      PROVE  Looks(ledger, ledger')
  <2>1. {a} \in SUBSET Account
    BY AccountFacts
  <2> QED  BY <1>8, <2>1 DEF GetAgentAccount, Looks
<1>9. CASE UNCHANGED ledger
  BY <1>9 DEF Looks
<1> QED  BY <1>1, <1>2, <1>3, <1>4, <1>5, <1>6, <1>7, <1>8, <1>9 DEF Next

(***************************************************************************)
(* Type correctness and the supply cap                                     *)
(*                                                                         *)
(* Neither is inductive alone: genesis types only while the supply left is *)
(* not negative, and the supply left is a number only if the ledger types. *)
(***************************************************************************)

IInv == TypeOK /\ SupplyCap

LEMMA IInvInit ==
    Init => IInv
  BY EmptyLedgerType, PolicyAssumption DEF Init, IInv, TypeOK, SupplyCap, EmptyLedger

\* The supply is issued by genesis and rewards only.
LEMMA SupplyKept ==
    ASSUME NEW L \in Ledger
    PROVE  /\ \A owners : Ensure(L, owners).minted = L.minted
           /\ \A t : Transfer(L, t).minted = L.minted
           /\ \A ref, kind, payer, payee, amount :
                 PayFee(L, ref, kind, payer, payee, amount).minted = L.minted
           /\ \A fee : ImportFee(L, fee).minted = L.minted
<1>1. \A owners : Ensure(L, owners).minted = L.minted
  BY DEF Ensure, Ledger
<1>2. \A t : Transfer(L, t).minted = L.minted
  BY DEF Transfer, Ensure, Ledger
<1>3. \A ref, kind, payer, payee, amount :
          PayFee(L, ref, kind, payer, payee, amount).minted = L.minted
  BY DEF PayFee, Ensure, Ledger
<1>4. \A fee : ImportFee(L, fee).minted = L.minted
  BY <1>1, <1>3 DEF ImportFee
<1> QED  BY <1>1, <1>2, <1>3, <1>4

\* One step per kind of step.
LEMMA IInvStep ==
    IInv /\ [Next]_ledger => IInv'
<1> SUFFICES ASSUME IInv, [Next]_ledger PROVE ledger' \in Ledger /\ ledger'.minted <= MaxSupply
  BY DEF IInv, TypeOK, SupplyCap
<1>0. ledger \in Ledger /\ ledger.minted <= MaxSupply
  BY DEF IInv, TypeOK, SupplyCap
<1>1. CASE Looks(ledger, ledger')
  BY <1>0, <1>1, EnsureType, SupplyKept DEF Looks
<1>2. CASE Seeds(ledger, ledger')
  BY <1>0, <1>2, SeedGenesisType DEF Seeds
<1>3. CASE Rewards(ledger, ledger')
  <2>1. PICK v \in Account, h \in Nat, due \in Nat :
            /\ ledger.minted + due <= MaxSupply
            /\ ledger' = Mint(ledger, "reward", h, h, v, due)
    BY <1>3 DEF Rewards
  <2>2. ledger' \in Ledger
    BY <1>0, <2>1, MintType DEF MintKinds
  <2>3. ledger'.minted = ledger.minted + due
    BY <1>0, <2>1 DEF Mint, Ensure, Ledger
  <2> QED  BY <2>1, <2>2, <2>3
<1>4. CASE Pays(ledger, ledger')
  <2>1. PICK p \in Account, q \in Account, r \in Nat \cup Run, x \in Nat :
            /\ p # q /\ FeeAllowed(ledger, p, x)
            /\ ledger' = PayFee(ledger, r, "bridge", p, q, x)
    BY <1>4 DEF Pays
  <2>2. ledger' \in Ledger
    BY <1>0, <2>1, PayFeeType
  <2> QED  BY <1>0, <2>1, <2>2, SupplyKept
<1>5. CASE Transfers(ledger, ledger')
  BY <1>0, <1>5, TransferType, SupplyKept DEF Transfers
<1> QED  BY <1>0, <1>1, <1>2, <1>3, <1>4, <1>5, StepKinds

\* No sequence of calls, accepted or refused, takes the ledger out of its type:
\* in particular no balance ever becomes negative.
THEOREM TypeCorrect == Spec => []TypeOK
<1>1. IInv => TypeOK
  BY DEF IInv
<1> QED  BY <1>1, IInvInit, IInvStep, PTL DEF Spec

\* The fixed max supply is never exceeded, whatever the policy: when genesis
\* does not fit in it, when the reward does not divide it, at its last unit.
THEOREM SupplyIsCapped == Spec => []SupplyCap
<1>1. IInv => SupplyCap
  BY DEF IInv
<1> QED  BY <1>1, IInvInit, IInvStep, PTL DEF Spec

(***************************************************************************)
(* Nothing moves off the record                                            *)
(***************************************************************************)

\* What RefusalMovesNothing says of a step from ledger L to ledger M.
OnRecord(L, M) ==
    M.events = L.events =>
        M.balance = L.balance /\ M.nonce = L.nonce /\ M.minted = L.minted

\* A journal that was appended to is not the journal it was.
LEMMA Grown ==
    ASSUME NEW s \in Seq(TokenEvent), NEW e \in TokenEvent
    PROVE  Append(s, e) # s
<1>1. Len(Append(s, e)) = Len(s) + 1 /\ Len(s) \in Nat
  OBVIOUS
<1> QED  BY <1>1

LEMMA EnsureOnRecord ==
    ASSUME NEW L \in Ledger, NEW owners
    PROVE  OnRecord(L, Ensure(L, owners))
  BY DEF OnRecord, Ensure, Ledger

LEMMA PayFeeOnRecord ==
    ASSUME NEW L \in Ledger, NEW ref \in Nat \cup Run, NEW kind,
           NEW payer \in Account, NEW payee \in Account, NEW amount \in Nat
    PROVE  OnRecord(L, PayFee(L, ref, kind, payer, payee, amount))
<1> DEFINE e == DebitEvent("fee_settlement", ref, NoHeight, payer, payee, amount,
                           L.nonce[payer])
<1>1. e \in TokenEvent
  BY LedgerFields DEF DebitEvent, TokenEvent, NoHeight
<1>2. PayFee(L, ref, kind, payer, payee, amount).events = Append(L.events, e)
  BY DEF PayFee, Ensure, Ledger
<1> HIDE DEF e
<1>3. Append(L.events, e) # L.events
  BY <1>1, Grown, LedgerFields
<1> QED  BY <1>2, <1>3 DEF OnRecord

LEMMA TransferOnRecord ==
    ASSUME NEW L \in Ledger, NEW t \in Request
    PROVE  OnRecord(L, Transfer(L, t))
<1> DEFINE validator == FeeCollector(t.from, t.validator)
           fee == TransferFee(t.amount, t.height, t.memoBytes)
           spend == DebitEvent("transfer", t.ref, t.height, t.from, t.to, t.amount, t.nonce)
           charge == DebitEvent("fee_settlement", t.ref, t.height, t.from, validator, fee,
                                t.nonce)
<1>1. Transfer(L, t).events = L.events \o <<spend, charge>>
  BY DEF Transfer, Ensure, Ledger
<1> HIDE DEF spend, charge
<1>2. Len(L.events \o <<spend, charge>>) = Len(L.events) + 2 /\ Len(L.events) \in Nat
  BY LedgerFields
<1>3. L.events \o <<spend, charge>> # L.events
  BY <1>2
<1> QED  BY <1>1, <1>3 DEF OnRecord

LEMMA SeedGenesisOnRecord ==
    ASSUME NEW L \in Ledger, ~Seeded(L), L.minted <= MaxSupply
    PROVE  OnRecord(L, SeedGenesis(L, AgentOrder))
<1>1. CASE GenesisTreasury > Remaining(L)
  BY <1>1, EnsureOnRecord DEF SeedGenesis
<1>2. CASE ~(GenesisTreasury > Remaining(L))
  <2> DEFINE fit == GrantsThatFit(Remaining(L) - GenesisTreasury, Len(AgentOrder))
             new == GenesisEvents(AgentOrder, fit)
  <2>1. /\ SeedGenesis(L, AgentOrder).events = L.events \o new
        /\ new \in Seq(TokenEvent) /\ Len(new) = fit + 1 /\ fit \in Nat
    <3> HIDE DEF new, fit
    <3> QED  BY <1>2, GenesisJournal DEF new, fit
  <2>2. L.events = <<>>
    BY DEF Seeded
  <2> HIDE DEF new, fit
  <2>3. L.events \o new # <<>>
    <3>1. Len(L.events \o new) = fit + 1
      BY <2>1, <2>2
    <3> QED  BY <2>1, <3>1
  <2> QED  BY <2>1, <2>2, <2>3 DEF OnRecord
<1> QED  BY <1>1, <1>2

LEMMA MintOnRecord ==
    ASSUME NEW L \in Ledger, NEW h \in Nat, NEW v \in Account, NEW due \in Nat
    PROVE  OnRecord(L, Mint(L, "reward", h, h, v, due))
<1> DEFINE e == MintEvent("reward", h, h, v, due)
<1>1. e \in TokenEvent
  BY DEF MintEvent, TokenEvent, MintKinds
<1>2. Mint(L, "reward", h, h, v, due).events = Append(L.events, e)
  BY DEF Mint, Ensure, Ledger
<1> HIDE DEF e
<1>3. Append(L.events, e) # L.events
  BY <1>1, Grown, LedgerFields
<1> QED  BY <1>2, <1>3 DEF OnRecord

LEMMA NextOnRecord ==
    IInv /\ [Next]_ledger => OnRecord(ledger, ledger')
<1> SUFFICES ASSUME IInv, [Next]_ledger PROVE OnRecord(ledger, ledger')
  OBVIOUS
<1>0. ledger \in Ledger /\ ledger.minted <= MaxSupply
  BY DEF IInv, TypeOK, SupplyCap
<1>1. CASE Looks(ledger, ledger')
  <2>1. OnRecord(ledger, ledger)
    BY DEF OnRecord
  <2> QED  BY <1>0, <1>1, <2>1, EnsureOnRecord DEF Looks
<1>2. CASE Seeds(ledger, ledger')
  BY <1>0, <1>2, SeedGenesisOnRecord DEF Seeds
<1>3. CASE Rewards(ledger, ledger')
  BY <1>0, <1>3, MintOnRecord DEF Rewards
<1>4. CASE Pays(ledger, ledger')
  BY <1>0, <1>4, PayFeeOnRecord DEF Pays
<1>5. CASE Transfers(ledger, ledger')
  BY <1>0, <1>5, TransferOnRecord DEF Transfers
<1> QED  BY <1>0, <1>1, <1>2, <1>3, <1>4, <1>5, StepKinds

\* A refused call and a repeated one change no balance, no nonce and no supply:
\* every movement of funds is in the journal.
THEOREM MovesAreRecorded == Spec => RefusalMovesNothing
<1>1. IInv /\ [Next]_ledger =>
         [ledger'.events = ledger.events
            => /\ ledger'.balance = ledger.balance
               /\ ledger'.nonce = ledger.nonce
               /\ ledger'.minted = ledger.minted]_ledger
  BY NextOnRecord DEF OnRecord
<1> QED  BY <1>1, IInvInit, IInvStep, PTL DEF Spec, RefusalMovesNothing

(***************************************************************************)
(* A block is rewarded once                                                *)
(***************************************************************************)

\* Step from L to M that writes no reward: each reward of M's journal is L's.
SameRewards(L, M) ==
    \A i \in DOMAIN M.events :
        M.events[i].kind = "reward" => i \in DOMAIN L.events /\ M.events[i] = L.events[i]

\* No two rewards of one reference, in ledger L.
OnceIn(L) ==
    \A i, j \in DOMAIN L.events :
        /\ L.events[i].kind = "reward" /\ L.events[j].kind = "reward"
        /\ L.events[i].ref = L.events[j].ref
        => i = j

LEMMA SameRewardsKeepsOnce ==
    ASSUME NEW L, NEW M, OnceIn(L), SameRewards(L, M)
    PROVE  OnceIn(M)
  BY DEF OnceIn, SameRewards

\* Appending events that are no rewards.
LEMMA AppendOther ==
    ASSUME NEW s \in Seq(TokenEvent), NEW u \in Seq(TokenEvent),
           \A i \in DOMAIN u : u[i].kind # "reward"
    PROVE  \A i \in DOMAIN (s \o u) :
              (s \o u)[i].kind = "reward" => i \in DOMAIN s /\ (s \o u)[i] = s[i]
<1> SUFFICES ASSUME NEW i \in DOMAIN (s \o u), (s \o u)[i].kind = "reward"
             PROVE  i \in DOMAIN s /\ (s \o u)[i] = s[i]
  OBVIOUS
<1>1. CASE i \in DOMAIN s
  BY <1>1
<1>2. CASE i \notin DOMAIN s
  <2>1. i - Len(s) \in DOMAIN u /\ (s \o u)[i] = u[i - Len(s)]
    BY <1>2
  <2> QED  BY <2>1
<1> QED  BY <1>1, <1>2

LEMMA EnsureSameRewards ==
    ASSUME NEW L \in Ledger, NEW owners
    PROVE  SameRewards(L, Ensure(L, owners))
  BY DEF SameRewards, Ensure, Ledger

LEMMA PayFeeSameRewards ==
    ASSUME NEW L \in Ledger, NEW ref \in Nat \cup Run, NEW kind,
           NEW payer \in Account, NEW payee \in Account, NEW amount \in Nat
    PROVE  SameRewards(L, PayFee(L, ref, kind, payer, payee, amount))
<1> DEFINE e == DebitEvent("fee_settlement", ref, NoHeight, payer, payee, amount,
                           L.nonce[payer])
<1>1. e \in TokenEvent /\ e.kind # "reward"
  BY LedgerFields DEF DebitEvent, TokenEvent, NoHeight
<1>2. PayFee(L, ref, kind, payer, payee, amount).events = Append(L.events, e)
  BY DEF PayFee, Ensure, Ledger
<1> HIDE DEF e
<1>3. \A i \in DOMAIN Append(L.events, e) :
          \/ i \in DOMAIN L.events /\ Append(L.events, e)[i] = L.events[i]
          \/ Append(L.events, e)[i] = e
  BY <1>1, LedgerFields
<1> QED  BY <1>1, <1>2, <1>3 DEF SameRewards

LEMMA TransferSameRewards ==
    ASSUME NEW L \in Ledger, NEW t \in Request
    PROVE  SameRewards(L, Transfer(L, t))
<1> DEFINE validator == FeeCollector(t.from, t.validator)
           fee == TransferFee(t.amount, t.height, t.memoBytes)
           spend == DebitEvent("transfer", t.ref, t.height, t.from, t.to, t.amount, t.nonce)
           charge == DebitEvent("fee_settlement", t.ref, t.height, t.from, validator, fee,
                                t.nonce)
<1>1. /\ t.from \in Account /\ t.to \in Account /\ validator \in Account
      /\ t.amount \in Nat /\ t.nonce \in Nat /\ t.ref \in Nat /\ t.height \in Nat
      /\ fee \in Nat
  BY RequestFacts, AccountFacts
<1>2. Transfer(L, t).events = L.events \o <<spend, charge>>
  BY DEF Transfer, Ensure, Ledger
<1> HIDE DEF validator, fee
<1>3. spend \in TokenEvent /\ charge \in TokenEvent
  BY <1>1 DEF DebitEvent, TokenEvent
<1>4. spend.kind # "reward" /\ charge.kind # "reward"
  BY DEF DebitEvent
<1> HIDE DEF spend, charge
<1>5. <<spend, charge>> \in Seq(TokenEvent)
  BY <1>3
<1>6. \A i \in DOMAIN <<spend, charge>> : <<spend, charge>>[i].kind # "reward"
  BY <1>4
<1> QED  BY <1>2, <1>5, <1>6, AppendOther, LedgerFields, SMTT(30) DEF SameRewards

LEMMA SeedGenesisSameRewards ==
    ASSUME NEW L \in Ledger, L.minted <= MaxSupply
    PROVE  SameRewards(L, SeedGenesis(L, AgentOrder))
<1>1. CASE GenesisTreasury > Remaining(L)
  BY <1>1, EnsureSameRewards DEF SeedGenesis
<1>2. CASE ~(GenesisTreasury > Remaining(L))
  <2> DEFINE fit == GrantsThatFit(Remaining(L) - GenesisTreasury, Len(AgentOrder))
             new == GenesisEvents(AgentOrder, fit)
  <2> HIDE DEF fit, new
  <2>1. /\ SeedGenesis(L, AgentOrder).events = L.events \o new
        /\ new \in Seq(TokenEvent) /\ Len(new) = fit + 1 /\ fit \in Nat
        /\ \A i \in 1 .. fit + 1 : new[i].kind = "genesis"
    <3>1. fit = GrantsThatFit(Remaining(L) - GenesisTreasury, Len(AgentOrder))
      BY DEF fit
    <3>2. new = GenesisEvents(AgentOrder, fit)
      BY DEF new
    <3>3. \A i \in 1 .. fit + 1 : GrantAt(new[i], i)
      BY <1>2, <3>1, <3>2, GenesisJournal
    <3>4. \A i \in 1 .. fit + 1 : new[i].kind = "genesis"
      BY <3>3 DEF GrantAt
    <3> QED  BY <1>2, <3>1, <3>2, <3>4, GenesisJournal
  <2>2. \A i \in DOMAIN new : new[i].kind # "reward"
    BY <2>1
  <2>3. \A i \in DOMAIN (L.events \o new) :
            (L.events \o new)[i].kind = "reward" =>
                i \in DOMAIN L.events /\ (L.events \o new)[i] = L.events[i]
    BY <2>1, <2>2, AppendOther, LedgerFields
  <2> QED  BY <2>1, <2>3 DEF SameRewards
<1> QED  BY <1>1, <1>2

\* The one action that writes a reward does so for a block that has none.
LEMMA RewardKeepsOnce ==
    ASSUME NEW L \in Ledger, NEW v \in Account, NEW h \in Nat, NEW due \in Nat,
           OnceIn(L), ~Rewarded(L, h)
    PROVE  OnceIn(Mint(L, "reward", h, h, v, due))
<1> DEFINE e == MintEvent("reward", h, h, v, due)
           new == Append(L.events, e)
<1>1. e \in TokenEvent /\ e.ref = h
  BY DEF MintEvent, TokenEvent, MintKinds
<1>2. Mint(L, "reward", h, h, v, due).events = new
  BY DEF Mint, Ensure, Ledger
<1> HIDE DEF e
<1>3. \A i \in DOMAIN new :
          \/ i \in DOMAIN L.events /\ new[i] = L.events[i]
          \/ i = Len(L.events) + 1 /\ new[i] = e
  BY <1>1, LedgerFields
<1> HIDE DEF new
<1>4. \A i \in DOMAIN L.events : L.events[i].kind = "reward" => L.events[i].ref # h
  BY DEF Rewarded
<1> QED  BY <1>1, <1>2, <1>3, <1>4 DEF OnceIn

OnceInv == IInv /\ OnceIn(ledger)

LEMMA OnceInit ==
    Init => OnceInv
  BY IInvInit DEF Init, OnceInv, OnceIn, EmptyLedger

LEMMA OnceStep ==
    OnceInv /\ [Next]_ledger => OnceInv'
<1> SUFFICES ASSUME IInv, OnceIn(ledger), [Next]_ledger PROVE OnceIn(ledger')
  BY IInvStep DEF OnceInv
<1>0. ledger \in Ledger /\ ledger.minted <= MaxSupply
  BY DEF IInv, TypeOK, SupplyCap
<1>1. CASE Looks(ledger, ledger')
  BY <1>0, <1>1, EnsureSameRewards, SameRewardsKeepsOnce DEF Looks
<1>2. CASE Seeds(ledger, ledger')
  BY <1>0, <1>2, SeedGenesisSameRewards, SameRewardsKeepsOnce DEF Seeds
<1>3. CASE Rewards(ledger, ledger')
  BY <1>0, <1>3, RewardKeepsOnce DEF Rewards
<1>4. CASE Pays(ledger, ledger')
  BY <1>0, <1>4, PayFeeSameRewards, SameRewardsKeepsOnce DEF Pays
<1>5. CASE Transfers(ledger, ledger')
  BY <1>0, <1>5, TransferSameRewards, SameRewardsKeepsOnce DEF Transfers
<1> QED  BY <1>0, <1>1, <1>2, <1>3, <1>4, <1>5, StepKinds

\* A block earns its validator one reward, however often it is settled.
THEOREM OneRewardPerBlock == Spec => []RewardedOnce
<1>1. OnceInv => RewardedOnce
  BY DEF OnceInv, OnceIn, RewardedOnce, Mints, MintKinds
<1> QED  BY <1>1, OnceInit, OnceStep, PTL DEF Spec

(***************************************************************************)
(* No nonce is used twice and none is left out                             *)
(*                                                                         *)
(* The property tells the fee of a transfer from a fee of its own by the   *)
(* event before it.  It is inductive only together with the fact that no   *)
(* journal ends with a transfer: the next fee would be taken for its fee.  *)
(***************************************************************************)

\* The debit at i of journal s is the fee of the transfer before it.
FeeBehind(s, i) == i - 1 \in DOMAIN s /\ s[i - 1].kind = "transfer"

\* The events of journal s that are debits.
IsDebit(s, i) == i \in DOMAIN s /\ s[i].kind \notin MintKinds

\* The payments of a: its debits that are not the fee of a transfer.
IsPayment(s, i, a) == IsDebit(s, i) /\ s[i].from = a /\ ~FeeBehind(s, i)

\* Every nonce below n is that of one payment, and no other nonce of any.
Consumed(s, a, n) ==
    /\ \A i \in DOMAIN s : IsPayment(s, i, a) => s[i].nonce \in 0 .. n - 1
    /\ \A k \in 0 .. n - 1 : \E i \in DOMAIN s : IsPayment(s, i, a) /\ s[i].nonce = k
    /\ \A i, j \in DOMAIN s :
          IsPayment(s, i, a) /\ IsPayment(s, j, a) /\ s[i].nonce = s[j].nonce => i = j

\* No journal ends between a transfer and its fee.
FeeIsIn(s) == Len(s) > 0 => s[Len(s)].kind # "transfer"

NonceIn(L) ==
    /\ FeeIsIn(L.events)
    /\ \A a \in Account : Consumed(L.events, a, L.nonce[a])

\* Journal s is the beginning of journal u.
Begins(s, u) ==
    /\ Len(s) \in Nat /\ Len(u) \in Nat /\ Len(s) <= Len(u)
    /\ DOMAIN s = 1 .. Len(s) /\ DOMAIN u = 1 .. Len(u)
    /\ \A i \in 1 .. Len(s) : u[i] = s[i]

\* The step from L to M records no payment.
NoPayment(L, M) ==
    /\ Begins(L.events, M.events)
    /\ M.nonce = L.nonce
    /\ \A i \in 1 .. Len(M.events) : i > Len(L.events) => M.events[i].kind \in MintKinds

\* The step from L to M records one payment of p, with its fee if it is a transfer.
OnePayment(L, M, p) ==
    /\ Begins(L.events, M.events)
    /\ M.nonce[p] = L.nonce[p] + 1
    /\ \A a \in Account \ {p} : M.nonce[a] = L.nonce[a]
    /\ LET k == Len(L.events) + 1
       IN  /\ k \in 1 .. Len(M.events)
           /\ IsDebit(M.events, k)
           /\ M.events[k].from = p /\ M.events[k].nonce = L.nonce[p]
           /\ Len(M.events) > k => Len(M.events) = k + 1 /\ M.events[k].kind = "transfer"
    /\ FeeIsIn(M.events)

LEMMA NoPaymentKeepsNonces ==
    ASSUME NEW L \in Ledger, NEW M, NonceIn(L), NoPayment(L, M)
    PROVE  NonceIn(M)
<1> DEFINE s == L.events
           u == M.events
           n == Len(s)
<1>1. /\ n \in Nat /\ Len(u) \in Nat /\ n <= Len(u)
      /\ DOMAIN s = 1 .. n /\ DOMAIN u = 1 .. Len(u)
      /\ \A i \in 1 .. n : u[i] = s[i]
      /\ \A i \in 1 .. Len(u) : i > n => u[i].kind \in MintKinds
      /\ M.nonce = L.nonce
  BY DEF NoPayment, Begins
<1>2. FeeIsIn(s) /\ \A a \in Account : Consumed(s, a, L.nonce[a])
  BY DEF NonceIn
<1> HIDE DEF s, u, n
<1>3. FeeIsIn(u)
  <2> SUFFICES ASSUME Len(u) > 0 PROVE u[Len(u)].kind # "transfer"
    BY DEF FeeIsIn
  <2>1. CASE Len(u) > n
    BY <1>1, <2>1 DEF MintKinds
  <2>2. CASE Len(u) = n
    BY <1>1, <1>2, <2>2 DEF FeeIsIn, n
  <2>3. Len(u) > n \/ Len(u) = n
    <3>1. n \in Nat /\ Len(u) \in Nat
      BY <1>1
    <3>2. n <= Len(u)
      BY <1>1
    <3> QED  BY ONLY <3>1, <3>2
  <2> QED  BY ONLY <2>1, <2>2, <2>3
<1>4. ASSUME NEW a \in Account
      PROVE  Consumed(u, a, M.nonce[a])
  <2>1. \A i \in DOMAIN u : IsPayment(u, i, a) => i \in DOMAIN s /\ u[i] = s[i]
    BY <1>1 DEF IsPayment, IsDebit
  <2>2. \A i \in DOMAIN s : IsPayment(u, i, a) <=> IsPayment(s, i, a)
    <3> SUFFICES ASSUME NEW i \in DOMAIN s
                 PROVE  IsPayment(u, i, a) <=> IsPayment(s, i, a)
      OBVIOUS
    <3>1. u[i] = s[i] /\ i \in DOMAIN u
      BY <1>1
    <3>2. FeeBehind(u, i) <=> FeeBehind(s, i)
      <4>1. i - 1 \in DOMAIN u <=> i - 1 \in DOMAIN s
        BY <1>1
      <4>2. i - 1 \in DOMAIN s => u[i - 1] = s[i - 1]
        BY <1>1
      <4> QED  BY <4>1, <4>2 DEF FeeBehind
    <3> QED  BY <3>1, <3>2 DEF IsPayment, IsDebit
  <2>3. \A i \in DOMAIN s : i \in DOMAIN u /\ u[i] = s[i]
    BY <1>1
  <2>4. Consumed(s, a, L.nonce[a])
    BY <1>2
  <2> DEFINE m == L.nonce[a]
  <2> HIDE DEF m
  <2>5. Consumed(u, a, m)
    BY <2>1, <2>2, <2>3, <2>4 DEF Consumed, m
  <2> QED  BY <1>1, <2>5 DEF m
<1> QED  BY <1>3, <1>4 DEF NonceIn, u

LEMMA PaymentKeepsNonces ==
    ASSUME NEW L \in Ledger, NEW M, NEW p \in Account, NonceIn(L), OnePayment(L, M, p)
    PROVE  NonceIn(M)
<1> DEFINE s == L.events
           u == M.events
           n == Len(s)
           k == n + 1
           m == L.nonce[p]
<1>1. /\ n \in Nat /\ Len(u) \in Nat /\ m \in Nat
      /\ DOMAIN s = 1 .. n /\ DOMAIN u = 1 .. Len(u)
      /\ \A i \in 1 .. n : u[i] = s[i]
  BY LedgerFields DEF OnePayment, Begins
<1>2. /\ M.nonce[p] = m + 1
      /\ \A a \in Account \ {p} : M.nonce[a] = L.nonce[a]
  BY DEF OnePayment
<1>3. /\ k \in 1 .. Len(u)
      /\ IsDebit(u, k) /\ u[k].from = p /\ u[k].nonce = m
      /\ Len(u) > k => Len(u) = k + 1 /\ u[k].kind = "transfer"
      /\ FeeIsIn(u)
  BY DEF OnePayment
<1>0. n \in Nat /\ Len(u) \in Nat /\ k <= Len(u) /\ k \in 1 .. Len(u)
  <2>1. n \in Nat /\ Len(u) \in Nat
    BY <1>1
  <2>2. k \in 1 .. Len(u)
    BY <1>3
  <2> QED  BY <2>1, <2>2
<1>4. FeeIsIn(s) /\ \A a \in Account : Consumed(s, a, L.nonce[a])
  BY DEF NonceIn
<1> HIDE DEF s, u, n, m
<1>5. ~FeeBehind(u, k)
  <2> SUFFICES ASSUME k - 1 \in DOMAIN u, u[k - 1].kind = "transfer"
               PROVE  FALSE
    BY DEF FeeBehind
  <2>1. k - 1 = n /\ n \in 1 .. n /\ n > 0
    BY <1>1
  <2>2. u[n] = s[n] /\ s[n].kind = "transfer"
    BY <1>1, <2>1
  <2> QED  BY <1>4, <2>1, <2>2 DEF FeeIsIn, n
<1>6. \A i \in DOMAIN u : i \in DOMAIN s \/ i = k \/ (i = k + 1 /\ FeeBehind(u, i))
  <2> SUFFICES ASSUME NEW i \in DOMAIN u, i \notin DOMAIN s, i # k
               PROVE  i = k + 1 /\ FeeBehind(u, i)
    OBVIOUS
  <2>1. i \in 1 .. Len(u) /\ i > k
    BY <1>1
  <2>2. Len(u) > k
    BY <1>1, <2>1
  <2>3. i = k + 1 /\ u[k].kind = "transfer"
    <3>1. Len(u) = k + 1 /\ u[k].kind = "transfer"
      BY <1>3, <2>2
    <3> QED  BY <1>1, <2>1, <3>1
  <2>4. i - 1 = k /\ k \in DOMAIN u
    BY <1>0, <1>1, <2>3
  <2> QED  BY <2>3, <2>4 DEF FeeBehind
<1>7. \A i \in DOMAIN s, a \in Account : IsPayment(u, i, a) <=> IsPayment(s, i, a)
  <2> SUFFICES ASSUME NEW i \in DOMAIN s, NEW a \in Account
               PROVE  IsPayment(u, i, a) <=> IsPayment(s, i, a)
    OBVIOUS
  <2>0. Len(u) >= n
    BY <1>0
  <2>1. u[i] = s[i] /\ i \in DOMAIN u
    BY <1>1, <2>0
  <2>2. FeeBehind(u, i) <=> FeeBehind(s, i)
    <3>1. i - 1 \in DOMAIN u <=> i - 1 \in DOMAIN s
      BY <1>1, <2>0
    <3>2. i - 1 \in DOMAIN s => u[i - 1] = s[i - 1]
      BY <1>1
    <3> QED  BY <3>1, <3>2 DEF FeeBehind
  <2> QED  BY <2>1, <2>2 DEF IsPayment, IsDebit
<1>8. IsPayment(u, k, p) /\ k \in DOMAIN u /\ k \notin DOMAIN s
  <2>1. k \in DOMAIN u /\ k \notin DOMAIN s
    BY <1>0, <1>1
  <2>2. IsDebit(u, k) /\ u[k].from = p
    BY <1>3
  <2> QED  BY <1>5, <2>1, <2>2 DEF IsPayment
<1>9. \A i \in DOMAIN s : i \in DOMAIN u /\ u[i] = s[i]
  BY <1>0, <1>1
<1>10. \A i \in DOMAIN u, a \in Account : IsPayment(u, i, a) =>
           (i \in DOMAIN s /\ IsPayment(s, i, a)) \/ (i = k /\ a = p)
  <2> SUFFICES ASSUME NEW i \in DOMAIN u, NEW a \in Account, IsPayment(u, i, a)
               PROVE  (i \in DOMAIN s /\ IsPayment(s, i, a)) \/ (i = k /\ a = p)
    OBVIOUS
  <2>1. ~FeeBehind(u, i) /\ u[i].from = a
    BY DEF IsPayment
  <2> QED  BY <1>3, <1>6, <1>7, <2>1
<1> HIDE DEF k
<1>11. ASSUME NEW a \in Account, a # p
       PROVE  Consumed(u, a, M.nonce[a])
  <2> DEFINE l == L.nonce[a]
  <2>1. Consumed(s, a, l)
    BY <1>4
  <2>2. M.nonce[a] = l
    BY <1>2, <1>11
  <2>3. \A i \in DOMAIN u : IsPayment(u, i, a) => i \in DOMAIN s /\ IsPayment(s, i, a)
    BY <1>10, <1>11
  <2> HIDE DEF l
  <2>4. Consumed(u, a, l)
    BY <1>7, <1>9, <2>1, <2>3 DEF Consumed
  <2> QED  BY <2>2, <2>4
<1>12. Consumed(u, p, m + 1)
  <2>1. Consumed(s, p, m)
    BY <1>4 DEF m
  <2>2. \A i \in DOMAIN u : IsPayment(u, i, p) =>
            (i \in DOMAIN s /\ IsPayment(s, i, p) /\ u[i].nonce = s[i].nonce
                /\ s[i].nonce \in 0 .. m - 1) \/ i = k
    BY <1>9, <1>10, <2>1 DEF Consumed
  <2>3. 0 .. (m + 1) - 1 = (0 .. m - 1) \cup {m} /\ m \notin 0 .. m - 1
    BY <1>1
  <2>4. \A i \in DOMAIN u : IsPayment(u, i, p) => u[i].nonce \in 0 .. (m + 1) - 1
    BY <1>3, <2>2, <2>3
  <2>5. \A j \in 0 .. (m + 1) - 1 : \E i \in DOMAIN u : IsPayment(u, i, p) /\ u[i].nonce = j
    <3> SUFFICES ASSUME NEW j \in 0 .. (m + 1) - 1
                 PROVE  \E i \in DOMAIN u : IsPayment(u, i, p) /\ u[i].nonce = j
      OBVIOUS
    <3>1. CASE j = m
      BY <1>3, <1>8, <3>1
    <3>2. CASE j \in 0 .. m - 1
      BY <1>7, <1>9, <2>1, <3>2 DEF Consumed
    <3> QED  BY <2>3, <3>1, <3>2
  <2>6. \A i, j \in DOMAIN u :
           IsPayment(u, i, p) /\ IsPayment(u, j, p) /\ u[i].nonce = u[j].nonce => i = j
    <3> SUFFICES ASSUME NEW i \in DOMAIN u, NEW j \in DOMAIN u, IsPayment(u, i, p),
                        IsPayment(u, j, p), u[i].nonce = u[j].nonce
                 PROVE  i = j
      OBVIOUS
    <3>1. CASE i = k \/ j = k
      BY <1>3, <2>2, <2>3, <3>1
    <3>2. CASE i # k /\ j # k
      BY <2>1, <2>2, <3>2 DEF Consumed
    <3> QED  BY <3>1, <3>2
  <2> QED  BY <2>4, <2>5, <2>6 DEF Consumed
<1>13. \A a \in Account : Consumed(u, a, M.nonce[a])
  BY <1>2, <1>11, <1>12
<1> QED  BY <1>3, <1>13 DEF NonceIn, u

\* A journal is the beginning of what it becomes when events are appended.
LEMMA BeginsAppended ==
    ASSUME NEW s \in Seq(TokenEvent), NEW new \in Seq(TokenEvent), NEW u, u = s \o new
    PROVE  /\ Begins(s, u)
           /\ Len(u) = Len(s) + Len(new)
           /\ \A i \in 1 .. Len(new) : u[Len(s) + i] = new[i]
<1>1. Len(s) \in Nat /\ Len(new) \in Nat /\ Len(u) = Len(s) + Len(new)
  OBVIOUS
<1>2. DOMAIN s = 1 .. Len(s) /\ DOMAIN u = 1 .. Len(u)
  OBVIOUS
<1>3. \A i \in 1 .. Len(s) : u[i] = s[i]
  OBVIOUS
<1>4. \A i \in 1 .. Len(new) : u[Len(s) + i] = new[i]
  OBVIOUS
<1> QED  BY <1>1, <1>2, <1>3, <1>4 DEF Begins

\* ... or one event.
LEMMA BeginsOneMore ==
    ASSUME NEW s \in Seq(TokenEvent), NEW e \in TokenEvent, NEW u, u = Append(s, e)
    PROVE  /\ Begins(s, u)
           /\ Len(u) = Len(s) + 1 /\ u[Len(s) + 1] = e
           /\ \A i \in 1 .. Len(u) : i > Len(s) => i = Len(s) + 1
<1>1. Len(s) \in Nat /\ Len(u) = Len(s) + 1
  OBVIOUS
<1>2. DOMAIN s = 1 .. Len(s) /\ DOMAIN u = 1 .. Len(u)
  OBVIOUS
<1>3. \A i \in 1 .. Len(s) : u[i] = s[i]
  OBVIOUS
<1>4. u[Len(s) + 1] = e
  BY <1>1
<1> QED  BY <1>1, <1>2, <1>3, <1>4 DEF Begins

LEMMA EnsureNoPayment ==
    ASSUME NEW L \in Ledger, NEW owners
    PROVE  NoPayment(L, Ensure(L, owners))
<1>1. Ensure(L, owners).events = L.events /\ Ensure(L, owners).nonce = L.nonce
  BY DEF Ensure, Ledger
<1>2. Len(L.events) \in Nat /\ DOMAIN L.events = 1 .. Len(L.events)
  BY LedgerFields
<1> QED  BY <1>1, <1>2 DEF NoPayment, Begins

LEMMA MintNoPayment ==
    ASSUME NEW L \in Ledger, NEW kind \in MintKinds, NEW ref \in Account \cup Nat,
           NEW height \in Nat, NEW to \in Account, NEW amount \in Nat
    PROVE  NoPayment(L, Mint(L, kind, ref, height, to, amount))
<1> DEFINE e == MintEvent(kind, ref, height, to, amount)
           M == Mint(L, kind, ref, height, to, amount)
<1>1. e \in TokenEvent /\ e.kind \in MintKinds
  BY DEF MintEvent, TokenEvent
<1>2. M.events = Append(L.events, e) /\ M.nonce = L.nonce
  BY DEF Mint, Ensure, Ledger
<1> HIDE DEF e, M
<1>3. /\ Begins(L.events, M.events)
      /\ M.events[Len(L.events) + 1] = e
      /\ \A i \in 1 .. Len(M.events) : i > Len(L.events) => i = Len(L.events) + 1
  BY <1>1, <1>2, LedgerFields, BeginsOneMore
<1> QED  BY <1>1, <1>2, <1>3 DEF NoPayment, M

LEMMA SeedGenesisNoPayment ==
    ASSUME NEW L \in Ledger, L.minted <= MaxSupply
    PROVE  NoPayment(L, SeedGenesis(L, AgentOrder))
<1>1. CASE GenesisTreasury > Remaining(L)
  BY <1>1, EnsureNoPayment DEF SeedGenesis
<1>2. CASE ~(GenesisTreasury > Remaining(L))
  <2> DEFINE fit == GrantsThatFit(Remaining(L) - GenesisTreasury, Len(AgentOrder))
             new == GenesisEvents(AgentOrder, fit)
             M == SeedGenesis(L, AgentOrder)
             s == L.events
             u == M.events
  <2> HIDE DEF fit, new, M
  <2>1. fit = GrantsThatFit(Remaining(L) - GenesisTreasury, Len(AgentOrder))
    BY DEF fit
  <2>2. /\ u = s \o new /\ M.nonce = L.nonce
        /\ new \in Seq(TokenEvent) /\ Len(new) = fit + 1 /\ fit \in Nat
    BY <1>2, <2>1, GenesisJournal DEF new, M
  <2>3. \A i \in 1 .. Len(new) : new[i].kind \in MintKinds
    <3>1. new = GenesisEvents(AgentOrder, fit)
      BY DEF new
    <3>2. \A i \in 1 .. fit + 1 : GrantAt(new[i], i)
      BY <1>2, <2>1, <3>1, GenesisJournal
    <3> QED  BY <2>2, <3>2 DEF GrantAt, MintKinds
  <2>4. s \in Seq(TokenEvent) /\ Len(s) \in Nat
    BY LedgerFields
  <2> HIDE DEF s, u
  <2>5. /\ Begins(s, u) /\ Len(u) = Len(s) + Len(new) /\ Len(s) \in Nat
        /\ \A i \in 1 .. Len(new) : u[Len(s) + i] = new[i]
    <3>1. u = s \o new
      BY <2>2
    <3>2. Begins(s, u)
      BY <2>2, <2>4, <3>1, BeginsAppended
    <3>3. Len(u) = Len(s) + Len(new)
      BY <2>2, <2>4, <3>1, BeginsAppended
    <3>4. \A i \in 1 .. Len(new) : u[Len(s) + i] = new[i]
      BY <2>2, <2>4, <3>1, BeginsAppended
    <3> QED  BY <2>4, <3>2, <3>3, <3>4
  <2>6. ASSUME NEW i \in 1 .. Len(u), i > Len(s)
        PROVE  u[i].kind \in MintKinds
    <3>1. i - Len(s) \in 1 .. Len(new) /\ Len(s) + (i - Len(s)) = i
      BY <2>2, <2>5, <2>6
    <3> QED  BY <2>3, <2>5, <3>1
  <2> QED  BY <2>2, <2>5, <2>6 DEF NoPayment, M, s, u
<1> QED  BY <1>1, <1>2

LEMMA PayFeeOnePayment ==
    ASSUME NEW L \in Ledger, NEW ref \in Nat \cup Run, NEW kind,
           NEW payer \in Account, NEW payee \in Account, NEW amount \in Nat
    PROVE  OnePayment(L, PayFee(L, ref, kind, payer, payee, amount), payer)
<1> DEFINE e == DebitEvent("fee_settlement", ref, NoHeight, payer, payee, amount,
                           L.nonce[payer])
           M == PayFee(L, ref, kind, payer, payee, amount)
           s == L.events
           u == M.events
<1>1. /\ e \in TokenEvent /\ e.kind = "fee_settlement"
      /\ e.from = payer /\ e.nonce = L.nonce[payer]
  BY LedgerFields DEF DebitEvent, TokenEvent, NoHeight
<1>2. u = Append(s, e) /\ M.nonce = [L.nonce EXCEPT ![payer] = @ + 1]
  BY DEF PayFee, Ensure, Ledger
<1>3. M.nonce[payer] = L.nonce[payer] + 1 /\ \A a \in Account \ {payer} : M.nonce[a] = L.nonce[a]
  BY <1>2, LedgerFields
<1>4. s \in Seq(TokenEvent) /\ Len(s) \in Nat
  BY LedgerFields
<1> HIDE DEF e, M, s, u
<1>5. /\ Begins(s, u)
      /\ Len(u) = Len(s) + 1 /\ u[Len(s) + 1] = e
  BY <1>1, <1>2, <1>4, BeginsOneMore
<1>6. Len(s) + 1 \in 1 .. Len(u) /\ ~(Len(u) > Len(s) + 1)
  BY <1>4, <1>5
<1>7. FeeIsIn(u) /\ IsDebit(u, Len(s) + 1)
  BY <1>1, <1>5, <1>6 DEF FeeIsIn, IsDebit, MintKinds, Begins
<1> QED  BY <1>1, <1>3, <1>5, <1>6, <1>7 DEF OnePayment, M, s, u

LEMMA TransferOnePayment ==
    ASSUME NEW L \in Ledger, NEW t \in Request, TransferAllowed(L, t)
    PROVE  OnePayment(L, Transfer(L, t), t.from)
<1> DEFINE validator == FeeCollector(t.from, t.validator)
           fee == TransferFee(t.amount, t.height, t.memoBytes)
           spend == DebitEvent("transfer", t.ref, t.height, t.from, t.to, t.amount, t.nonce)
           charge == DebitEvent("fee_settlement", t.ref, t.height, t.from, validator, fee,
                                t.nonce)
           M == Transfer(L, t)
           s == L.events
           u == M.events
           new == <<spend, charge>>
           k == Len(s) + 1
<1>1. /\ t.from \in Account /\ t.to \in Account /\ validator \in Account
      /\ t.amount \in Nat /\ t.nonce \in Nat /\ t.ref \in Nat /\ t.height \in Nat
      /\ fee \in Nat
  BY RequestFacts, AccountFacts
<1>2. u = s \o new /\ M.nonce = [L.nonce EXCEPT ![t.from] = @ + 1]
  BY DEF Transfer, Ensure, Ledger
<1>3. /\ M.nonce[t.from] = L.nonce[t.from] + 1
      /\ \A a \in Account \ {t.from} : M.nonce[a] = L.nonce[a]
  BY <1>1, <1>2, LedgerFields
<1> HIDE DEF validator, fee
<1>4. /\ spend \in TokenEvent /\ charge \in TokenEvent
      /\ spend.kind = "transfer" /\ charge.kind = "fee_settlement"
      /\ spend.from = t.from /\ spend.nonce = t.nonce
  BY <1>1 DEF DebitEvent, TokenEvent
<1>5. t.nonce = L.nonce[t.from]
  BY DEF TransferAllowed
<1>6. s \in Seq(TokenEvent) /\ Len(s) \in Nat
  BY LedgerFields
<1> HIDE DEF spend, charge, M, s, u
<1>7. new \in Seq(TokenEvent) /\ Len(new) = 2 /\ new[1] = spend /\ new[2] = charge
  BY <1>4
<1> HIDE DEF new
<1>8. /\ Begins(s, u) /\ Len(u) = Len(s) + 2
      /\ \A i \in 1 .. Len(new) : u[Len(s) + i] = new[i]
  <2>1. u = s \o new
    BY <1>2
  <2>2. Begins(s, u)
    BY <1>6, <1>7, <2>1, BeginsAppended
  <2>3. Len(u) = Len(s) + Len(new)
    BY <1>6, <1>7, <2>1, BeginsAppended
  <2>4. \A i \in 1 .. Len(new) : u[Len(s) + i] = new[i]
    BY <1>6, <1>7, <2>1, BeginsAppended
  <2> QED  BY <1>7, <2>2, <2>3, <2>4
<1>9. u[k] = spend /\ u[Len(u)] = charge /\ k \in 1 .. Len(u) /\ Len(u) = k + 1
  BY <1>6, <1>7, <1>8
<1>10. FeeIsIn(u) /\ IsDebit(u, k)
  BY <1>4, <1>8, <1>9 DEF FeeIsIn, IsDebit, MintKinds, Begins
<1> QED  BY <1>3, <1>4, <1>5, <1>8, <1>9, <1>10 DEF OnePayment, M, s, u

NonceInv == IInv /\ NonceIn(ledger)

LEMMA NonceInit ==
    Init => NonceInv
<1> SUFFICES ASSUME Init PROVE NonceIn(ledger)
  BY IInvInit DEF NonceInv
<1>1. ledger.events = <<>> /\ \A a \in Account : ledger.nonce[a] = 0
  BY DEF Init, EmptyLedger
<1>2. Len(<<>>) = 0 /\ DOMAIN <<>> = {} /\ 0 .. 0 - 1 = {}
  OBVIOUS
<1>3. FeeIsIn(<<>>) /\ \A a : Consumed(<<>>, a, 0)
  BY <1>2 DEF FeeIsIn, Consumed
<1> QED  BY <1>1, <1>3 DEF NonceIn

LEMMA NonceStep ==
    NonceInv /\ [Next]_ledger => NonceInv'
<1> SUFFICES ASSUME IInv, NonceIn(ledger), [Next]_ledger PROVE NonceIn(ledger')
  BY IInvStep DEF NonceInv
<1>0. ledger \in Ledger /\ ledger.minted <= MaxSupply
  BY DEF IInv, TypeOK, SupplyCap
<1>1. CASE Looks(ledger, ledger')
  BY <1>0, <1>1, EnsureNoPayment, NoPaymentKeepsNonces DEF Looks
<1>2. CASE Seeds(ledger, ledger')
  BY <1>0, <1>2, SeedGenesisNoPayment, NoPaymentKeepsNonces DEF Seeds
<1>3. CASE Rewards(ledger, ledger')
  <2>1. NoPayment(ledger, ledger')
    BY <1>0, <1>3, MintNoPayment DEF Rewards, MintKinds
  <2> QED  BY <1>0, <2>1, NoPaymentKeepsNonces
<1>4. CASE Pays(ledger, ledger')
  <2>1. PICK p \in Account : OnePayment(ledger, ledger', p)
    BY <1>0, <1>4, PayFeeOnePayment DEF Pays
  <2> QED  BY <1>0, <2>1, PaymentKeepsNonces
<1>5. CASE Transfers(ledger, ledger')
  <2>1. PICK p \in Account : OnePayment(ledger, ledger', p)
    BY <1>0, <1>5, TransferOnePayment, RequestFacts, AccountFacts DEF Transfers
  <2> QED  BY <1>0, <2>1, PaymentKeepsNonces
<1> QED  BY <1>0, <1>1, <1>2, <1>3, <1>4, <1>5, StepKinds

\* What the invariant says, in the words of the property.
LEMMA NoncesRead ==
    NonceInv => NoncesConsumedOnce
<1> SUFFICES ASSUME NonceInv, NEW a \in Account
             PROVE  LET payments == {i \in Debits : ledger.events[i].from = a /\ ~FeeOfTransfer(i)}
                    IN  /\ {ledger.events[i].nonce : i \in payments} = 0 .. ledger.nonce[a] - 1
                        /\ \A i, j \in payments :
                              ledger.events[i].nonce = ledger.events[j].nonce => i = j
  BY DEF NoncesConsumedOnce
<1> DEFINE s == ledger.events
           n == ledger.nonce[a]
           payments == {i \in Debits : s[i].from = a /\ ~FeeOfTransfer(i)}
<1>1. Consumed(s, a, n)
  BY DEF NonceInv, NonceIn
<1>2. \A i : i \in payments <=> i \in DOMAIN s /\ IsPayment(s, i, a)
  BY DEF Debits, Mints, FeeOfTransfer, IsPayment, IsDebit, FeeBehind
<1> HIDE DEF s, n, payments
<1>3. {s[i].nonce : i \in payments} = 0 .. n - 1
  BY <1>1, <1>2 DEF Consumed
<1>4. \A i, j \in payments : s[i].nonce = s[j].nonce => i = j
  BY <1>1, <1>2 DEF Consumed
<1> QED  BY <1>3, <1>4 DEF s, n, payments

\* Whatever is asked, refused or imported, the payments of an account use up its
\* nonces one after the other, each once: no payment is settled twice.
THEOREM NoncesUsedOnce == Spec => []NoncesConsumedOnce
  BY NonceInit, NonceStep, NoncesRead, PTL DEF Spec

(***************************************************************************)
(* The next halving                                                        *)
(***************************************************************************)

\* Products are ordered as their factors.
LEMMA ProductOrder ==
    ASSUME NEW a \in Nat, NEW b \in Nat, NEW h \in Nat
    PROVE  /\ a * h \in Nat /\ (a + 1) * h = a * h + h
           /\ a <= b => a * h <= b * h
<1>1. \A x, y \in Nat : x * y \in Nat
  OBVIOUS
<1>2. \A x, y \in Nat : (x + 1) * y = x * y + y
  OBVIOUS
<1>3. ASSUME a <= b PROVE a * h <= b * h
  <2>1. b - a \in Nat /\ b = a + (b - a)
    BY <1>3
  <2>2. \A x, y, z \in Nat : (x + y) * z = x * z + y * z
    OBVIOUS
  <2>3. b * h = a * h + (b - a) * h
    BY <2>1, <2>2
  <2>4. (b - a) * h \in Nat /\ a * h \in Nat
    BY <1>1, <2>1
  <2> QED  BY <2>3, <2>4
<1> QED  BY <1>1, <1>2, <1>3

\* A quotient is the number it is squeezed to.
LEMMA QuotientIs ==
    ASSUME NEW a \in Nat, NEW h \in Nat \ {0}, NEW q \in Nat,
           q * h <= a, a < (q + 1) * h
    PROVE  a \div h = q
<1> DEFINE d == a \div h
<1>1. d \in Nat /\ d * h <= a /\ a < (d + 1) * h
  <2>1. \A x \in Nat, y \in Nat \ {0} :
           x \div y \in Nat /\ (x \div y) * y <= x /\ x < ((x \div y) + 1) * y
    OBVIOUS
  <2> QED  BY <2>1
<1> HIDE DEF d
<1>2. ~(d < q)
  <2> SUFFICES ASSUME d + 1 <= q PROVE FALSE
    BY <1>1
  <2>1. (d + 1) * h <= q * h
    BY <1>1, ProductOrder
  <2>2. (d + 1) * h \in Nat /\ q * h \in Nat
    BY <1>1, ProductOrder
  <2> QED  BY <1>1, <2>1, <2>2
<1>3. ~(q < d)
  <2> SUFFICES ASSUME q + 1 <= d PROVE FALSE
    BY <1>1
  <2>1. (q + 1) * h <= d * h
    BY <1>1, ProductOrder
  <2>2. (q + 1) * h \in Nat /\ d * h \in Nat
    BY <1>1, ProductOrder
  <2> QED  BY <1>1, <2>1, <2>2
<1>4. d = q
  BY <1>1, <1>2, <1>3
<1> QED  BY <1>4 DEF d

\* nextRewardBlockHeight is a block height.
LEMMA NextRewardBlockType ==
    ASSUME NEW L \in Ledger
    PROVE  NextRewardBlock(L) \in Nat \ {0}
<1> DEFINE rewards == {j \in DOMAIN L.events : L.events[j].kind = "reward"}
           heights == {L.events[i].height : i \in rewards}
<1>1. Len(L.events) \in Nat /\ DOMAIN L.events = 1 .. Len(L.events)
  BY LedgerFields
<1>2. IsFiniteSet(rewards)
  <2>1. rewards \in SUBSET (1 .. Len(L.events))
    BY <1>1
  <2>2. IsFiniteSet(1 .. Len(L.events))
    BY <1>1, FS_Interval
  <2> HIDE DEF rewards
  <2> QED  BY <2>1, <2>2, FS_Subset
<1>3. IsFiniteSet(heights)
  <2> DEFINE f == [i \in rewards |-> L.events[i].height]
  <2> HIDE DEF rewards
  <2>1. f \in Surjection(rewards, heights)
    BY DEF Surjection
  <2> HIDE DEF f, heights
  <2> QED  BY <1>2, <2>1, FS_Surjection
<1>4. heights \subseteq Nat
  BY <1>1, LedgerFields DEF TokenEvent
<1>5. CASE heights = {}
  BY <1>5 DEF NextRewardBlock
<1>6. CASE heights # {}
  <2> DEFINE top == CHOOSE h \in heights : \A g \in heights : g <= h
  <2>1. \E h \in heights : \A g \in heights : g <= h
    <3> HIDE DEF heights
    <3> QED  BY <1>3, <1>4, <1>6, LargestExists DEF HasLargest
  <2>2. top \in heights
    <3> HIDE DEF heights
    <3> QED  BY <2>1
  <2>3. NextRewardBlock(L) = top + 1
    BY <1>6 DEF NextRewardBlock
  <2>4. top \in Nat
    <3> HIDE DEF heights, top
    <3> QED  BY <1>4, <2>2
  <2> HIDE DEF top, heights, rewards
  <2> QED  BY <2>3, <2>4
<1> QED  BY <1>5, <1>6

\* All blocks of an epoch earn the same reward.
LEMMA SameEpochSameReward ==
    ASSUME NEW b \in Nat \ {0}, NEW c \in Nat \ {0}, Epoch(b) = Epoch(c)
    PROVE  RewardForBlock(b) = RewardForBlock(c)
BY DEF RewardForBlock

LEMMA HalvingIsRight ==
    ASSUME TypeOK
    PROVE  HalvingAnnounced
<1> DEFINE h == HalvingInterval
           next == NextRewardBlock(ledger)
           e == Epoch(next)
           last == NextHalving(ledger)
<1>1. next \in Nat \ {0} /\ h \in Nat \ {0}
  BY NextRewardBlockType, PolicyAssumption DEF TypeOK
<1>2. e = (next - 1) \div h /\ last = ((next + h - 1) \div h) * h
  BY DEF Epoch, NextHalving
<1> HIDE DEF h, next, e, last
<1>3. e \in Nat /\ e * h <= next - 1 /\ next - 1 < (e + 1) * h
  <2>1. \A x \in Nat, y \in Nat \ {0} :
           x \div y \in Nat /\ (x \div y) * y <= x /\ x < ((x \div y) + 1) * y
    OBVIOUS
  <2>2. next - 1 \in Nat
    BY <1>1
  <2> QED  BY <1>1, <1>2, <2>1, <2>2
<1>4. /\ e * h \in Nat /\ (e + 1) * h = e * h + h
      /\ (e + 1) * h \in Nat /\ ((e + 1) + 1) * h = (e + 1) * h + h
  BY <1>1, <1>3, ProductOrder
<1>5. last = (e + 1) * h
  <2>1. /\ (e + 1) * h <= next + h - 1 /\ next + h - 1 < ((e + 1) + 1) * h
        /\ next + h - 1 \in Nat /\ e + 1 \in Nat
    BY <1>1, <1>3, <1>4
  <2> DEFINE a == next + h - 1
             q == e + 1
  <2> HIDE DEF a, q
  <2>2. a \div h = q
    BY <1>1, <2>1, QuotientIs DEF a, q
  <2> QED  BY <1>2, <2>2 DEF a, q
<1>6. next <= last /\ last \in Nat
  BY <1>1, <1>3, <1>4, <1>5
<1>7. ASSUME NEW b \in next .. last
      PROVE  RewardForBlock(b) = RewardForBlock(next)
  <2>1. /\ b \in Nat \ {0} /\ b - 1 \in Nat
        /\ e * h <= b - 1 /\ b - 1 < (e + 1) * h
    BY <1>1, <1>3, <1>4, <1>5, <1>6
  <2>2. (b - 1) \div h = e
    BY <1>1, <1>3, <2>1, QuotientIs
  <2>3. Epoch(b) = Epoch(next)
    BY <2>2 DEF Epoch, h, e
  <2> QED  BY <1>1, <2>1, <2>3, SameEpochSameReward
<1>8. Epoch(last + 1) = Epoch(next) + 1
  <2>1. /\ (e + 1) * h <= last /\ last < ((e + 1) + 1) * h /\ e + 1 \in Nat
    BY <1>1, <1>3, <1>4, <1>5, <1>6
  <2> DEFINE q == e + 1
  <2> HIDE DEF q
  <2>2. last \div h = q
    BY <1>1, <1>6, <2>1, QuotientIs DEF q
  <2>3. (last + 1) - 1 = last
    BY <1>6
  <2>4. Epoch(last + 1) = q
    BY <2>2, <2>3 DEF Epoch, h
  <2> QED  BY <2>4 DEF q, e
<1> QED  BY <1>6, <1>7, <1>8 DEF HalvingAnnounced, next, last

\* The halving that the ledger announces is the right one for every policy and after
\* every history, on the last block of an epoch and on the first.
THEOREM HalvingIsAnnounced == Spec => []HalvingAnnounced
  BY TypeCorrect, HalvingIsRight, PTL

(***************************************************************************)
(* The journal tells the balances                                          *)
(***************************************************************************)

\* The amounts of a journal, and the sum of some of them.
Column(s) == [i \in DOMAIN s |-> s[i].amount]

JournalTotal(s, indices) == MapThenSumSet(LAMBDA i : s[i].amount, indices)

\* g gives every set of events in S its sum.
JournalSums(g, s, S) ==
    g = [t \in SUBSET S |-> IF t = {} THEN 0
                            ELSE s[First(t)].amount + g[t \ {First(t)}]]

\* The property's sums are those of the column.
LEMMA JournalTotalIsTotal ==
    ASSUME NEW s, NEW S \in SUBSET DOMAIN s, IsFiniteSet(S)
    PROVE  JournalTotal(s, S) = Total(Column(s), S)
<1> DEFINE f == Column(s)
           chosen == CHOOSE g : JournalSums(g, s, S)
<1>1. JournalTotal(s, S) = chosen[S]
  BY DEF JournalTotal, MapThenSumSet, MapThenFoldSet, JournalSums, First
<1>2. \A t \in SUBSET S : t # {} => f[First(t)] = s[First(t)].amount
  BY FirstIsMember DEF Column
<1> HIDE DEF f
<1>3. ASSUME NEW g
      PROVE  JournalSums(g, s, S) <=> Sums(g, f, S)
  <2> DEFINE left == [t \in SUBSET S |-> IF t = {} THEN 0
                                         ELSE s[First(t)].amount + g[t \ {First(t)}]]
             right == [t \in SUBSET S |-> IF t = {} THEN 0
                                          ELSE f[First(t)] + g[t \ {First(t)}]]
  <2>1. left = right
    BY <1>2
  <2> QED  BY <2>1 DEF JournalSums, Sums
<1>4. Sums(chosen, f, S)
  <2>1. \E g : Sums(g, f, S)
    BY SumsExist
  <2>2. \E g : JournalSums(g, s, S)
    BY <1>3, <2>1
  <2>3. JournalSums(chosen, s, S)
    BY <2>2
  <2> HIDE DEF chosen
  <2> QED  BY <1>3, <2>3
<1>5. Sums(SumOf(f, S), f, S)
  BY SumsExist DEF SumOf
<1> HIDE DEF chosen
<1>6. chosen[S] = SumOf(f, S)[S]
  BY <1>4, <1>5, SumsUnique
<1> QED  BY <1>1, <1>6, TotalIsSum DEF f

JournalSum(s, indices) == Total(Column(s), indices)

\* The events of journal s that credit a, that debit a, and that issue supply.
CreditsOf(s, a) == {i \in DOMAIN s : s[i].to = a}

ChargesOf(s, a) == {i \in DOMAIN s : IsDebit(s, i) /\ s[i].from = a}

MintsOf(s) == {i \in DOMAIN s : s[i].kind \in MintKinds}

\* Journal s tells the balances b and the supply m.
Tells(s, b, m) ==
    /\ m = JournalSum(s, MintsOf(s))
    /\ \A a \in Account :
          b[a] = JournalSum(s, CreditsOf(s, a)) - JournalSum(s, ChargesOf(s, a))

\* Journal u is journal s and event e.
OneMore(s, u, e) ==
    /\ Begins(s, u)
    /\ Len(u) = Len(s) + 1
    /\ u[Len(s) + 1] = e

LEMMA JournalSumType ==
    ASSUME NEW s \in Seq(TokenEvent), NEW I \in SUBSET DOMAIN s
    PROVE  /\ IsFiniteSet(I)
           /\ \A i \in I : Column(s)[i] \in Nat
           /\ JournalSum(s, I) \in Nat
<1>1. Len(s) \in Nat /\ DOMAIN s = 1 .. Len(s)
  OBVIOUS
<1>2. IsFiniteSet(DOMAIN s)
  BY <1>1, FS_Interval
<1>3. IsFiniteSet(I)
  BY <1>2, FS_Subset
<1>4. \A i \in DOMAIN s : s[i].amount \in Nat
  <2>1. \A i \in DOMAIN s : s[i] \in TokenEvent
    OBVIOUS
  <2>2. \A e \in TokenEvent : e.amount \in Nat
    BY DEF TokenEvent
  <2> QED  BY <2>1, <2>2
<1>5. \A i \in I : Column(s)[i] \in Nat
  BY <1>4 DEF Column
<1> QED  BY <1>3, <1>5, TotalIsNat DEF JournalSum

\* The sum over some of the events of the longer journal.
LEMMA OneMoreSum ==
    ASSUME NEW s \in Seq(TokenEvent), NEW u \in Seq(TokenEvent), NEW e, OneMore(s, u, e),
           NEW I \in SUBSET DOMAIN s, NEW J \in SUBSET DOMAIN u, J \ {Len(s) + 1} = I
    PROVE  JournalSum(u, J) = IF Len(s) + 1 \in J THEN JournalSum(s, I) + e.amount
                                                  ELSE JournalSum(s, I)
<1> DEFINE k == Len(s) + 1
           f == Column(s)
           g == Column(u)
<1>1. Len(s) \in Nat /\ DOMAIN s = 1 .. Len(s) /\ DOMAIN u = 1 .. k
  BY DEF OneMore, Begins
<1>2. /\ \A i \in I : f[i] \in Nat
      /\ IsFiniteSet(I) /\ IsFiniteSet(J)
      /\ \A i \in J : g[i] \in Nat
      /\ JournalSum(s, I) \in Nat
  BY JournalSumType
<1>3. \A i \in I : g[i] = f[i]
  <2>1. \A i \in DOMAIN s : i \in DOMAIN u /\ u[i] = s[i]
    BY <1>1 DEF OneMore, Begins
  <2> QED  BY <2>1 DEF Column
<1> HIDE DEF f
<1>4. Total(g, I) = Total(f, I)
  <2> HIDE DEF g
  <2> QED  BY <1>2, <1>3, TotalSame
<1>5. CASE k \in J
  <2>1. g[k] = e.amount
    BY <1>1, <1>5 DEF Column, OneMore
  <2> HIDE DEF g, k
  <2>2. Total(g, J) = g[k] + Total(g, J \ {k})
    BY <1>2, <1>5, TotalOfOneMore, SMTT(30)
  <2>3. J \ {k} = I
    BY DEF k
  <2>4. Total(g, J) = g[k] + Total(g, I)
    BY <2>2, <2>3
  <2>5. g[k] \in Nat
    BY <1>2, <1>5
  <2> QED  BY <1>2, <1>4, <1>5, <2>1, <2>4, <2>5 DEF JournalSum, f, g, k
<1>6. CASE k \notin J
  <2>1. J = I
    BY <1>6
  <2> QED  BY <1>4, <1>6, <2>1 DEF JournalSum, f
<1> QED  BY <1>5, <1>6

\* What one more event adds to the sums of an account and of the supply.
LEMMA OneMoreAdds ==
    ASSUME NEW s \in Seq(TokenEvent), NEW u \in Seq(TokenEvent), NEW e \in TokenEvent,
           OneMore(s, u, e)
    PROVE  /\ JournalSum(u, MintsOf(u)) =
                 IF e.kind \in MintKinds THEN JournalSum(s, MintsOf(s)) + e.amount
                                         ELSE JournalSum(s, MintsOf(s))
           /\ \A a \in Account :
                 /\ JournalSum(u, CreditsOf(u, a)) =
                       IF e.to = a THEN JournalSum(s, CreditsOf(s, a)) + e.amount
                                   ELSE JournalSum(s, CreditsOf(s, a))
                 /\ JournalSum(u, ChargesOf(u, a)) =
                       IF e.kind \notin MintKinds /\ e.from = a
                       THEN JournalSum(s, ChargesOf(s, a)) + e.amount
                       ELSE JournalSum(s, ChargesOf(s, a))
                 /\ JournalSum(s, CreditsOf(s, a)) \in Nat
                 /\ JournalSum(s, ChargesOf(s, a)) \in Nat
           /\ JournalSum(s, MintsOf(s)) \in Nat
<1> DEFINE k == Len(s) + 1
<1>1. /\ Len(s) \in Nat /\ DOMAIN s = 1 .. Len(s) /\ DOMAIN u = 1 .. k
      /\ u[k] = e /\ \A i \in 1 .. Len(s) : u[i] = s[i]
  BY DEF OneMore, Begins
<1>2. k \notin DOMAIN s /\ k \in DOMAIN u /\ DOMAIN u = DOMAIN s \cup {k}
      /\ \A i \in DOMAIN s : u[i] = s[i]
  BY <1>1
<1>3. JournalSum(u, MintsOf(u)) =
          IF e.kind \in MintKinds THEN JournalSum(s, MintsOf(s)) + e.amount
                                  ELSE JournalSum(s, MintsOf(s))
  <2> DEFINE I == MintsOf(s)
             J == MintsOf(u)
  <2>1. /\ I \in SUBSET DOMAIN s /\ J \in SUBSET DOMAIN u /\ J \ {k} = I
        /\ k \in J <=> e.kind \in MintKinds
    BY <1>1, <1>2 DEF MintsOf
  <2> HIDE DEF I, J
  <2>2. JournalSum(u, J) = IF k \in J THEN JournalSum(s, I) + e.amount ELSE JournalSum(s, I)
    BY <2>1, OneMoreSum
  <2> QED  BY <2>1, <2>2 DEF I, J
<1>4. ASSUME NEW a \in Account
      PROVE  /\ JournalSum(u, CreditsOf(u, a)) =
                   IF e.to = a THEN JournalSum(s, CreditsOf(s, a)) + e.amount
                               ELSE JournalSum(s, CreditsOf(s, a))
             /\ JournalSum(s, CreditsOf(s, a)) \in Nat
  <2> DEFINE I == CreditsOf(s, a)
             J == CreditsOf(u, a)
  <2>1. /\ I \in SUBSET DOMAIN s /\ J \in SUBSET DOMAIN u /\ J \ {k} = I
        /\ k \in J <=> e.to = a
    BY <1>1, <1>2 DEF CreditsOf
  <2> HIDE DEF I, J
  <2>2. JournalSum(u, J) = IF k \in J THEN JournalSum(s, I) + e.amount ELSE JournalSum(s, I)
    BY <2>1, OneMoreSum
  <2>3. JournalSum(s, I) \in Nat
    BY <2>1, JournalSumType
  <2> QED  BY <2>1, <2>2, <2>3 DEF I, J
<1>5. ASSUME NEW a \in Account
      PROVE  /\ JournalSum(u, ChargesOf(u, a)) =
                   IF e.kind \notin MintKinds /\ e.from = a
                   THEN JournalSum(s, ChargesOf(s, a)) + e.amount
                   ELSE JournalSum(s, ChargesOf(s, a))
             /\ JournalSum(s, ChargesOf(s, a)) \in Nat
  <2> DEFINE I == ChargesOf(s, a)
             J == ChargesOf(u, a)
  <2>1. /\ I \in SUBSET DOMAIN s /\ J \in SUBSET DOMAIN u /\ J \ {k} = I
        /\ k \in J <=> (e.kind \notin MintKinds /\ e.from = a)
    BY <1>1, <1>2 DEF ChargesOf, IsDebit
  <2> HIDE DEF I, J
  <2>2. JournalSum(u, J) = IF k \in J THEN JournalSum(s, I) + e.amount ELSE JournalSum(s, I)
    BY <2>1, OneMoreSum
  <2>3. JournalSum(s, I) \in Nat
    BY <2>1, JournalSumType
  <2> QED  BY <2>1, <2>2, <2>3 DEF I, J
<1>6. JournalSum(s, MintsOf(s)) \in Nat
  <2>1. MintsOf(s) \in SUBSET DOMAIN s
    BY DEF MintsOf
  <2> QED  BY <2>1, JournalSumType
<1> QED  BY <1>3, <1>4, <1>5, <1>6

\* An event that issues supply to an account keeps the books.
LEMMA MintTells ==
    ASSUME NEW s \in Seq(TokenEvent), NEW u \in Seq(TokenEvent), NEW e \in TokenEvent,
           OneMore(s, u, e), NEW b, NEW m, Tells(s, b, m), e.kind \in MintKinds,
           NEW c, NEW n, n = m + e.amount, c[e.to] = b[e.to] + e.amount,
           \A a \in Account : a # e.to => c[a] = b[a]
    PROVE  Tells(u, c, n)
<1>1. n = JournalSum(u, MintsOf(u))
  <2>1. m = JournalSum(s, MintsOf(s))
    BY DEF Tells
  <2> QED  BY <2>1, OneMoreAdds
<1>2. ASSUME NEW a \in Account
      PROVE  c[a] = JournalSum(u, CreditsOf(u, a)) - JournalSum(u, ChargesOf(u, a))
  <2>1. b[a] = JournalSum(s, CreditsOf(s, a)) - JournalSum(s, ChargesOf(s, a))
    BY DEF Tells
  <2>2. /\ JournalSum(u, CreditsOf(u, a)) =
              IF e.to = a THEN JournalSum(s, CreditsOf(s, a)) + e.amount
                          ELSE JournalSum(s, CreditsOf(s, a))
        /\ JournalSum(u, ChargesOf(u, a)) = JournalSum(s, ChargesOf(s, a))
        /\ JournalSum(s, CreditsOf(s, a)) \in Nat
        /\ JournalSum(s, ChargesOf(s, a)) \in Nat
    BY OneMoreAdds
  <2>3. e.amount \in Nat
    BY DEF TokenEvent
  <2> QED  BY <2>1, <2>2, <2>3
<1> QED  BY <1>1, <1>2 DEF Tells

\* An event that moves an amount between two accounts does.
LEMMA DebitTells ==
    ASSUME NEW s \in Seq(TokenEvent), NEW u \in Seq(TokenEvent), NEW e \in TokenEvent,
           OneMore(s, u, e), NEW b, NEW m, Tells(s, b, m), e.kind \notin MintKinds,
           e.from # e.to,
           NEW c, c[e.from] = b[e.from] - e.amount, c[e.to] = b[e.to] + e.amount,
           \A a \in Account : a # e.from /\ a # e.to => c[a] = b[a]
    PROVE  Tells(u, c, m)
<1>1. m = JournalSum(u, MintsOf(u))
  <2>1. m = JournalSum(s, MintsOf(s))
    BY DEF Tells
  <2> QED  BY <2>1, OneMoreAdds
<1>2. ASSUME NEW a \in Account
      PROVE  c[a] = JournalSum(u, CreditsOf(u, a)) - JournalSum(u, ChargesOf(u, a))
  <2>1. b[a] = JournalSum(s, CreditsOf(s, a)) - JournalSum(s, ChargesOf(s, a))
    BY DEF Tells
  <2>2. /\ JournalSum(u, CreditsOf(u, a)) =
              IF e.to = a THEN JournalSum(s, CreditsOf(s, a)) + e.amount
                          ELSE JournalSum(s, CreditsOf(s, a))
        /\ JournalSum(s, CreditsOf(s, a)) \in Nat
        /\ JournalSum(s, ChargesOf(s, a)) \in Nat
    BY OneMoreAdds
  <2>3. JournalSum(u, ChargesOf(u, a)) =
              IF e.from = a THEN JournalSum(s, ChargesOf(s, a)) + e.amount
                            ELSE JournalSum(s, ChargesOf(s, a))
    BY OneMoreAdds
  <2>4. e.amount \in Nat
    BY DEF TokenEvent
  <2> QED  BY <2>1, <2>2, <2>3, <2>4
<1> QED  BY <1>1, <1>2 DEF Tells

\* The journal of ledger L tells its balances and its supply.
Told(L) == Tells(L.events, L.balance, L.minted)

LEMMA EnsureTold ==
    ASSUME NEW L \in Ledger, Told(L), NEW owners
    PROVE  Told(Ensure(L, owners))
<1>1. /\ Ensure(L, owners).events = L.events
      /\ Ensure(L, owners).balance = L.balance
      /\ Ensure(L, owners).minted = L.minted
  BY DEF Ensure, Ledger
<1> QED  BY <1>1 DEF Told

LEMMA OneMoreIsAppend ==
    ASSUME NEW s \in Seq(TokenEvent), NEW e \in TokenEvent, NEW u, u = Append(s, e)
    PROVE  u \in Seq(TokenEvent) /\ OneMore(s, u, e)
<1>1. u \in Seq(TokenEvent)
  OBVIOUS
<1>2. Begins(s, u) /\ Len(u) = Len(s) + 1 /\ u[Len(s) + 1] = e
  BY BeginsOneMore
<1> QED  BY <1>1, <1>2 DEF OneMore

LEMMA MintTold ==
    ASSUME NEW L \in Ledger, Told(L), NEW kind \in MintKinds, NEW ref \in Account \cup Nat,
           NEW height \in Nat, NEW to \in Account, NEW amount \in Nat
    PROVE  Told(Mint(L, kind, ref, height, to, amount))
<1> DEFINE e == MintEvent(kind, ref, height, to, amount)
           M == Mint(L, kind, ref, height, to, amount)
           s == L.events
           u == M.events
           b == L.balance
           c == M.balance
           m == L.minted
           n == M.minted
<1>1. e \in TokenEvent /\ e.kind \in MintKinds /\ e.to = to /\ e.amount = amount
  BY DEF MintEvent, TokenEvent
<1>2. u = Append(s, e) /\ n = m + amount /\ c = [b EXCEPT ![to] = @ + amount]
  BY DEF Mint, Ensure, Ledger
<1>3. c[to] = b[to] + amount /\ \A a \in Account : a # to => c[a] = b[a]
  BY <1>2, LedgerFields
<1>4. s \in Seq(TokenEvent) /\ Tells(s, b, m)
  BY LedgerFields DEF Told
<1> HIDE DEF e, M, s, u, b, c, m, n
<1>5. u \in Seq(TokenEvent) /\ OneMore(s, u, e)
  BY <1>1, <1>2, <1>4, OneMoreIsAppend
<1>6. n = m + e.amount /\ c[e.to] = b[e.to] + e.amount
      /\ \A a \in Account : a # e.to => c[a] = b[a]
  BY <1>1, <1>2, <1>3
<1>7. Tells(u, c, n)
  BY <1>1, <1>4, <1>5, <1>6, MintTells
<1> QED  BY <1>7 DEF Told, M, u, c, n

LEMMA PayFeeTold ==
    ASSUME NEW L \in Ledger, Told(L), NEW ref \in Nat \cup Run, NEW kind,
           NEW payer \in Account, NEW payee \in Account, NEW amount \in Nat, payer # payee
    PROVE  Told(PayFee(L, ref, kind, payer, payee, amount))
<1> DEFINE e == DebitEvent("fee_settlement", ref, NoHeight, payer, payee, amount,
                           L.nonce[payer])
           M == PayFee(L, ref, kind, payer, payee, amount)
           s == L.events
           u == M.events
           b == L.balance
           c == M.balance
           m == L.minted
<1>1. /\ e \in TokenEvent /\ e.kind \notin MintKinds
      /\ e.from = payer /\ e.to = payee /\ e.amount = amount
  BY LedgerFields DEF DebitEvent, TokenEvent, NoHeight, MintKinds
<1>2. /\ u = Append(s, e) /\ M.minted = m
      /\ c = [b EXCEPT ![payer] = b[payer] - amount, ![payee] = b[payee] + amount]
  BY DEF PayFee, Ensure, Ledger
<1>3. /\ c[payer] = b[payer] - amount /\ c[payee] = b[payee] + amount
      /\ \A a \in Account : a # payer /\ a # payee => c[a] = b[a]
  BY <1>2, LedgerFields
<1>4. s \in Seq(TokenEvent) /\ Tells(s, b, m)
  BY LedgerFields DEF Told
<1> HIDE DEF e, M, s, u, b, c, m
<1>5. u \in Seq(TokenEvent) /\ OneMore(s, u, e)
  BY <1>1, <1>2, <1>4, OneMoreIsAppend
<1>6. /\ e.from # e.to
      /\ c[e.from] = b[e.from] - e.amount /\ c[e.to] = b[e.to] + e.amount
      /\ \A a \in Account : a # e.from /\ a # e.to => c[a] = b[a]
  BY <1>1, <1>3
<1>7. Tells(u, c, m)
  BY <1>1, <1>4, <1>5, <1>6, DebitTells
<1> QED  BY <1>2, <1>7 DEF Told, M, u, c

\* What an allowed transfer does to the balances, as two payments of the sender.
LEMMA TransferPayments ==
    ASSUME NEW L \in Ledger, NEW t \in Request, TransferAllowed(L, t)
    PROVE  \E mid \in [Account -> Nat] :
              LET b == L.balance
                  c == TransferBalances(L, t)
                  v == FeeCollector(t.from, t.validator)
                  fee == TransferFee(t.amount, t.height, t.memoBytes)
              IN  /\ mid[t.from] = b[t.from] - t.amount
                  /\ mid[t.to] = b[t.to] + t.amount
                  /\ \A a \in Account : a # t.from /\ a # t.to => mid[a] = b[a]
                  /\ c[t.from] = mid[t.from] - fee
                  /\ c[v] = mid[v] + fee
                  /\ \A a \in Account : a # t.from /\ a # v => c[a] = mid[a]
<1> DEFINE b == L.balance
           v == FeeCollector(t.from, t.validator)
           fee == TransferFee(t.amount, t.height, t.memoBytes)
           total == TransferTotal(t)
           mid == [b EXCEPT ![t.from] = b[t.from] - t.amount, ![t.to] = b[t.to] + t.amount]
           paid == [b EXCEPT ![t.from] = b[t.from] - total, ![t.to] = b[t.to] + t.amount]
           base == IF v = t.to THEN paid[t.to] ELSE b[v]
           c == TransferBalances(L, t)
<1>1. /\ t.from \in Account /\ t.to \in Account /\ v \in Account
      /\ t.from # t.to /\ v # t.from
      /\ t.amount \in Nat /\ fee \in Nat
      /\ b \in [Account -> Nat]
  BY RequestFacts, AccountFacts, LedgerFields DEF TransferAllowed
<1>2. total = t.amount + fee /\ b[t.from] >= total
  BY DEF TransferTotal, TransferAllowed
<1>3. c = [paid EXCEPT ![v] = base + fee]
  BY DEF TransferBalances
<1> HIDE DEF v, fee, total, b, c
<1>4. b[t.from] \in Nat /\ b[t.to] \in Nat /\ b[t.from] - t.amount \in Nat
      /\ b[t.to] + t.amount \in Nat
  BY <1>1, <1>2
<1>5. mid \in [Account -> Nat]
  BY <1>1, <1>4
<1>6. /\ mid[t.from] = b[t.from] - t.amount /\ mid[t.to] = b[t.to] + t.amount
      /\ \A a \in Account : a # t.from /\ a # t.to => mid[a] = b[a]
  BY <1>1
<1>7. /\ paid[t.from] = b[t.from] - total /\ paid[t.to] = b[t.to] + t.amount
      /\ \A a \in Account : a # t.from /\ a # t.to => paid[a] = b[a]
      /\ DOMAIN paid = Account
  BY <1>1
<1>8. base = mid[v]
  BY <1>1, <1>6, <1>7
<1> HIDE DEF mid, paid, base
<1>9. /\ c[v] = mid[v] + fee
      /\ \A a \in Account : a # v => c[a] = paid[a]
  BY <1>1, <1>3, <1>7, <1>8
<1>10. c[t.from] = mid[t.from] - fee
  BY <1>1, <1>2, <1>4, <1>6, <1>7, <1>9
<1>11. \A a \in Account : a # t.from /\ a # v => c[a] = mid[a]
  BY <1>1, <1>6, <1>7, <1>9
<1> QED  BY <1>5, <1>6, <1>9, <1>10, <1>11 DEF c, b, v, fee

LEMMA TransferTold ==
    ASSUME NEW L \in Ledger, Told(L), NEW t \in Request, TransferAllowed(L, t)
    PROVE  Told(Transfer(L, t))
<1> DEFINE v == FeeCollector(t.from, t.validator)
           fee == TransferFee(t.amount, t.height, t.memoBytes)
           spend == DebitEvent("transfer", t.ref, t.height, t.from, t.to, t.amount, t.nonce)
           charge == DebitEvent("fee_settlement", t.ref, t.height, t.from, v, fee, t.nonce)
           M == Transfer(L, t)
           s == L.events
           w == Append(s, spend)
           u == Append(w, charge)
           b == L.balance
           c == TransferBalances(L, t)
           m == L.minted
<1>1. PICK mid \in [Account -> Nat] :
          /\ mid[t.from] = b[t.from] - t.amount
          /\ mid[t.to] = b[t.to] + t.amount
          /\ \A a \in Account : a # t.from /\ a # t.to => mid[a] = b[a]
          /\ c[t.from] = mid[t.from] - fee
          /\ c[v] = mid[v] + fee
          /\ \A a \in Account : a # t.from /\ a # v => c[a] = mid[a]
  BY TransferPayments
<1>2. /\ t.from \in Account /\ t.to \in Account /\ v \in Account
      /\ t.from # t.to /\ v # t.from
      /\ t.amount \in Nat /\ t.nonce \in Nat /\ t.ref \in Nat /\ t.height \in Nat
      /\ fee \in Nat
  BY RequestFacts, AccountFacts DEF TransferAllowed
<1>3. /\ M.events = s \o <<spend, charge>> /\ M.balance = c /\ M.minted = m
  BY DEF Transfer, Ensure, Ledger
<1> HIDE DEF v, fee
<1>4. /\ spend \in TokenEvent /\ spend.kind \notin MintKinds
      /\ spend.from = t.from /\ spend.to = t.to /\ spend.amount = t.amount
  BY <1>2 DEF DebitEvent, TokenEvent, MintKinds
<1>5. /\ charge \in TokenEvent /\ charge.kind \notin MintKinds
      /\ charge.from = t.from /\ charge.to = v /\ charge.amount = fee
  BY <1>2 DEF DebitEvent, TokenEvent, MintKinds
<1>6. s \in Seq(TokenEvent) /\ Tells(s, b, m)
  BY LedgerFields DEF Told
<1> HIDE DEF spend, charge, s, b, c, m, M
<1>7. M.events = u
  BY <1>3, <1>4, <1>5, <1>6
<1> HIDE DEF w, u
<1>8. w \in Seq(TokenEvent) /\ OneMore(s, w, spend)
  BY <1>4, <1>6, OneMoreIsAppend DEF w
<1>9. u \in Seq(TokenEvent) /\ OneMore(w, u, charge)
  BY <1>5, <1>8, OneMoreIsAppend DEF u
<1>10. Tells(w, mid, m)
  <2>1. /\ spend.from # spend.to
        /\ mid[spend.from] = b[spend.from] - spend.amount
        /\ mid[spend.to] = b[spend.to] + spend.amount
        /\ \A a \in Account : a # spend.from /\ a # spend.to => mid[a] = b[a]
    BY <1>1, <1>2, <1>4
  <2> QED  BY <1>4, <1>6, <1>8, <2>1, DebitTells
<1>11. Tells(u, c, m)
  <2>1. /\ charge.from # charge.to
        /\ c[charge.from] = mid[charge.from] - charge.amount
        /\ c[charge.to] = mid[charge.to] + charge.amount
        /\ \A a \in Account : a # charge.from /\ a # charge.to => c[a] = mid[a]
    BY <1>1, <1>2, <1>5
  <2> QED  BY <1>5, <1>8, <1>9, <1>10, <2>1, DebitTells
<1> QED  BY <1>3, <1>7, <1>11 DEF Told, M, c, m

\* The sum of a set of events of one amount.
LEMMA EqualAmounts ==
    ASSUME NEW s \in Seq(TokenEvent), NEW I \in SUBSET DOMAIN s, NEW x \in Nat,
           \A i \in I : s[i].amount = x
    PROVE  JournalSum(s, I) = Cardinality(I) * x
<1> DEFINE f == Column(s)
           zero == [i \in I |-> 0]
<1>1. IsFiniteSet(I)
  BY JournalSumType
<1>2. \A i \in I : zero[i] \in Nat /\ f[i] = zero[i] + x
  BY DEF Column
<1>3. \A i \in I : zero[i] = 0
  OBVIOUS
<1> HIDE DEF f, zero
<1>4. Total(f, I) = Total(zero, I) + Cardinality(I) * x
  BY <1>1, <1>2, TotalShifted
<1>5. Total(zero, I) = 0
  BY <1>1, <1>3, TotalOfNothing
<1>6. Cardinality(I) * x \in Nat
  <2>1. \A p, q \in Nat : p * q \in Nat
    OBVIOUS
  <2> QED  BY <1>1, <2>1, FS_CardinalityType
<1> QED  BY <1>4, <1>5, <1>6 DEF JournalSum, f

LEMMA EmptyJournal ==
    ASSUME NEW b, NEW m, Tells(<<>>, b, m)
    PROVE  m = 0 /\ \A a \in Account : b[a] = 0
<1>1. /\ MintsOf(<<>>) = {}
      /\ \A a : CreditsOf(<<>>, a) = {} /\ ChargesOf(<<>>, a) = {}
  BY DEF MintsOf, CreditsOf, ChargesOf
<1>2. JournalSum(<<>>, {}) = 0
  BY TotalOfNone DEF JournalSum
<1>3. m = 0
  BY <1>1, <1>2 DEF Tells
<1>4. ASSUME NEW a \in Account PROVE b[a] = 0
  <2>1. b[a] = JournalSum(<<>>, CreditsOf(<<>>, a)) - JournalSum(<<>>, ChargesOf(<<>>, a))
    BY DEF Tells
  <2>2. b[a] = JournalSum(<<>>, {}) - JournalSum(<<>>, {})
    BY <1>1, <2>1
  <2> QED  BY <1>2, <2>2
<1> QED  BY <1>3, <1>4

\* What genesis issues is what it credits, each agent that is paid once.
LEMMA SeedGenesisTold ==
    ASSUME NEW L \in Ledger, ~Seeded(L), L.minted <= MaxSupply, Told(L)
    PROVE  Told(SeedGenesis(L, AgentOrder))
<1>1. CASE GenesisTreasury > Remaining(L)
  BY <1>1, EnsureTold DEF SeedGenesis
<1>2. CASE ~(GenesisTreasury > Remaining(L))
  <2> DEFINE fit == GrantsThatFit(Remaining(L) - GenesisTreasury, Len(AgentOrder))
             new == GenesisEvents(AgentOrder, fit)
             M == SeedGenesis(L, AgentOrder)
             paid == {AgentOrder[i] : i \in 1 .. fit}
  <2>1. L.events = <<>> /\ L.minted = 0 /\ \A a \in Account : L.balance[a] = 0
    <3>1. L.events = <<>>
      BY DEF Seeded
    <3> QED  BY <3>1, EmptyJournal DEF Told
  <2>2. /\ M.minted = L.minted + GenesisTreasury + fit * GenesisGrant
        /\ M.balance = GenesisBalance(L.balance, paid)
    BY <1>2 DEF SeedGenesis, Ensure, Ledger
  <2> HIDE DEF M, fit, new
  <2>3. fit = GrantsThatFit(Remaining(L) - GenesisTreasury, Len(AgentOrder))
    BY DEF fit
  <2>4. new = GenesisEvents(AgentOrder, fit)
    BY DEF new
  <2>5. /\ M.events = L.events \o new /\ new \in Seq(TokenEvent) /\ Len(new) = fit + 1
        /\ fit \in Nat /\ fit \in 0 .. Len(AgentOrder)
    BY <1>2, <2>3, <2>4, GenesisJournal DEF M
  <2>6. \A i \in 1 .. fit + 1 : GrantAt(new[i], i)
    BY <1>2, <2>3, <2>4, GenesisJournal
  <2>7. M.events = new /\ DOMAIN new = 1 .. fit + 1
    BY <2>1, <2>5
  <2>8. \A i \in 1 .. fit : AgentOrder[i] \in Agent
    BY <2>5, LedgerAssumption
  <2>9. \A i, j \in 1 .. fit : AgentOrder[i] = AgentOrder[j] => i = j
    BY <2>5, LedgerAssumption
  <2> DEFINE rest == 2 .. fit + 1
  <2>10. rest \in SUBSET DOMAIN new /\ 1 \in DOMAIN new /\ 1 \notin rest
         /\ DOMAIN new = {1} \cup rest
    BY <2>5, <2>7
  <2>11. Cardinality(rest) = fit /\ IsFiniteSet(rest)
    BY <2>5, FS_Interval
  <2>12. /\ new[1].kind = "genesis" /\ new[1].to = Treasury
         /\ new[1].amount = GenesisTreasury
    BY <2>6, <2>10, <2>7 DEF GrantAt
  <2>13. \A i \in rest : /\ new[i].kind = "genesis" /\ i - 1 \in 1 .. fit
                         /\ new[i].to = AgentOrder[i - 1]
                         /\ new[i].amount = GenesisGrant
    BY <2>5, <2>6 DEF GrantAt
  <2> HIDE DEF rest
  <2>14. GenesisGrant \in Nat /\ GenesisTreasury \in Nat
    BY PolicyAssumption
  <2>15. JournalSum(new, rest) = fit * GenesisGrant
    <3>1. \A i \in rest : new[i].amount = GenesisGrant
      BY <2>13
    <3>2. new \in Seq(TokenEvent) /\ rest \in SUBSET DOMAIN new /\ GenesisGrant \in Nat
      BY <2>5, <2>10, <2>14
    <3> HIDE DEF new
    <3>3. JournalSum(new, rest) = Cardinality(rest) * GenesisGrant
      BY <3>1, <3>2, EqualAmounts
    <3> QED BY <2>11, <3>3
  <2>16. \A i \in DOMAIN new : JournalSum(new, {i}) = new[i].amount
    <3> SUFFICES ASSUME NEW i \in DOMAIN new PROVE JournalSum(new, {i}) = new[i].amount
      OBVIOUS
    <3>1. Column(new)[i] \in Nat /\ Column(new)[i] = new[i].amount
      <4>1. DOMAIN new \in SUBSET DOMAIN new
        OBVIOUS
      <4> QED  BY <2>5, <4>1, JournalSumType DEF Column
    <3> QED  BY <3>1, TotalOfOne DEF JournalSum
  <2>17. JournalSum(new, {}) = 0
    BY TotalOfNone DEF JournalSum
  <2>18. M.minted = JournalSum(new, MintsOf(new))
    <3>1. MintsOf(new) = {1} \cup rest
      BY <2>10, <2>12, <2>13 DEF MintsOf, MintKinds
    <3> DEFINE one == {1}
    <3>2. one \in SUBSET DOMAIN new /\ one \cap rest = {}
      BY <2>10
    <3>3. one \cup rest \in SUBSET DOMAIN new
      BY <2>10
    <3>4. JournalSum(new, one) = GenesisTreasury
      BY <2>10, <2>12, <2>16
    <3> HIDE DEF one
    <3>5. JournalSum(new, one \cup rest) = JournalSum(new, one) + JournalSum(new, rest)
      <4> DEFINE f == Column(new)
      <4>1. /\ IsFiniteSet(one) /\ IsFiniteSet(rest)
            /\ \A i \in one \cup rest : f[i] \in Nat
        BY <2>5, <2>10, <3>2, <3>3, JournalSumType
      <4> HIDE DEF f
      <4> QED  BY <3>2, <4>1, TotalSplit DEF JournalSum, f
    <3>6. JournalSum(new, MintsOf(new)) = GenesisTreasury + fit * GenesisGrant
      BY <2>15, <3>1, <3>4, <3>5 DEF one
    <3>7. fit * GenesisGrant \in Nat
      <4>1. \A p, q \in Nat : p * q \in Nat
        OBVIOUS
      <4> QED  BY <2>5, <2>14, <4>1
    <3> QED  BY <2>1, <2>2, <2>14, <3>6, <3>7
  <2>19. ASSUME NEW a \in Account
         PROVE  M.balance[a] = JournalSum(new, CreditsOf(new, a))
                                   - JournalSum(new, ChargesOf(new, a))
    <3>1. ChargesOf(new, a) = {}
      BY <2>10, <2>12, <2>13 DEF ChargesOf, IsDebit, MintKinds
    <3>2. CASE a = Treasury
      <4>1. CreditsOf(new, a) = {1}
        BY <2>8, <2>10, <2>12, <2>13, <3>2, PolicyAssumption DEF CreditsOf
      <4>2. M.balance[a] = GenesisTreasury
        <5>1. a \notin paid
          BY <2>8, <3>2, PolicyAssumption
        <5> QED  BY <2>1, <2>2, <2>14, <3>2, <5>1 DEF GenesisBalance
      <4> QED  BY <2>10, <2>12, <2>14, <2>16, <2>17, <3>1, <4>1, <4>2
    <3>3. CASE a \in paid
      <4>1. PICK j \in 1 .. fit : a = AgentOrder[j]
        BY <3>3
      <4>2. a # Treasury
        BY <2>8, <4>1, PolicyAssumption
      <4>3. j + 1 \in rest /\ (j + 1) - 1 = j
        BY <2>5 DEF rest
      <4>4. CreditsOf(new, a) = {j + 1}
        <5>1. \A i \in rest : new[i].to = a => i = j + 1
          <6> SUFFICES ASSUME NEW i \in rest, new[i].to = a PROVE i = j + 1
            OBVIOUS
          <6>1. i - 1 = j
            BY <2>9, <2>13, <4>1
          <6>2. i \in Nat /\ j \in Nat
            BY <2>5 DEF rest
          <6> QED  BY <6>1, <6>2
        <5>2. new[j + 1].to = a
          BY <2>13, <4>1, <4>3
        <5> QED  BY <2>10, <2>12, <4>2, <4>3, <5>1, <5>2 DEF CreditsOf
      <4>5. M.balance[a] = GenesisGrant
        BY <2>1, <2>2, <2>14, <3>3, <4>2 DEF GenesisBalance
      <4>6. JournalSum(new, {j + 1}) = GenesisGrant
        BY <2>10, <2>13, <2>16, <4>3
      <4> QED  BY <2>14, <2>17, <3>1, <4>4, <4>5, <4>6
    <3>4. CASE a # Treasury /\ a \notin paid
      <4>1. CreditsOf(new, a) = {}
        BY <2>10, <2>12, <2>13, <3>4 DEF CreditsOf
      <4>2. M.balance[a] = 0
        BY <2>1, <2>2, <3>4 DEF GenesisBalance
      <4> QED  BY <2>17, <3>1, <4>1, <4>2
    <3> QED  BY <3>2, <3>3, <3>4
  <2> QED  BY <2>7, <2>18, <2>19 DEF Told, Tells, M
<1> QED  BY <1>1, <1>2

ToldInv == IInv /\ Told(ledger)

LEMMA ToldInit ==
    Init => ToldInv
<1> SUFFICES ASSUME Init PROVE Told(ledger)
  BY IInvInit DEF ToldInv
<1>1. /\ ledger.events = <<>> /\ ledger.minted = 0
      /\ \A a \in Account : ledger.balance[a] = 0
  BY DEF Init, EmptyLedger
<1>2. /\ MintsOf(<<>>) = {}
      /\ \A a : CreditsOf(<<>>, a) = {} /\ ChargesOf(<<>>, a) = {}
  BY DEF MintsOf, CreditsOf, ChargesOf
<1>3. JournalSum(<<>>, {}) = 0
  BY TotalOfNone DEF JournalSum
<1>4. ledger.minted = JournalSum(ledger.events, MintsOf(ledger.events))
  BY <1>1, <1>2, <1>3
<1>5. ASSUME NEW a \in Account
      PROVE  ledger.balance[a] = JournalSum(ledger.events, CreditsOf(ledger.events, a))
                                    - JournalSum(ledger.events, ChargesOf(ledger.events, a))
  <2>1. CreditsOf(ledger.events, a) = {} /\ ChargesOf(ledger.events, a) = {}
    BY <1>1, <1>2
  <2>2. JournalSum(ledger.events, {}) = 0 /\ ledger.balance[a] = 0
    BY <1>1, <1>3
  <2> DEFINE z == JournalSum(ledger.events, {})
  <2>3. ledger.balance[a] = z - z
    BY <2>2
  <2> QED  BY <2>1, <2>3
<1> QED  BY <1>4, <1>5 DEF Told, Tells

LEMMA ToldStep ==
    ToldInv /\ [Next]_ledger => ToldInv'
<1> SUFFICES ASSUME IInv, Told(ledger), [Next]_ledger PROVE Told(ledger')
  BY IInvStep DEF ToldInv
<1>0. ledger \in Ledger /\ ledger.minted <= MaxSupply
  BY DEF IInv, TypeOK, SupplyCap
<1>1. CASE Looks(ledger, ledger')
  BY <1>0, <1>1, EnsureTold DEF Looks
<1>2. CASE Seeds(ledger, ledger')
  BY <1>0, <1>2, SeedGenesisTold DEF Seeds
<1>3. CASE Rewards(ledger, ledger')
  BY <1>0, <1>3, MintTold DEF Rewards, MintKinds
<1>4. CASE Pays(ledger, ledger')
  BY <1>0, <1>4, PayFeeTold DEF Pays
<1>5. CASE Transfers(ledger, ledger')
  BY <1>0, <1>5, TransferTold DEF Transfers
<1> QED  BY <1>0, <1>1, <1>2, <1>3, <1>4, <1>5, StepKinds

\* What the invariant says, in the words of the property.
LEMMA ToldRead ==
    ToldInv => JournalReplays
<1> SUFFICES ASSUME ToldInv PROVE JournalReplays
  OBVIOUS
<1> DEFINE s == ledger.events
<1>1. s \in Seq(TokenEvent)
  BY LedgerFields DEF ToldInv, IInv, TypeOK
<1>2. ASSUME NEW I \in SUBSET DOMAIN s PROVE Amounts(I) = JournalSum(s, I)
  <2>1. Amounts(I) = JournalTotal(s, I)
    BY DEF Amounts, JournalTotal
  <2>2. IsFiniteSet(I)
    <3> HIDE DEF s
    <3> QED  BY <1>1, JournalSumType
  <2> HIDE DEF s
  <2>3. JournalTotal(s, I) = Total(Column(s), I)
    BY <2>2, JournalTotalIsTotal
  <2> QED  BY <2>1, <2>3 DEF JournalSum
<1>3. Mints = MintsOf(s) /\ Mints \in SUBSET DOMAIN s
  BY DEF Mints, MintsOf
<1>4. ledger.minted = Amounts(Mints)
  <2>1. ledger.minted = JournalSum(s, MintsOf(s))
    BY DEF ToldInv, Told, Tells
  <2> QED  BY <1>2, <1>3, <2>1
<1>5. ASSUME NEW a \in Account
      PROVE  ledger.balance[a] = Amounts({i \in DOMAIN ledger.events : ledger.events[i].to = a})
                                    - Amounts({i \in Debits : ledger.events[i].from = a})
  <2> DEFINE I == {i \in DOMAIN ledger.events : ledger.events[i].to = a}
             J == {i \in Debits : ledger.events[i].from = a}
  <2>1. ledger.balance[a] = JournalSum(s, CreditsOf(s, a)) - JournalSum(s, ChargesOf(s, a))
    BY DEF ToldInv, Told, Tells
  <2>2. I = CreditsOf(s, a) /\ I \in SUBSET DOMAIN s
    BY DEF CreditsOf
  <2>3. J = ChargesOf(s, a) /\ J \in SUBSET DOMAIN s
    BY DEF ChargesOf, IsDebit, Debits, Mints
  <2> HIDE DEF I, J, s
  <2>4. Amounts(I) = JournalSum(s, I) /\ Amounts(J) = JournalSum(s, J)
    BY <1>2, <2>2, <2>3
  <2>5. ledger.balance[a] = Amounts(I) - Amounts(J)
    BY <2>1, <2>2, <2>3, <2>4
  <2> QED  BY <2>5 DEF I, J
<1> QED  BY <1>4, <1>5 DEF JournalReplays

\* The journal alone tells every balance and the supply, after any calls: a transfer
\* whose validator is its recipient, an imported fee or a genesis cut short included.
THEOREM JournalTellsBalances == Spec => []JournalReplays
  BY ToldInit, ToldStep, ToldRead, PTL DEF Spec

(***************************************************************************)
(* The ledger is a fixed-cap asset                                         *)
(*                                                                         *)
(* The mapping needs one invariant more: what the accounts hold together   *)
(* is the supply, so that a payment, which issues nothing, keeps the sum.  *)
(***************************************************************************)

LEMMA AccountsAreFinite ==
    IsFiniteSet(Account)
<1>1. IsFiniteSet({Treasury}) /\ IsFiniteSet(Agent)
  BY LedgerAssumption, FS_Singleton
<1> QED  BY <1>1, FS_Union DEF Account

Held(b) == Total(b, Account)

\* The accounts hold the supply, no more and no less.
Covered(L) == Held(L.balance) = L.minted

LEMMA HeldOneChanged ==
    ASSUME NEW b \in [Account -> Nat], NEW c \in [Account -> Nat], NEW p \in Account,
           \A a \in Account : a # p => c[a] = b[a]
    PROVE  /\ Held(c) = Held(b) - b[p] + c[p]
           /\ Held(b) \in Nat /\ Held(c) \in Nat
<1>1. /\ \A a \in Account : b[a] \in Nat /\ c[a] \in Nat
      /\ \A a \in Account \ {p} : c[a] = b[a]
  OBVIOUS
<1> QED  BY <1>1, AccountsAreFinite, TotalOneChanged DEF Held

\* What one account gives another takes.
LEMMA HeldAfterPayment ==
    ASSUME NEW b \in [Account -> Nat], NEW c \in [Account -> Nat],
           NEW p \in Account, NEW q \in Account, p # q, NEW x \in Nat,
           c[p] = b[p] - x, c[q] = b[q] + x,
           \A a \in Account : a # p /\ a # q => c[a] = b[a]
    PROVE  Held(c) = Held(b)
<1> DEFINE d == [b EXCEPT ![p] = c[p]]
<1>1. d \in [Account -> Nat] /\ d[p] = c[p] /\ \A a \in Account : a # p => d[a] = b[a]
  OBVIOUS
<1> HIDE DEF d
<1>2. \A a \in Account : a # q => c[a] = d[a]
  BY <1>1
<1>3. Held(d) = Held(b) - b[p] + d[p] /\ Held(b) \in Nat /\ Held(d) \in Nat
  BY <1>1, HeldOneChanged
<1>4. Held(c) = Held(d) - d[q] + c[q] /\ Held(c) \in Nat
  BY <1>1, <1>2, HeldOneChanged
<1>5. d[q] = b[q] /\ b[q] \in Nat /\ b[p] \in Nat /\ c[p] \in Nat /\ c[q] \in Nat
  BY <1>1
<1> QED  BY <1>1, <1>3, <1>4, <1>5

\* Genesis gives each agent it pays one grant.
LEMMA HeldAfterGenesis ==
    ASSUME NEW b \in [Account -> Nat], NEW fit \in 0 .. Len(AgentOrder),
           NEW paid, paid = {AgentOrder[i] : i \in 1 .. fit}
    PROVE  Held(GenesisBalance(b, paid)) = Held(b) + GenesisTreasury + fit * GenesisGrant
<1> DEFINE c == GenesisBalance(b, paid)
           d == [b EXCEPT ![Treasury] = b[Treasury] + GenesisTreasury]
           rest == Account \ paid
<1>1. GenesisTreasury \in Nat /\ GenesisGrant \in Nat /\ Treasury \in Account
      /\ b[Treasury] \in Nat
  BY PolicyAssumption, AccountFacts
<1>2. /\ Len(AgentOrder) \in Nat /\ fit \in Nat
      /\ \A i \in 1 .. fit : AgentOrder[i] \in Agent
      /\ \A i, j \in 1 .. fit : AgentOrder[i] = AgentOrder[j] => i = j
  BY LedgerAssumption
<1>3. paid \subseteq Agent /\ paid \subseteq Account /\ Treasury \notin paid
  BY <1>2, AccountFacts, PolicyAssumption
<1>4. Cardinality(paid) = fit /\ IsFiniteSet(paid)
  <2> DEFINE f == [i \in 1 .. fit |-> AgentOrder[i]]
  <2>1. f \in Surjection(1 .. fit, paid)
    BY DEF Surjection
  <2>2. f \in Injection(1 .. fit, paid)
    BY <1>2 DEF Injection, IsInjective
  <2>3. IsFiniteSet(1 .. fit) /\ Cardinality(1 .. fit) = fit
    BY <1>2, FS_Interval
  <2> HIDE DEF f
  <2> DEFINE dom == 1 .. fit
  <2> HIDE DEF dom
  <2>4. Cardinality(paid) = Cardinality(dom) /\ IsFiniteSet(paid)
    BY <2>1, <2>2, <2>3, FS_Surjection DEF dom
  <2> QED  BY <2>3, <2>4 DEF dom
<1>5. /\ d \in [Account -> Nat] /\ d[Treasury] = b[Treasury] + GenesisTreasury
      /\ \A a \in Account : a # Treasury => d[a] = b[a]
  BY <1>1
<1>6. /\ \A a \in paid : c[a] = d[a] + GenesisGrant
      /\ \A a \in rest : c[a] = d[a]
      /\ c \in [Account -> Nat]
  <2>1. c[Treasury] = b[Treasury] + GenesisTreasury
    BY <1>1, <1>3 DEF GenesisBalance
  <2>2. \A a \in paid : c[a] = b[a] + GenesisGrant
    BY <1>3 DEF GenesisBalance
  <2>3. \A a \in rest : a # Treasury => c[a] = b[a]
    BY DEF GenesisBalance
  <2>4. DOMAIN c = Account /\ c = [a \in Account |-> c[a]]
    BY DEF GenesisBalance
  <2> HIDE DEF c, d
  <2>5. \A a \in paid : c[a] = d[a] + GenesisGrant
    BY <1>3, <1>5, <2>2
  <2>6. \A a \in rest : c[a] = d[a]
    BY <1>5, <2>1, <2>3
  <2>7. \A a \in Account : c[a] \in Nat
    BY <1>1, <1>5, <2>5, <2>6
  <2> QED  BY <2>4, <2>5, <2>6, <2>7
<1> HIDE DEF c, d
<1>7. Held(d) = Held(b) + GenesisTreasury /\ Held(b) \in Nat
  <2>1. Held(d) = Held(b) - b[Treasury] + d[Treasury] /\ Held(b) \in Nat
    BY <1>1, <1>5, HeldOneChanged
  <2> QED  BY <1>1, <1>5, <2>1
<1>8. IsFiniteSet(rest) /\ paid \cap rest = {} /\ paid \cup rest = Account
  <2>1. rest \in SUBSET Account
    OBVIOUS
  <2> QED  BY <1>3, <2>1, AccountsAreFinite, FS_Subset
<1> HIDE DEF rest
<1>9. \A a \in paid \cup rest : d[a] \in Nat /\ c[a] \in Nat
  BY <1>5, <1>6, <1>8
<1>10. /\ Total(d, paid \cup rest) = Total(d, paid) + Total(d, rest)
       /\ Total(d, paid) \in Nat /\ Total(d, rest) \in Nat
  BY <1>4, <1>8, <1>9, TotalSplit
<1>11. Total(c, paid \cup rest) = Total(c, paid) + Total(c, rest)
  BY <1>4, <1>8, <1>9, TotalSplit
<1>12. Total(c, paid) = Total(d, paid) + Cardinality(paid) * GenesisGrant
  <2>1. \A a \in paid : d[a] \in Nat /\ c[a] = d[a] + GenesisGrant
    BY <1>6, <1>9
  <2> DEFINE g == GenesisGrant
  <2>2. g \in Nat /\ IsFiniteSet(paid)
    BY <1>1, <1>4
  <2>3. \A a \in paid : d[a] \in Nat /\ c[a] = d[a] + g
    BY <2>1
  <2> HIDE DEF g
  <2>4. Total(c, paid) = Total(d, paid) + Cardinality(paid) * g
    BY ONLY <2>2, <2>3, TotalShifted
  <2> QED  BY <2>4 DEF g
<1>13. Total(c, rest) = Total(d, rest)
  BY <1>6, <1>8, <1>9, TotalSame
<1>14. Held(c) = Total(c, paid) + Total(c, rest) /\ Held(d) = Total(d, paid) + Total(d, rest)
  BY <1>8, <1>10, <1>11 DEF Held
<1>15. fit * GenesisGrant \in Nat
  <2>1. \A m, n \in Nat : m * n \in Nat
    OBVIOUS
  <2> QED  BY <1>1, <1>2, <2>1
<1>16. Total(c, paid) = Total(d, paid) + fit * GenesisGrant
  BY <1>4, <1>12
<1>17. Held(c) = Held(b) + GenesisTreasury + fit * GenesisGrant
  BY <1>1, <1>7, <1>10, <1>13, <1>14, <1>15, <1>16
<1> QED  BY <1>17 DEF c

LEMMA CoveredInit ==
    Init => Covered(ledger)
<1> SUFFICES ASSUME Init PROVE Held(ledger.balance) = ledger.minted
  BY DEF Covered
<1>1. ledger.minted = 0 /\ \A a \in Account : ledger.balance[a] = 0
  BY DEF Init, EmptyLedger
<1>2. Held(ledger.balance) = 0
  BY <1>1, AccountsAreFinite, TotalOfNothing DEF Held
<1> QED  BY <1>1, <1>2

LEMMA SeedGenesisCovered ==
    ASSUME NEW L \in Ledger, L.minted <= MaxSupply, Covered(L)
    PROVE  Covered(SeedGenesis(L, AgentOrder))
<1>1. CASE GenesisTreasury > Remaining(L)
  <2>1. /\ SeedGenesis(L, AgentOrder).balance = L.balance
        /\ SeedGenesis(L, AgentOrder).minted = L.minted
    BY <1>1 DEF SeedGenesis, Ensure, Ledger
  <2> QED  BY <2>1 DEF Covered
<1>2. CASE ~(GenesisTreasury > Remaining(L))
  <2> DEFINE fit == GrantsThatFit(Remaining(L) - GenesisTreasury, Len(AgentOrder))
             paid == {AgentOrder[i] : i \in 1 .. fit}
             M == SeedGenesis(L, AgentOrder)
  <2>1. /\ M.minted = L.minted + GenesisTreasury + fit * GenesisGrant
        /\ M.balance = GenesisBalance(L.balance, paid)
    BY <1>2 DEF SeedGenesis, Ensure, Ledger
  <2> HIDE DEF M, fit
  <2>2. fit \in 0 .. Len(AgentOrder)
    BY <1>2, GenesisJournal DEF fit
  <2> DEFINE c == GenesisBalance(L.balance, paid)
  <2>3. Held(c) = Held(L.balance) + GenesisTreasury + fit * GenesisGrant
    <3>1. L.balance \in [Account -> Nat]
      BY LedgerFields
    <3> DEFINE b == L.balance
               p == paid
    <3>2. p = {AgentOrder[i] : i \in 1 .. fit}
      OBVIOUS
    <3> HIDE DEF b, p
    <3>3. Held(GenesisBalance(b, p)) = Held(b) + GenesisTreasury + fit * GenesisGrant
      BY <2>2, <3>1, <3>2, HeldAfterGenesis DEF b
    <3> QED  BY <3>3 DEF b, p
  <2> QED  BY <2>1, <2>3 DEF Covered, M
<1> QED  BY <1>1, <1>2

LEMMA MintCovered ==
    ASSUME NEW L \in Ledger, Covered(L), NEW h \in Nat, NEW v \in Account, NEW due \in Nat
    PROVE  Covered(Mint(L, "reward", h, h, v, due))
<1> DEFINE M == Mint(L, "reward", h, h, v, due)
           b == L.balance
           c == M.balance
<1>1. M.minted = L.minted + due /\ c = [b EXCEPT ![v] = @ + due]
  BY DEF Mint, Ensure, Ledger
<1>2. b \in [Account -> Nat] /\ L.minted \in Nat
  BY LedgerFields
<1> HIDE DEF M, b, c
<1>3. /\ c \in [Account -> Nat] /\ c[v] = b[v] + due /\ b[v] \in Nat
      /\ \A a \in Account : a # v => c[a] = b[a]
  BY <1>1, <1>2
<1>4. Held(c) = Held(b) - b[v] + c[v] /\ Held(b) \in Nat
  BY <1>2, <1>3, HeldOneChanged
<1>5. Held(c) = Held(b) + due
  BY <1>3, <1>4
<1> QED  BY <1>1, <1>5 DEF Covered, M, b, c

\* The balances after a fee and a transfer: the payer pays, the sum stays.
LEMMA PayFeePays ==
    ASSUME NEW L \in Ledger, NEW ref \in Nat \cup Run,
           NEW payer \in Account, NEW payee \in Account, NEW amount \in Nat,
           payer # payee, FeeAllowed(L, payer, amount)
    PROVE  LET c == PayFee(L, ref, "bridge", payer, payee, amount).balance
           IN  /\ c \in [Account -> Nat]
               /\ Held(c) = Held(L.balance)
               /\ \A a \in Account \ {payer} : c[a] >= L.balance[a]
<1> DEFINE M == PayFee(L, ref, "bridge", payer, payee, amount)
           b == L.balance
           c == M.balance
<1>1. M \in Ledger
  BY PayFeeType
<1>2. b \in [Account -> Nat] /\ c \in [Account -> Nat]
  <2> HIDE DEF M
  <2> QED  BY <1>1, LedgerFields
<1>3. c = [b EXCEPT ![payer] = b[payer] - amount, ![payee] = b[payee] + amount]
  BY DEF PayFee, Ensure, Ledger
<1> HIDE DEF M, b, c
<1>4. /\ c[payer] = b[payer] - amount /\ c[payee] = b[payee] + amount
      /\ \A a \in Account : a # payer /\ a # payee => c[a] = b[a]
  BY <1>2, <1>3
<1>5. Held(c) = Held(b)
  BY <1>2, <1>4, HeldAfterPayment
<1>6. \A a \in Account \ {payer} : c[a] >= b[a]
  BY <1>2, <1>4
<1> QED  BY <1>2, <1>5, <1>6 DEF M, b, c

LEMMA TransferPays ==
    ASSUME NEW L \in Ledger, NEW t \in Request, TransferAllowed(L, t)
    PROVE  LET c == Transfer(L, t).balance
           IN  /\ c \in [Account -> Nat]
               /\ Held(c) = Held(L.balance)
               /\ \A a \in Account \ {t.from} : c[a] >= L.balance[a]
<1> DEFINE b == L.balance
           c == TransferBalances(L, t)
           v == FeeCollector(t.from, t.validator)
           fee == TransferFee(t.amount, t.height, t.memoBytes)
<1>1. PICK mid \in [Account -> Nat] :
          /\ mid[t.from] = b[t.from] - t.amount
          /\ mid[t.to] = b[t.to] + t.amount
          /\ \A a \in Account : a # t.from /\ a # t.to => mid[a] = b[a]
          /\ c[t.from] = mid[t.from] - fee
          /\ c[v] = mid[v] + fee
          /\ \A a \in Account : a # t.from /\ a # v => c[a] = mid[a]
  BY TransferPayments
<1>2. /\ t.from \in Account /\ t.to \in Account /\ v \in Account
      /\ t.from # t.to /\ v # t.from /\ t.amount \in Nat /\ fee \in Nat
  BY RequestFacts, AccountFacts DEF TransferAllowed
<1>3. b \in [Account -> Nat] /\ c \in [Account -> Nat]
  BY LedgerFields, TransferBalancesType
<1>4. Transfer(L, t).balance = c
  BY DEF Transfer, Ensure, Ledger
<1> HIDE DEF b, c, v, fee
<1> DEFINE p == t.from
           q == t.to
           x == t.amount
<1> HIDE DEF p, q, x
<1>5. Held(mid) = Held(b)
  BY <1>1, <1>2, <1>3, HeldAfterPayment DEF p, q, x
<1>6. Held(c) = Held(mid)
  BY <1>1, <1>2, <1>3, HeldAfterPayment DEF p
<1>7. \A a \in Account \ {t.from} : c[a] >= b[a]
  <2>1. \A a \in Account \ {t.from} : mid[a] >= b[a]
    BY <1>1, <1>2, <1>3
  <2>2. \A a \in Account \ {t.from} : c[a] >= mid[a]
    BY <1>1, <1>2, <1>3
  <2>3. \A a \in Account : c[a] \in Nat /\ b[a] \in Nat /\ mid[a] \in Nat
    BY <1>3
  <2> QED  BY <2>1, <2>2, <2>3
<1> QED  BY <1>3, <1>4, <1>5, <1>6, <1>7 DEF b

LEMMA AssetTotal ==
    ASSUME NEW h \in [Account -> Nat]
    PROVE  Asset!Total(h) = Held(h)
<1>1. DOMAIN h = Account
  OBVIOUS
<1>2. Asset!Total(h) = SumOf(h, Account)[Account]
  BY <1>1 DEF Asset!Total, Asset!SumFunction, Asset!SumFunctionOnSet, Asset!FoldFunctionOnSet,
              Asset!MapThenFoldSet, SumOf, Sums, First
<1> QED  BY <1>2, TotalIsSum DEF Held

\* Nobody has less after a step that issues supply.
Grows(L, M) == \A a \in Account : M.balance[a] >= L.balance[a]

LEMMA SeedGenesisGrows ==
    ASSUME NEW L \in Ledger, L.minted <= MaxSupply
    PROVE  Grows(L, SeedGenesis(L, AgentOrder))
<1>1. L.balance \in [Account -> Nat]
  BY LedgerFields
<1>2. CASE GenesisTreasury > Remaining(L)
  <2>1. SeedGenesis(L, AgentOrder).balance = L.balance
    BY <1>2 DEF SeedGenesis, Ensure, Ledger
  <2> QED  BY <1>1, <2>1 DEF Grows
<1>3. CASE ~(GenesisTreasury > Remaining(L))
  <2> DEFINE fit == GrantsThatFit(Remaining(L) - GenesisTreasury, Len(AgentOrder))
             paid == {AgentOrder[i] : i \in 1 .. fit}
             b == L.balance
  <2>1. SeedGenesis(L, AgentOrder).balance = GenesisBalance(b, paid)
    BY <1>3 DEF SeedGenesis, Ensure, Ledger
  <2> HIDE DEF fit, paid, b
  <2>2. GenesisTreasury \in Nat /\ GenesisGrant \in Nat
    BY PolicyAssumption
  <2>3. \A a \in Account : b[a] \in Nat
    BY <1>1 DEF b
  <2>4. \A a \in Account : GenesisBalance(b, paid)[a] >= b[a]
    BY <2>2, <2>3 DEF GenesisBalance
  <2> QED  BY <2>1, <2>4 DEF Grows, b
<1> QED  BY <1>2, <1>3

LEMMA MintGrows ==
    ASSUME NEW L \in Ledger, NEW h \in Nat, NEW v \in Account, NEW due \in Nat
    PROVE  Grows(L, Mint(L, "reward", h, h, v, due))
<1>1. Mint(L, "reward", h, h, v, due).balance = [L.balance EXCEPT ![v] = @ + due]
  BY DEF Mint, Ensure, Ledger
<1>2. L.balance \in [Account -> Nat]
  BY LedgerFields
<1> QED  BY <1>1, <1>2 DEF Grows

CoveredInv == IInv /\ Covered(ledger)

LEMMA CoveredStep ==
    CoveredInv /\ [Next]_ledger => CoveredInv'
<1> SUFFICES ASSUME CoveredInv, [Next]_ledger PROVE Covered(ledger')
  BY IInvStep DEF CoveredInv, Covered
<1>0. ledger \in Ledger /\ ledger.minted <= MaxSupply /\ Covered(ledger)
  BY DEF CoveredInv, IInv, TypeOK, SupplyCap
<1>1. CASE Looks(ledger, ledger')
  <2>1. ledger'.balance = ledger.balance /\ ledger'.minted = ledger.minted
    BY <1>0, <1>1 DEF Looks, Ensure, Ledger
  <2> QED  BY <1>0, <2>1 DEF Covered
<1>2. CASE Seeds(ledger, ledger')
  BY <1>0, <1>2, SeedGenesisCovered DEF Seeds
<1>3. CASE Rewards(ledger, ledger')
  BY <1>0, <1>3, MintCovered DEF Rewards
<1>4. CASE Pays(ledger, ledger') \/ Transfers(ledger, ledger')
  <2>1. Held(ledger'.balance) = Held(ledger.balance)
    BY <1>0, <1>4, PayFeePays, TransferPays DEF Pays, Transfers
  <2>2. ledger'.minted = ledger.minted
    BY <1>0, <1>4, SupplyKept DEF Pays, Transfers
  <2> QED  BY <1>0, <2>1, <2>2 DEF Covered
<1> QED  BY <1>0, <1>1, <1>2, <1>3, <1>4, StepKinds

LEMMA CoveredAlways ==
    Spec => []CoveredInv
<1>1. Init => CoveredInv
  BY IInvInit, CoveredInit DEF CoveredInv
<1> QED  BY <1>1, CoveredStep, PTL DEF Spec

\* Supply appears only by minting and within the cap, and a payment takes from
\* one account what it gives to the others: the ledger, which also keeps
\* nonces, a journal and a rounding rule for each fee, is a fixed-cap asset.
THEOREM AssetImplemented == Spec => ImplementsAsset
<1>1. Init => Asset!Init
  BY DEF Init, EmptyLedger, Asset!Init
<1>2. CoveredInv /\ CoveredInv' /\ [Next]_ledger => [Asset!Next]_(Asset!assetVars)
  <2> SUFFICES ASSUME CoveredInv, CoveredInv', [Next]_ledger
               PROVE  [Asset!Next]_(Asset!assetVars)
    OBVIOUS
  <2>0. /\ ledger \in Ledger /\ ledger.minted <= MaxSupply /\ Covered(ledger)
        /\ ledger' \in Ledger /\ ledger'.minted <= MaxSupply /\ Covered(ledger')
    BY DEF CoveredInv, IInv, TypeOK, SupplyCap, Covered
  <2>1. /\ ledger.balance \in [Account -> Nat] /\ ledger.minted \in Nat
        /\ ledger'.balance \in [Account -> Nat] /\ ledger'.minted \in Nat
    BY <2>0, LedgerFields
  <2>2. /\ Asset!Total(ledger.balance) = ledger.minted
        /\ Asset!Total(ledger'.balance) = ledger'.minted
    BY <2>0, <2>1, AssetTotal DEF Covered
  <2>3. ASSUME Grows(ledger, ledger') PROVE Asset!Issue
    <3>1. ledger'.minted = ledger.minted + (ledger'.minted - ledger.minted)
      BY <2>1
    <3> QED  BY <2>0, <2>1, <2>2, <2>3, <3>1 DEF Grows, Asset!Issue
  <2>4. ASSUME NEW p \in Account, ledger'.minted = ledger.minted,
               \A a \in Account \ {p} : ledger'.balance[a] >= ledger.balance[a]
        PROVE  Asset!Pay
    BY <2>1, <2>2, <2>4 DEF Asset!Pay, Asset!OnlyPays
  <2>5. CASE Looks(ledger, ledger')
    <3>1. ledger'.balance = ledger.balance /\ ledger'.minted = ledger.minted
      BY <2>0, <2>5 DEF Looks, Ensure, Ledger
    <3> QED  BY <3>1 DEF Asset!assetVars
  <2>6. CASE Seeds(ledger, ledger')
    BY <2>0, <2>3, <2>6, SeedGenesisGrows DEF Seeds, Asset!Next
  <2>7. CASE Rewards(ledger, ledger')
    BY <2>0, <2>3, <2>7, MintGrows DEF Rewards, Asset!Next
  <2>8. CASE Pays(ledger, ledger')
    <3>1. PICK p \in Account : \A a \in Account \ {p} : ledger'.balance[a] >= ledger.balance[a]
      BY <2>0, <2>8, PayFeePays DEF Pays
    <3>2. ledger'.minted = ledger.minted
      BY <2>0, <2>8, SupplyKept DEF Pays
    <3> QED  BY <2>4, <3>1, <3>2 DEF Asset!Next
  <2>9. CASE Transfers(ledger, ledger')
    <3>1. PICK t \in Request : \A a \in Account \ {t.from} :
                                  ledger'.balance[a] >= ledger.balance[a]
      BY <2>0, <2>9, TransferPays DEF Transfers
    <3>2. ledger'.minted = ledger.minted
      BY <2>0, <2>9, SupplyKept DEF Transfers
    <3>3. t.from \in Account
      BY RequestFacts, AccountFacts
    <3> QED  BY <2>4, <3>1, <3>2, <3>3 DEF Asset!Next
  <2> QED  BY <2>0, <2>5, <2>6, <2>7, <2>8, <2>9, StepKinds
<1> QED  BY <1>1, <1>2, CoveredAlways, PTL DEF Spec, ImplementsAsset, Asset!Spec
==============================================================================
