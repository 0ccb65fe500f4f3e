--------------------------- MODULE IndexerProofs ---------------------------
(***************************************************************************)
(* The indexer for any wallets, traffic and bounds.  A log is followed from *)
(* the call that emits it to the puts of its handler, and the puts to the   *)
(* rows: types, a cursor that never goes back, indexes that resolve, one    *)
(* log recorded ahead at most, and the rows the cursor stands for.          *)
(***************************************************************************)
EXTENDS Indexer, TLAPS

-----------------------------------------------------------------------------
(* The chain *)

LEMMA GainTyped ==
    ASSUME NEW s \in ContractState, NEW w \in Wallets, NEW n \in Nat
    PROVE  Gained(s, w, n) \in ContractState
  BY DEF ContractState, Gained

LEMMA LossTyped ==
    ASSUME NEW s \in ContractState, NEW w \in Wallets, NEW n \in Nat, n <= s.held[w]
    PROVE  Lost(s, w, n) \in ContractState
  BY DEF ContractState, Lost

LEMMA GivenTyped ==
    ASSUME NEW s \in ContractState, NEW from \in Wallets, NEW to \in Wallets,
           NEW n \in Nat, n <= s.held[from]
    PROVE  Given(s, from, to, n) \in ContractState
  BY LossTyped, GainTyped DEF Given

LEMMA SupplyCallsTyped ==
    ASSUME NEW s \in ContractState,
           NEW b \in Mint(s) \cup MintUnit(s) \cup Burn(s)
    PROVE  b \in Block
<1> USE ChainAssumption DEF Block, Call, LogOf, Log, LogsOf
<1>1. CASE b \in Mint(s)
  <2>1. PICK w \in Wallets, n \in Amounts :
          b = Call(Gained(s, w, n),
                   <<LogOf("TransferSingle", NoOne, w, n), LogOf("Minted", NoOne, w, n)>>)
    BY <1>1 DEF Mint, Mintable
  <2>2. n \in Nat
    OBVIOUS
  <2> QED BY <2>1, <2>2, GainTyped
<1>2. CASE b \in MintUnit(s)
  <2>1. PICK w \in Wallets, n \in Amounts :
          b = Call(Gained(s, w, n),
                   <<LogOf("TransferSingle", NoOne, w, n), LogOf("UnitMinted", NoOne, w, n)>>)
    BY <1>2 DEF MintUnit, Mintable
  <2>2. n \in Nat
    OBVIOUS
  <2> QED BY <2>1, <2>2, GainTyped
<1>3. CASE b \in Burn(s)
  <2>1. PICK w \in Wallets, n \in Amounts :
          /\ n <= s.held[w]
          /\ b = Call(Lost(s, w, n),
                   <<LogOf("TransferSingle", w, NoOne, n), LogOf("Burned", w, NoOne, n)>>)
    BY <1>3 DEF Burn, Sendable
  <2>2. n \in Nat
    OBVIOUS
  <2> QED BY <2>1, <2>2, LossTyped
<1> QED BY <1>1, <1>2, <1>3

LEMMA TransferCallsTyped ==
    ASSUME NEW s \in ContractState,
           NEW b \in Transfer(s) \cup BatchTransfer(s) \cup ForcedTransfer(s)
    PROVE  b \in Block
<1> USE ChainAssumption DEF Block, Call, LogOf, Log, LogsOf
<1>1. CASE b \in Transfer(s)
  <2>1. PICK from \in Wallets, to \in Wallets, n \in Amounts :
          /\ n <= s.held[from]
          /\ b = Call(Given(s, from, to, n), <<LogOf("TransferSingle", from, to, n)>>)
    BY <1>1 DEF Transfer, Sendable
  <2>2. n \in Nat
    OBVIOUS
  <2> QED BY <2>1, <2>2, GivenTyped
<1>2. CASE b \in BatchTransfer(s)
  <2>1. PICK from \in Wallets, to \in Wallets, n \in Amounts :
          /\ n <= s.held[from]
          /\ b = Call(Given(s, from, to, n), <<LogOf("TransferBatch", from, to, n)>>)
    BY <1>2 DEF BatchTransfer, Sendable
  <2>2. n \in Nat
    OBVIOUS
  <2> QED BY <2>1, <2>2, GivenTyped
<1>3. CASE b \in ForcedTransfer(s)
  <2>1. PICK from \in Wallets, to \in Wallets, n \in Amounts :
          /\ n <= s.held[from]
          /\ b = Call(Given(s, from, to, n),
                   <<LogOf("TransferSingle", from, to, n), LogOf("ForcedTransfer", from, to, n)>>)
    BY <1>3 DEF ForcedTransfer, Sendable
  <2>2. n \in Nat
    OBVIOUS
  <2> QED BY <2>1, <2>2, GivenTyped
<1> QED BY <1>1, <1>2, <1>3

LEMMA LaunchTyped ==
    ASSUME NEW s \in ContractState, NEW u \in Nat
    PROVE  Launched(s, u) \in ContractState
<1> DEFINE named == [s EXCEPT !.uri = u]
<1>1. named \in ContractState
  BY DEF ContractState
<1>2. Launched(s, u) = [named EXCEPT !.registered = TRUE]
  BY DEF Launched, ContractState
<1> QED BY <1>1, <1>2 DEF ContractState

LEMMA AssetCallsTyped ==
    ASSUME NEW s \in ContractState,
           NEW b \in RegisterAsset(s) \cup PauseAsset(s) \cup SetAssetUri(s)
    PROVE  b \in Block
<1>1. CASE b \in RegisterAsset(s)
  <2>1. PICK w \in Wallets, u \in {v \in Uris : ~s.registered} :
          b = Call(Launched(s, u), <<LogOf("AssetRegistered", w, NoOne, 0)>>)
    BY <1>1 DEF RegisterAsset, Call
  <2>2. u \in Nat
    BY ChainAssumption, Zenon
  <2>3. <<LogOf("AssetRegistered", w, NoOne, 0)>> \in Seq(Log)
    BY DEF LogOf, Log, LogsOf
  <2> QED BY <2>1, <2>2, <2>3, LaunchTyped DEF Block, Call
<1> USE ChainAssumption DEF Block, Call, LogOf, Log, LogsOf
<1>2. CASE b \in PauseAsset(s)
  <2>1. PICK w \in Wallets :
          b = Call([s EXCEPT !.paused = ~@],
                   <<LogOf(IF s.paused THEN "AssetUnpaused" ELSE "AssetPaused", w, NoOne, 0)>>)
    BY <1>2 DEF PauseAsset
  <2>2. [s EXCEPT !.paused = ~@] \in ContractState
    BY DEF ContractState
  <2> QED BY <2>1, <2>2
<1>3. CASE b \in SetAssetUri(s)
  <2>1. PICK u \in Uris :
          b = Call([s EXCEPT !.uri = u],
                   <<LogOf("URI", NoOne, NoOne, u), LogOf("AssetConfigUpdated", NoOne, NoOne, 0)>>)
    BY <1>3 DEF SetAssetUri
  <2>2. [s EXCEPT !.uri = u] \in ContractState
    BY DEF ContractState
  <2>3. u \in Nat
    OBVIOUS
  <2> QED BY <2>1, <2>2, <2>3 DEF TokenNotices
<1> QED BY <1>1, <1>2, <1>3

LEMMA FreezeCallsTyped ==
    ASSUME NEW s \in ContractState,
           NEW b \in SetAssetWalletFrozen(s) \cup SetWalletFrozen(s)
    PROVE  b \in Block
<1> USE ChainAssumption DEF Block, Call, LogOf, Log, LogsOf
<1>1. CASE b \in SetAssetWalletFrozen(s)
  <2>1. PICK w \in Wallets, f \in BOOLEAN :
          b = Call([s EXCEPT !.frozen[w] = f],
                   <<LogOf("AssetFrozen", w, NoOne, IF f THEN 1 ELSE 0)>>)
    BY <1>1 DEF SetAssetWalletFrozen
  <2>2. [s EXCEPT !.frozen[w] = f] \in ContractState
    BY DEF ContractState
  <2>3. (IF f THEN 1 ELSE 0) \in Nat
    OBVIOUS
  <2> QED BY <2>1, <2>2, <2>3
<1>2. CASE b \in SetWalletFrozen(s)
  <2>1. PICK w \in Wallets, f \in BOOLEAN :
          b = Call([s EXCEPT !.walletFrozen[w] = f],
                   <<LogOf("WalletFrozen", w, NoOne, IF f THEN 1 ELSE 0)>>)
    BY <1>2 DEF SetWalletFrozen
  <2>2. [s EXCEPT !.walletFrozen[w] = f] \in ContractState
    BY DEF ContractState
  <2>3. (IF f THEN 1 ELSE 0) \in Nat
    OBVIOUS
  <2> QED BY <2>1, <2>2, <2>3
<1> QED BY <1>1, <1>2

LEMMA RestraintCallsTyped ==
    ASSUME NEW s \in ContractState,
           NEW b \in SetFrozenAmount(s) \cup SetLockupExpiry(s)
    PROVE  b \in Block
<1> USE ChainAssumption DEF Block, Call, LogOf, Log, LogsOf
<1>1. CASE b \in SetFrozenAmount(s)
  <2>1. PICK w \in Wallets, n \in Amounts :
          b = Call([s EXCEPT !.frozenAmount[w] = n], <<LogOf("PartialFreeze", w, NoOne, n)>>)
    BY <1>1 DEF SetFrozenAmount
  <2>2. [s EXCEPT !.frozenAmount[w] = n] \in ContractState
    BY DEF ContractState
  <2> QED BY <2>1, <2>2
<1>2. CASE b \in SetLockupExpiry(s)
  <2>1. PICK w \in Wallets, n \in Amounts :
          b = Call([s EXCEPT !.lockup[w] = n], <<LogOf("LockupSet", w, NoOne, n)>>)
    BY <1>2 DEF SetLockupExpiry
  <2>2. [s EXCEPT !.lockup[w] = n] \in ContractState
    BY DEF ContractState
  <2> QED BY <2>1, <2>2
<1> QED BY <1>1, <1>2

LEMMA NotifyTyped ==
    ASSUME NEW s \in ContractState, NEW kind \in Notices, NEW b \in Notify(kind, s)
    PROVE  b \in Block
<1>1. PICK w \in IF kind \in AccountNotices \cup TokenAccountNotices THEN Wallets ELSE {NoOne} :
        b = Call(s, <<LogOf(kind, w, NoOne, 0)>>)
  BY DEF Notify
<1>2. \/ kind \in AccountNotices \cup TokenAccountNotices /\ w \in Wallets
      \/ kind \in TokenNotices \cup GroupNotices \cup OtherTokenNotices /\ w = NoOne
  BY <1>1 DEF Notices
<1>3. LogOf(kind, w, NoOne, 0) \in Log
  BY <1>2 DEF LogOf, Log, LogsOf
<1>4. <<LogOf(kind, w, NoOne, 0)>> \in Seq(Log)
  BY <1>3
<1> QED BY <1>1, <1>4 DEF Call, Block

\* An identity and a country set for a wallet.
LEMMA BoundTyped ==
    ASSUME NEW s \in ContractState, NEW w \in Wallets,
           NEW i \in Identities \cup {NoOne}, NEW c \in Nat
    PROVE  [s EXCEPT !.identity[w] = i, !.country[w] = c] \in ContractState
  BY DEF ContractState

LEMMA BindingTyped ==
    ASSUME NEW s \in ContractState, NEW b \in RegisterIdentity(s)
    PROVE  b \in Block
<1>1. PICK w \in Wallets, i \in Identities, c \in Countries : b = Registered(s, w, i, c)
  BY DEF RegisterIdentity
<1>2. c \in Nat
  BY ChainAssumption
<1>3. [s EXCEPT !.identity[w] = i, !.country[w] = c] \in ContractState
  BY <1>2, BoundTyped
<1>4. <<LogOf("IdentityBound", w, i, c)>> \in Seq(Log)
  BY <1>2 DEF LogOf, Log, LogsOf
<1> QED BY <1>1, <1>3, <1>4 DEF Registered, Call, Block

LEMMA IdentityCallsTyped ==
    ASSUME NEW s \in ContractState,
           NEW b \in RegisterIdentity(s) \cup DeleteIdentity(s)
                       \cup UpdateIdentity(s) \cup UpdateCountry(s)
    PROVE  b \in Block
<1> USE ChainAssumption DEF Block, Call, LogOf, Log, LogsOf
<1>1. CASE b \in RegisterIdentity(s)
  BY <1>1, BindingTyped
<1>2. CASE b \in DeleteIdentity(s)
  <2>1. PICK w \in Wallets :
          b = Call([s EXCEPT !.identity[w] = NoOne, !.country[w] = 0],
                   <<LogOf("IdentityUnbound", w, NoOne, 0)>>)
    BY <1>2 DEF DeleteIdentity
  <2>2. [s EXCEPT !.identity[w] = NoOne, !.country[w] = 0] \in ContractState
    BY BoundTyped
  <2> QED BY <2>1, <2>2
<1>3. CASE b \in UpdateIdentity(s)
  <2>1. PICK w \in Wallets, i \in Identities :
          b = Call([s EXCEPT !.identity[w] = i], <<LogOf("IdentityBound", w, i, s.country[w])>>)
    BY <1>3 DEF UpdateIdentity
  <2>2. [s EXCEPT !.identity[w] = i] \in ContractState /\ s.country[w] \in Nat
    BY DEF ContractState
  <2> QED BY <2>1, <2>2
<1>4. CASE b \in UpdateCountry(s)
  <2>1. PICK w \in Wallets, c \in Countries : b = Call([s EXCEPT !.country[w] = c], <<>>)
    BY <1>4 DEF UpdateCountry
  <2>2. [s EXCEPT !.country[w] = c] \in ContractState
    BY DEF ContractState
  <2> QED BY <2>1, <2>2
<1> QED BY <1>1, <1>2, <1>3, <1>4

LEMMA MovedTyped ==
    ASSUME NEW lost \in Wallets, NEW new \in Wallets
    PROVE  /\ \A flags \in [Wallets -> BOOLEAN] : FlagMoved(flags, lost, new) \in [Wallets -> BOOLEAN]
           /\ \A numbers \in [Wallets -> Nat] : NumberMoved(numbers, lost, new) \in [Wallets -> Nat]
<1>1. ASSUME NEW flags \in [Wallets -> BOOLEAN]
      PROVE  FlagMoved(flags, lost, new) \in [Wallets -> BOOLEAN]
  <2>1. flags[new] \/ flags[lost] \in BOOLEAN
    OBVIOUS
  <2> QED BY <2>1, Zenon DEF FlagMoved
<1>2. ASSUME NEW numbers \in [Wallets -> Nat]
      PROVE  NumberMoved(numbers, lost, new) \in [Wallets -> Nat]
  BY DEF NumberMoved
<1> QED BY <1>1, <1>2

LEMMA RecoveryTyped ==
    ASSUME NEW s \in ContractState, NEW b \in RecoverWallet(s)
    PROVE  b \in Block
<1>1. PICK lost \in Wallets, new \in Wallets : b = Recovered(s, lost, new)
  BY DEF RecoverWallet
<1> DEFINE n == s.held[lost]
           moved == Given(s, lost, new, n)
           ends == <<LogOf("WalletRecovered", lost, new, 0)>>
           begins == IF n = 0 THEN <<>> ELSE <<LogOf("TransferSingle", lost, new, n)>>
           identity == [moved.identity EXCEPT ![new] = s.identity[lost], ![lost] = NoOne]
           country == [moved.country EXCEPT ![new] = s.country[lost], ![lost] = 0]
           walletFrozen == FlagMoved(moved.walletFrozen, lost, new)
           frozen == FlagMoved(moved.frozen, lost, new)
           frozenAmount == NumberMoved(moved.frozenAmount, lost, new)
           lockup == NumberMoved(moved.lockup, lost, new)
<1>2. n \in Nat /\ n <= n
  BY DEF ContractState
<1>3. moved \in ContractState
  BY <1>2, GivenTyped
<1>4. /\ identity \in [Wallets -> Identities \cup {NoOne}]
      /\ country \in [Wallets -> Nat]
  <2> HIDE DEF moved
  <2> QED BY <1>3 DEF ContractState
<1>5. /\ walletFrozen \in [Wallets -> BOOLEAN] /\ frozen \in [Wallets -> BOOLEAN]
      /\ frozenAmount \in [Wallets -> Nat] /\ lockup \in [Wallets -> Nat]
  <2> HIDE DEF moved
  <2> QED BY <1>3, MovedTyped DEF ContractState
<1>6. b = [state |-> [moved EXCEPT !.identity = identity, !.country = country,
                                   !.walletFrozen = walletFrozen, !.frozen = frozen,
                                   !.frozenAmount = frozenAmount, !.lockup = lockup],
           logs |-> begins \o ends]
  BY <1>1, Zenon DEF Recovered, Call
<1>7. b.state \in ContractState
  <2> HIDE DEF moved, identity, country, walletFrozen, frozen, frozenAmount, lockup
  <2> QED BY <1>3, <1>4, <1>5, <1>6 DEF ContractState
<1>8. ends \in Seq(Log)
  BY DEF LogOf, Log, LogsOf
<1>9. begins \in Seq(Log)
  <2>1. <<LogOf("TransferSingle", lost, new, n)>> \in Seq(Log)
    BY <1>2 DEF LogOf, Log, LogsOf
  <2> QED BY <2>1
<1>10. begins \o ends \in Seq(Log)
  BY <1>8, <1>9
<1> HIDE DEF moved, identity, country, walletFrozen, frozen, frozenAmount, lockup, begins, ends
<1> QED BY <1>6, <1>7, <1>10 DEF Block

LEMMA CallsTyped ==
    ASSUME NEW kinds \in SUBSET CallKinds, NEW s \in ContractState, NEW b \in Calls(kinds, s)
    PROVE  b \in Block
<1>1. PICK kind \in kinds : b \in CallsOf(kind, s)
  BY DEF Calls
<1>2. kind \in CallKinds
  OBVIOUS
<1>3. \/ b \in Mint(s) \cup MintUnit(s) \cup Burn(s)
      \/ b \in Transfer(s) \cup BatchTransfer(s) \cup ForcedTransfer(s)
      \/ b \in RegisterAsset(s) \cup PauseAsset(s) \cup SetAssetUri(s)
      \/ b \in SetAssetWalletFrozen(s) \cup SetWalletFrozen(s)
      \/ b \in SetFrozenAmount(s) \cup SetLockupExpiry(s)
      \/ b \in RegisterIdentity(s) \cup DeleteIdentity(s)
                   \cup UpdateIdentity(s) \cup UpdateCountry(s)
      \/ b \in RecoverWallet(s)
      \/ kind \in Notices /\ b \in Notify(kind, s)
  BY <1>1, <1>2, SMT DEF CallsOf, CallKinds
<1> QED BY <1>3, SupplyCallsTyped, TransferCallsTyped, AssetCallsTyped, FreezeCallsTyped,
           RestraintCallsTyped, IdentityCallsTyped, RecoveryTyped, NotifyTyped, Zenon

LEMMA BlocksTyped ==
    ASSUME NEW kinds \in SUBSET CallKinds, NEW s \in ContractState, NEW b \in Blocks(kinds, s)
    PROVE  b \in Block
<1>1. CASE b = Call(s, <<>>)
  BY <1>1 DEF Block, Call
<1>2. CASE b \in Calls(kinds, s)
  BY <1>2, CallsTyped
<1>3. ASSUME NEW a \in Calls(kinds, s), NEW c \in Calls(kinds, a.state),
             b = Call(c.state, a.logs \o c.logs)
      PROVE  b \in Block
  <2>1. a \in Block
    BY CallsTyped
  <2>2. c \in Block
    BY <2>1, CallsTyped DEF Block
  <2> QED BY <1>3, <2>1, <2>2 DEF Call, Block
<1> QED BY <1>1, <1>2, <1>3 DEF Blocks

-----------------------------------------------------------------------------
(* The puts of a handler *)

\* The puts of every table but the cursor's and those of events.
RecordPuts ==
    PutsOf("meta", {OnlyRow}, TokenMeta)
      \cup PutsOf("holder", Wallets, Int)
      \cup PutsOf("portfolio", Wallets, Int)
      \cup PutsOf("asset", {OnlyRow}, AssetConfig)
      \cup PutsOf("walletFreeze", Wallets, BOOLEAN)
      \cup PutsOf("freeze", Wallets, FreezeState)
      \cup PutsOf("identity", Wallets, Identity)
      \cup PutsOf("byCountry", Wallets, SUBSET Nat)

\* The keys of a log in the two indexes.
KeyPuts(id) ==
    PutsOf("byToken", {id}, BOOLEAN) \cup PutsOf("byAddress", {id}, Wallets \cup {NoOne})

\* What is known of an event that is recorded: its row comes after every other
\* record and before its keys.
EventAt(id, p, seq) ==
    /\ p \in 1..Len(seq)
    /\ seq[p] = Put("event", id, TRUE)
    /\ \A k \in 1..(p - 1) : seq[k] \in RecordPuts
    /\ \A k \in (p + 1)..Len(seq) : seq[k] \in KeyPuts(id)

RecordsEvent(id, seq) == seq \in Seq(Puts) /\ \E p \in Nat : EventAt(id, p, seq)

LEMMA HolderPutsTyped ==
    ASSUME NEW w \in Wallets, NEW balance \in Int
    PROVE  /\ PutHolderBalance(w, balance) \in Seq(RecordPuts)
           /\ PutOrDelete(w, balance) \in Seq(RecordPuts)
  BY DEF PutHolderBalance, PutOrDelete, Put, RecordPuts, PutsOf

LEMMA MetaPutTyped ==
    ASSUME NEW supply \in Int, NEW count \in Int
    PROVE  PutMeta(supply, count) \in Seq(RecordPuts)
<1>1. count % CountModulus \in 0..(CountModulus - 1)
  BY CountAssumption
<1> QED BY <1>1 DEF PutMeta, Put, RecordPuts, PutsOf, TokenMeta

\* The rows of a database as numbers.
LEMMA RowsTyped ==
    ASSUME NEW s \in Store, NEW w \in Wallets
    PROVE  /\ s.holder[w] \in Int
           /\ Meta(s).supply \in Int /\ Meta(s).holderCount \in Nat
           /\ s.freeze[w] \in FreezeState
           /\ s.identity[w] \in Identity
           /\ s.byCountry[w] \in SUBSET Nat
<1>1. Meta(s) \in TokenMeta
  BY DEF Store, Meta, OnlyRow
<1>2. Meta(s).supply \in Int /\ Meta(s).holderCount \in Nat
  BY <1>1, CountAssumption DEF TokenMeta
<1> QED BY <1>2 DEF Store

LEMMA AssetRowTyped ==
    ASSUME NEW s \in Store
    PROVE  Asset(s) \in AssetConfig
  BY DEF Store, Asset, OnlyRow

LEMMA SupplyPutsTyped ==
    ASSUME NEW s \in Store, NEW w \in Wallets, NEW n \in Nat
    PROVE  /\ RecordMint(s, w, n) \in Seq(RecordPuts)
           /\ RecordBurn(s, w, n) \in Seq(RecordPuts)
<1> DEFINE gained == IF s.holder[w] = 0 THEN 1 ELSE 0
           lost == IF s.holder[w] <= n THEN 1 ELSE 0
<1>1. /\ s.holder[w] + n \in Int /\ s.holder[w] - n \in Int
      /\ Meta(s).supply + n \in Int /\ Meta(s).supply - n \in Int
      /\ Meta(s).holderCount + gained \in Int /\ Meta(s).holderCount - lost \in Int
  BY RowsTyped
<1>2. /\ PutHolderBalance(w, s.holder[w] + n) \in Seq(RecordPuts)
      /\ PutOrDelete(w, s.holder[w] - n) \in Seq(RecordPuts)
  BY <1>1, HolderPutsTyped
<1>3. /\ PutMeta(Meta(s).supply + n, Meta(s).holderCount + gained) \in Seq(RecordPuts)
      /\ PutMeta(Meta(s).supply - n, Meta(s).holderCount - lost) \in Seq(RecordPuts)
  <2> HIDE DEF gained, lost
  <2> QED BY <1>1, MetaPutTyped
<1> QED BY <1>2, <1>3 DEF RecordMint, RecordBurn

LEMMA RecordTransferTyped ==
    ASSUME NEW s \in Store, NEW from \in Wallets, NEW to \in Wallets, NEW n \in Nat
    PROVE  RecordTransfer(s, from, to, n) \in Seq(RecordPuts)
<1> DEFINE left == IF s.holder[from] <= n THEN 0 ELSE s.holder[from] - n
           before == IF to = from THEN left ELSE s.holder[to]
           emptied == IF left = 0 THEN 1 ELSE 0
           filled == IF before = 0 THEN 1 ELSE 0
           count == Meta(s).holderCount - emptied + filled
<1>1. left \in Int /\ before \in Int /\ before + n \in Int
  BY RowsTyped
<1>2. Meta(s).supply \in Int /\ count \in Int
  BY RowsTyped
<1>3. RecordTransfer(s, from, to, n) =
        PutHolderBalance(from, left) \o PutHolderBalance(to, before + n)
          \o PutMeta(Meta(s).supply, count)
  BY Zenon DEF RecordTransfer
<1> HIDE DEF left, before, count
<1>4. /\ PutHolderBalance(from, left) \in Seq(RecordPuts)
      /\ PutHolderBalance(to, before + n) \in Seq(RecordPuts)
  BY <1>1, HolderPutsTyped
<1>5. PutMeta(Meta(s).supply, count) \in Seq(RecordPuts)
  BY <1>2, MetaPutTyped
<1> QED BY <1>3, <1>4, <1>5

LEMMA FreezePutsTyped ==
    ASSUME NEW s \in Store, NEW w \in Wallets, NEW n \in Nat, NEW frozen \in BOOLEAN
    PROVE  /\ RecordFreeze(w, frozen) \in Seq(RecordPuts)
           /\ RecordWalletFreeze(w, frozen) \in Seq(RecordPuts)
           /\ UpdateFreezeAmount(s, w, n) \in Seq(RecordPuts)
           /\ UpdateLockupExpiry(s, w, n) \in Seq(RecordPuts)
<1>1. [NotFrozen EXCEPT !.frozen = frozen] \in FreezeState
  BY DEF FreezeState, NotFrozen
<1>2. /\ [s.freeze[w] EXCEPT !.frozenAmount = n] \in FreezeState
      /\ [s.freeze[w] EXCEPT !.lockup = n] \in FreezeState
  BY RowsTyped DEF FreezeState
<1>3. ASSUME NEW row \in FreezeState
      PROVE  <<Put("freeze", w, row)>> \in Seq(RecordPuts)
  BY DEF Put, RecordPuts, PutsOf
<1>4. <<Put("walletFreeze", w, frozen)>> \in Seq(RecordPuts)
  BY DEF Put, RecordPuts, PutsOf
<1> QED BY <1>1, <1>2, <1>3, <1>4
        DEF RecordFreeze, RecordWalletFreeze, UpdateFreezeAmount, UpdateLockupExpiry

LEMMA AssetPutsTyped ==
    ASSUME NEW s \in Store, NEW flag \in BOOLEAN, NEW u \in Nat
    PROVE  /\ RecordAsset(flag) \in Seq(RecordPuts)
           /\ UpdateAssetPaused(s, flag) \in Seq(RecordPuts)
           /\ UpdateAssetURI(s, u) \in Seq(RecordPuts)
<1>1. ASSUME NEW row \in AssetConfig
      PROVE  PutAsset(row) \in Seq(RecordPuts)
  BY DEF PutAsset, Put, RecordPuts, PutsOf
<1>2. /\ [NoAsset EXCEPT !.known = TRUE, !.named = flag] \in AssetConfig
      /\ [Asset(s) EXCEPT !.known = TRUE, !.paused = flag] \in AssetConfig
      /\ [Asset(s) EXCEPT !.known = TRUE, !.uri = u] \in AssetConfig
  <2>1. Asset(s) \in AssetConfig
    BY AssetRowTyped
  <2> QED BY <2>1 DEF NoAsset, AssetConfig
<1> QED BY <1>1, <1>2 DEF RecordAsset, UpdateAssetPaused, UpdateAssetURI

LEMMA RecordIdentityTyped ==
    ASSUME NEW s \in Store, NEW w \in Wallets,
           NEW i \in Identities \cup {NoOne}, NEW c \in Nat
    PROVE  RecordIdentity(s, w, i, c) \in Seq(RecordPuts)
<1>1. [identity |-> i, country |-> c] \in Identity
  BY DEF Identity
<1>2. s.byCountry[w] \cup {c} \in SUBSET Nat
  BY RowsTyped
<1> QED BY <1>1, <1>2 DEF RecordIdentity, Put, RecordPuts, PutsOf

LEMMA RemoveIdentityTyped ==
    ASSUME NEW s \in Store, NEW w \in Wallets
    PROVE  RemoveIdentity(s, w) \in Seq(RecordPuts)
<1>1. NoIdentity \in Identity
  BY DEF NoIdentity, Identity
<1>2. s.byCountry[w] \ {s.identity[w].country} \in SUBSET Nat
  BY RowsTyped
<1>3. <<Put("byCountry", w, s.byCountry[w] \ {s.identity[w].country})>> \in Seq(RecordPuts)
  BY <1>2 DEF Put, RecordPuts, PutsOf
<1>4. <<Put("identity", w, NoIdentity)>> \in Seq(RecordPuts)
  BY <1>1 DEF Put, RecordPuts, PutsOf
<1> QED BY <1>3, <1>4 DEF RemoveIdentity

LEMMA MoveIdentityTyped ==
    ASSUME NEW s \in Store, NEW lost \in Wallets, NEW new \in Wallets
    PROVE  MoveIdentity(s, lost, new) \in Seq(RecordPuts)
<1>1. s.identity[lost].identity \in Identities \cup {NoOne} /\ s.identity[lost].country \in Nat
  BY RowsTyped DEF Identity
<1>2. RecordIdentity(s, new, s.identity[lost].identity, s.identity[lost].country) \in Seq(RecordPuts)
  BY <1>1, RecordIdentityTyped
<1>3. RemoveIdentity(s, lost) \in Seq(RecordPuts)
  BY RemoveIdentityTyped
<1> QED BY <1>2, <1>3 DEF MoveIdentity

\* Who and what is in a log, by its kind.
LEMMA LogTyped ==
    ASSUME NEW log \in Log
    PROVE  /\ log.n \in Nat
           /\ log.from \in Wallets \cup {NoOne} /\ log.to \in Wallets \cup Identities \cup {NoOne}
           /\ log.kind = "Minted" => log.to \in Wallets
           /\ log.kind \in {"Burned", "IdentityUnbound", "IdentityBound", "WalletRecovered",
                           "AssetRegistered", "AssetPaused", "AssetUnpaused",
                           "WalletFrozen", "AssetFrozen", "PartialFreeze", "LockupSet"} =>
                log.from \in Wallets
           /\ log.kind = "IdentityBound" => log.to \in Identities
           /\ log.kind = "WalletRecovered" => log.to \in Wallets
           /\ log.kind = "TransferSingle" => log.to \in Wallets \cup {NoOne}
  BY DEF Log, LogsOf, TokenNotices, AccountNotices, TokenAccountNotices, GroupNotices, OtherTokenNotices

LEMMA PutsSorted ==
    ASSUME NEW id \in LogIds
    PROVE  /\ RecordPuts \subseteq Puts
           /\ KeyPuts(id) \subseteq Puts
           /\ Put("event", id, TRUE) \in Puts
  BY DEF RecordPuts, KeyPuts, Puts, PutsOf, Put

LEMMA SeqOfMore ==
    ASSUME NEW S, NEW T, S \subseteq T, NEW seq \in Seq(S)
    PROVE  seq \in Seq(T)
<1>1. /\ Len(seq) \in Nat /\ seq = [k \in 1..Len(seq) |-> seq[k]]
      /\ \A k \in 1..Len(seq) : seq[k] \in T
  OBVIOUS
<1> QED BY <1>1

\* The row of an event, then its keys.
LEMMA RowThenKeys ==
    ASSUME NEW id \in LogIds, NEW records \in Seq(RecordPuts), NEW keys \in Seq(KeyPuts(id))
    PROVE  RecordsEvent(id, records \o (PutEvent(id) \o keys))
<1> DEFINE row == Put("event", id, TRUE)
           seq == records \o (<<row>> \o keys)
           p == Len(records) + 1
<1>1. row \in Puts /\ records \in Seq(Puts) /\ keys \in Seq(Puts)
  <2> HIDE DEF row
  <2> QED BY PutsSorted, SeqOfMore DEF row
<1> HIDE DEF row
<1>2. seq \in Seq(Puts)
  BY <1>1
<1>3. /\ p \in 1..Len(seq)
      /\ seq[p] = row
  BY <1>1
<1>4. ASSUME NEW k \in 1..(p - 1) PROVE seq[k] \in RecordPuts
  <2>1. seq[k] = records[k]
    BY <1>1
  <2> QED BY <2>1
<1>5. ASSUME NEW k \in (p + 1)..Len(seq) PROVE seq[k] \in KeyPuts(id)
  <2>1. k - p \in 1..Len(keys) /\ seq[k] = keys[k - p]
    BY <1>1
  <2> QED BY <2>1
<1>6. p \in Nat
  OBVIOUS
<1>7. EventAt(id, p, seq)
  <2> HIDE DEF seq, p
  <2> QED BY <1>3, <1>4, <1>5 DEF EventAt, row
<1> HIDE DEF p
<1> QED BY <1>2, <1>6, <1>7 DEF RecordsEvent, PutEvent, row

\* The end of a handler: a row, and the keys the event has.
EndsWithEvent(id, seq) == \E keys \in Seq(KeyPuts(id)) : seq = PutEvent(id) \o keys

LEMMA RecordsThenEvent ==
    ASSUME NEW id \in LogIds, NEW records \in Seq(RecordPuts),
           NEW end, EndsWithEvent(id, end)
    PROVE  RecordsEvent(id, records \o end)
  BY RowThenKeys, Zenon DEF EndsWithEvent

LEMMA OnlyTheEvent ==
    ASSUME NEW id \in LogIds, NEW seq, EndsWithEvent(id, seq)
    PROVE  RecordsEvent(id, seq)
<1>1. PICK keys \in Seq(KeyPuts(id)) : seq = PutEvent(id) \o keys
  BY DEF EndsWithEvent
<1>2. <<>> \in Seq(RecordPuts)
  OBVIOUS
<1>3. keys \in Seq(Puts)
  BY PutsSorted, SeqOfMore
<1>4. <<>> \o (PutEvent(id) \o keys) = PutEvent(id) \o keys
  <2> DEFINE row == Put("event", id, TRUE)
  <2>1. row \in Puts
    BY PutsSorted
  <2> HIDE DEF row
  <2>2. <<row>> \o keys \in Seq(Puts)
    BY <1>3, <2>1
  <2> QED BY <2>2 DEF row, PutEvent
<1> QED BY <1>1, <1>2, <1>4, RowThenKeys

\* Three kinds of events have no keys, the others the keys of their shape.
LEMMA EventEnds ==
    ASSUME NEW id \in LogIds
    PROVE  /\ EndsWithEvent(id, PutEvent(id))
           /\ \A token \in BOOLEAN, address \in Wallets \cup {NoOne} :
                EndsWithEvent(id, PutGenericEvent(id, token, address))
<1>1. EndsWithEvent(id, PutEvent(id))
  <2>1. <<>> \in Seq(KeyPuts(id)) /\ PutEvent(id) = PutEvent(id) \o <<>>
    BY DEF PutEvent
  <2> QED BY <2>1 DEF EndsWithEvent
<1>2. ASSUME NEW token \in BOOLEAN, NEW address \in Wallets \cup {NoOne}
      PROVE  EndsWithEvent(id, PutGenericEvent(id, token, address))
  <2> DEFINE tokenKey == IF token THEN <<Put("byToken", id, TRUE)>> ELSE <<>>
             addressKey == IF address = NoOne THEN <<>> ELSE <<Put("byAddress", id, address)>>
  <2>1. Put("byToken", id, TRUE) \in KeyPuts(id) /\ Put("byAddress", id, address) \in KeyPuts(id)
    BY DEF Put, KeyPuts, PutsOf
  <2>2. ASSUME NEW put \in KeyPuts(id) PROVE <<put>> \in Seq(KeyPuts(id))
    OBVIOUS
  <2>3. <<>> \in Seq(KeyPuts(id))
    OBVIOUS
  <2>4. tokenKey \in Seq(KeyPuts(id)) /\ addressKey \in Seq(KeyPuts(id))
    BY <2>1, <2>2, <2>3, Zenon
  <2>5. IndexKeys(id, token, address) = tokenKey \o addressKey
    BY DEF IndexKeys
  <2> HIDE DEF tokenKey, addressKey
  <2>6. IndexKeys(id, token, address) \in Seq(KeyPuts(id))
    BY <2>4, <2>5
  <2> QED BY <2>6, Zenon DEF EndsWithEvent, PutGenericEvent
<1> QED BY <1>1, <1>2

\* The three shapes of a generic event.
LEMMA ShapesTyped ==
    ASSUME NEW id \in LogIds
    PROVE  /\ EndsWithEvent(id, TokenOnly(id))
           /\ \A w \in Wallets \cup {NoOne} : /\ EndsWithEvent(id, AddressOnly(id, w))
                                             /\ EndsWithEvent(id, TokenAndAddress(id, w))
  BY EventEnds DEF TokenOnly, AddressOnly, TokenAndAddress

LEMMA BalancePutsTyped ==
    ASSUME NEW s \in Store, NEW log \in Log, NEW id \in LogIds
    PROVE  /\ log.kind = "Minted" => RecordsEvent(id, handleMinted(s, log, id))
           /\ log.kind = "Burned" => RecordsEvent(id, handleBurned(s, log, id))
           /\ log.kind = "TransferSingle" /\ LeavesEvent(log) =>
                RecordsEvent(id, handleTransferSingle(s, log, id))
<1>1. log.n \in Nat /\ EndsWithEvent(id, PutEvent(id))
  BY EventEnds, LogTyped
<1>2. ASSUME log.kind = "Minted" PROVE RecordsEvent(id, handleMinted(s, log, id))
  <2>1. log.to \in Wallets
    BY <1>2, LogTyped
  <2>2. RecordMint(s, log.to, log.n) \in Seq(RecordPuts)
    BY <1>1, <2>1, SupplyPutsTyped
  <2> QED BY <1>1, <2>2, RecordsThenEvent DEF handleMinted
<1>3. ASSUME log.kind = "Burned" PROVE RecordsEvent(id, handleBurned(s, log, id))
  <2>1. log.from \in Wallets
    BY <1>3, LogTyped
  <2>2. RecordBurn(s, log.from, log.n) \in Seq(RecordPuts)
    BY <1>1, <2>1, SupplyPutsTyped
  <2> QED BY <1>1, <2>2, RecordsThenEvent DEF handleBurned
<1>4. ASSUME log.kind = "TransferSingle", LeavesEvent(log)
      PROVE  RecordsEvent(id, handleTransferSingle(s, log, id))
  <2>1. NoOne \notin {log.from, log.to}
    BY <1>4 DEF LeavesEvent
  <2>2. log.from \in Wallets /\ log.to \in Wallets
    BY <1>4, <2>1, LogTyped
  <2>3. RecordTransfer(s, log.from, log.to, log.n) \in Seq(RecordPuts)
    BY <1>1, <2>2, RecordTransferTyped
  <2> QED BY <1>1, <2>1, <2>3, RecordsThenEvent DEF handleTransferSingle
<1> QED BY <1>2, <1>3, <1>4

LEMMA AssetHandlersTyped ==
    ASSUME NEW s \in Store, NEW log \in Log, NEW id \in LogIds, NEW flag \in BOOLEAN
    PROVE  /\ log.kind = "AssetRegistered" => RecordsEvent(id, handleAssetRegistered(log, id, flag))
           /\ log.kind = "URI" => RecordsEvent(id, handleURI(s, log, id))
           /\ log.kind \in {"AssetPaused", "AssetUnpaused"} =>
                RecordsEvent(id, handleAssetPaused(s, log, id, flag))
<1>1. log.n \in Nat
  BY LogTyped
<1>2. /\ RecordAsset(flag) \in Seq(RecordPuts)
      /\ UpdateAssetPaused(s, flag) \in Seq(RecordPuts)
      /\ UpdateAssetURI(s, log.n) \in Seq(RecordPuts)
  BY <1>1, AssetPutsTyped
<1>3. EndsWithEvent(id, TokenOnly(id))
  BY ShapesTyped
<1>4. ASSUME log.kind \in {"AssetRegistered", "AssetPaused", "AssetUnpaused"}
      PROVE  EndsWithEvent(id, TokenAndAddress(id, log.from))
  BY <1>4, LogTyped, ShapesTyped
<1> QED BY <1>2, <1>3, <1>4, RecordsThenEvent
        DEF handleAssetRegistered, handleURI, handleAssetPaused

LEMMA IdentityHandlersTyped ==
    ASSUME NEW s \in Store, NEW log \in Log, NEW id \in LogIds
    PROVE  /\ log.kind = "IdentityBound" => RecordsEvent(id, handleIdentityBound(s, log, id))
           /\ log.kind = "IdentityUnbound" => RecordsEvent(id, handleIdentityUnbound(s, log, id))
           /\ log.kind = "WalletRecovered" => RecordsEvent(id, handleWalletRecovered(s, log, id))
<1>1. log.n \in Nat
  BY LogTyped
<1>2. ASSUME log.kind = "IdentityBound" PROVE RecordsEvent(id, handleIdentityBound(s, log, id))
  <2>1. log.from \in Wallets /\ log.to \in Identities \cup {NoOne}
    BY <1>2, LogTyped
  <2>2. RecordIdentity(s, log.from, log.to, log.n) \in Seq(RecordPuts)
    BY <1>1, <2>1, RecordIdentityTyped
  <2>3. EndsWithEvent(id, AddressOnly(id, log.from))
    BY <2>1, ShapesTyped
  <2> QED BY <2>2, <2>3, RecordsThenEvent DEF handleIdentityBound
<1>3. ASSUME log.kind = "IdentityUnbound" PROVE RecordsEvent(id, handleIdentityUnbound(s, log, id))
  <2>1. log.from \in Wallets
    BY <1>3, LogTyped
  <2>2. RemoveIdentity(s, log.from) \in Seq(RecordPuts)
    BY <2>1, RemoveIdentityTyped
  <2>3. EndsWithEvent(id, AddressOnly(id, log.from))
    BY <2>1, ShapesTyped
  <2> QED BY <2>2, <2>3, RecordsThenEvent DEF handleIdentityUnbound
<1>4. ASSUME log.kind = "WalletRecovered" PROVE RecordsEvent(id, handleWalletRecovered(s, log, id))
  <2>1. log.from \in Wallets /\ log.to \in Wallets
    BY <1>4, LogTyped
  <2>2. MoveIdentity(s, log.from, log.to) \in Seq(RecordPuts)
    BY <2>1, MoveIdentityTyped
  <2>3. EndsWithEvent(id, AddressOnly(id, log.to))
    BY <2>1, ShapesTyped
  <2> QED BY <2>2, <2>3, RecordsThenEvent DEF handleWalletRecovered
<1> QED BY <1>2, <1>3, <1>4

FreezeLogs == {"WalletFrozen", "AssetFrozen", "PartialFreeze", "LockupSet"}

LEMMA FreezeHandlersTyped ==
    ASSUME NEW s \in Store, NEW log \in Log, NEW id \in LogIds, log.kind \in FreezeLogs
    PROVE  /\ RecordsEvent(id, handleWalletFrozen(log, id))
           /\ RecordsEvent(id, handleAssetFrozen(log, id))
           /\ RecordsEvent(id, handlePartialFreeze(s, log, id))
           /\ RecordsEvent(id, handleLockupSet(s, log, id))
<1>1. log.n \in Nat /\ log.from \in Wallets /\ (log.n = 1) \in BOOLEAN
  BY LogTyped DEF FreezeLogs
<1>2. /\ RecordWalletFreeze(log.from, log.n = 1) \in Seq(RecordPuts)
      /\ RecordFreeze(log.from, log.n = 1) \in Seq(RecordPuts)
      /\ UpdateFreezeAmount(s, log.from, log.n) \in Seq(RecordPuts)
      /\ UpdateLockupExpiry(s, log.from, log.n) \in Seq(RecordPuts)
  BY <1>1, FreezePutsTyped
<1>3. /\ EndsWithEvent(id, AddressOnly(id, log.from))
      /\ EndsWithEvent(id, TokenAndAddress(id, log.from))
  BY <1>1, ShapesTyped
<1>4. RecordsEvent(id, handleWalletFrozen(log, id)) /\ RecordsEvent(id, handleAssetFrozen(log, id))
  BY <1>2, <1>3, RecordsThenEvent DEF handleWalletFrozen, handleAssetFrozen
<1>5. /\ RecordsEvent(id, handlePartialFreeze(s, log, id))
      /\ RecordsEvent(id, handleLockupSet(s, log, id))
  BY <1>2, <1>3, RecordsThenEvent DEF handlePartialFreeze, handleLockupSet
<1> QED BY <1>4, <1>5

\* With neither it is the row alone.
LEMMA BareEvent ==
    ASSUME NEW id
    PROVE  AddressOnly(id, NoOne) = PutEvent(id)
  BY DEF AddressOnly, PutGenericEvent, IndexKeys, PutEvent

\* An event that is only listed: with the tokenId, with an account, with both.
LEMMA NoticePutsTyped ==
    ASSUME NEW log \in Log, NEW id \in LogIds, log.kind \in Notices \cup {"UnitMinted"}
    PROVE  RecordsEvent(id, NoticePuts(log, id))
<1>1. log.from \in Wallets \cup {NoOne}
  BY LogTyped
<1>2. NoticePuts(log, id) \in {TokenOnly(id), AddressOnly(id, NoOne), AddressOnly(id, log.from),
                               TokenAndAddress(id, log.from)}
  BY BareEvent DEF NoticePuts, Notices, TokenNotices, AccountNotices, TokenAccountNotices,
         GroupNotices, OtherTokenNotices, handleGenericEvent, handleGenericEventWithTokenAndAddr, handleGenericEventAddrOnly,
         handleRoleEvent, handleGlobalPlugin, handleSnapshotAndDividendCreated,
         handleDividendClaimed, handleRewardAssetEvent, handleYieldDeposited,
         handleYieldClaimed, handleComplianceSetting, handleMintedOfOther
<1>3. EndsWithEvent(id, NoticePuts(log, id))
  BY <1>1, <1>2, ShapesTyped
<1> QED BY <1>3, OnlyTheEvent

\* Every handler records its log, or writes nothing where the log leaves no event.
LEMMA HandlerPutsTyped ==
    ASSUME NEW s \in Store, NEW log \in Log, NEW id \in LogIds, NEW named \in BOOLEAN
    PROVE  \/ RecordsEvent(id, HandlerPuts(s, log, id, named))
           \/ HandlerPuts(s, log, id, named) = <<>> /\ ~LeavesEvent(log)
<1> DEFINE result == HandlerPuts(s, log, id, named)
<1>1. CASE log.kind \in {"Minted", "Burned", "TransferSingle"}
  <2>1. \/ log.kind = "Minted" /\ result = handleMinted(s, log, id)
        \/ log.kind = "Burned" /\ result = handleBurned(s, log, id)
        \/ log.kind = "TransferSingle" /\ result = handleTransferSingle(s, log, id)
    BY <1>1 DEF HandlerPuts, Notices, TokenNotices, AccountNotices, TokenAccountNotices,
               GroupNotices, OtherTokenNotices
  <2>2. log.kind = "TransferSingle" /\ ~LeavesEvent(log) => handleTransferSingle(s, log, id) = <<>>
    BY DEF LeavesEvent, handleTransferSingle
  <2> QED BY <2>1, <2>2, BalancePutsTyped
<1>2. CASE log.kind \in {"AssetRegistered", "URI", "AssetPaused", "AssetUnpaused"}
  <2>1. \/ log.kind = "AssetRegistered" /\ result = handleAssetRegistered(log, id, named)
        \/ log.kind = "URI" /\ result = handleURI(s, log, id)
        \/ /\ log.kind \in {"AssetPaused", "AssetUnpaused"}
           /\ \E flag \in BOOLEAN : result = handleAssetPaused(s, log, id, flag)
    BY <1>2 DEF HandlerPuts, Notices, TokenNotices, AccountNotices, TokenAccountNotices,
               GroupNotices, OtherTokenNotices
  <2> QED BY <2>1, AssetHandlersTyped
<1>3. CASE log.kind \in {"IdentityBound", "IdentityUnbound", "WalletRecovered"}
  <2>1. \/ log.kind = "IdentityBound" /\ result = handleIdentityBound(s, log, id)
        \/ log.kind = "IdentityUnbound" /\ result = handleIdentityUnbound(s, log, id)
        \/ log.kind = "WalletRecovered" /\ result = handleWalletRecovered(s, log, id)
    BY <1>3 DEF HandlerPuts, Notices, TokenNotices, AccountNotices, TokenAccountNotices,
               GroupNotices, OtherTokenNotices
  <2> QED BY <2>1, IdentityHandlersTyped
<1>4. CASE log.kind \in FreezeLogs
  <2>1. result \in {handleWalletFrozen(log, id), handleAssetFrozen(log, id),
                    handlePartialFreeze(s, log, id), handleLockupSet(s, log, id)}
    BY <1>4 DEF HandlerPuts, FreezeLogs, Notices, TokenNotices, AccountNotices,
               TokenAccountNotices, GroupNotices, OtherTokenNotices
  <2> QED BY <1>4, <2>1, FreezeHandlersTyped
<1>5. CASE log.kind \in Notices \cup {"UnitMinted"}
  <2>1. result = NoticePuts(log, id)
    BY <1>5 DEF HandlerPuts, Notices, TokenNotices, AccountNotices, TokenAccountNotices,
               GroupNotices, OtherTokenNotices
  <2> QED BY <1>5, <2>1, NoticePutsTyped
<1>6. CASE log.kind = "ForcedTransfer"
  <2>1. result = PutEvent(id)
    BY <1>6 DEF HandlerPuts, handleForcedTransfer, Notices, TokenNotices, AccountNotices,
               TokenAccountNotices, GroupNotices, OtherTokenNotices
  <2> QED BY <2>1, EventEnds, OnlyTheEvent
<1>7. CASE log.kind = "TransferBatch"
  BY <1>7 DEF HandlerPuts, LeavesEvent, Notices, TokenNotices, AccountNotices,
              TokenAccountNotices, GroupNotices, OtherTokenNotices
<1>8. log.kind \in {"Minted", "Burned", "TransferSingle"}
        \cup {"AssetRegistered", "URI", "AssetPaused", "AssetUnpaused"}
        \cup {"IdentityBound", "IdentityUnbound", "WalletRecovered"}
        \cup FreezeLogs \cup Notices \cup {"UnitMinted", "ForcedTransfer", "TransferBatch"}
  BY DEF Log, LogsOf, FreezeLogs, Notices
<1> QED BY <1>1, <1>2, <1>3, <1>4, <1>5, <1>6, <1>7, <1>8

-----------------------------------------------------------------------------
(* The database after a put *)

LEMMA PutKeepsStore ==
    ASSUME NEW s \in Store, NEW put \in Puts
    PROVE  After(s, put) \in Store /\ After(s, put).cursor = s.cursor
<1> USE DEF After, Store, Puts, PutsOf
<1>1. CASE put.table = "meta"
  BY <1>1
<1>2. CASE put.table = "holder"
  BY <1>2
<1>3. CASE put.table = "portfolio"
  BY <1>3
<1>4. CASE put.table = "event"
  BY <1>4
<1>5. CASE put.table = "freeze"
  BY <1>5
<1>6. CASE put.table = "identity"
  BY <1>6
<1>7. CASE put.table = "byCountry"
  BY <1>7
<1>8. CASE put.table = "byToken"
  BY <1>8
<1>9. CASE put.table = "byAddress"
  BY <1>9
<1>10. CASE put.table = "asset"
  BY <1>10
<1>11. CASE put.table = "walletFreeze"
  BY <1>11
<1> QED BY <1>1, <1>2, <1>3, <1>4, <1>5, <1>6, <1>7, <1>8, <1>9, <1>10, <1>11

LEMMA CursorPut ==
    ASSUME NEW s \in Store, NEW block \in Nat
    PROVE  /\ After(s, Put("cursor", OnlyRow, block)) \in Store
           /\ After(s, Put("cursor", OnlyRow, block)).cursor[OnlyRow] = block
  BY DEF After, Put, Store


-----------------------------------------------------------------------------
(* The inductive invariant *)

\* The logs to come are on the chain.
LogsOnChain == logs \subseteq LogsIn(1, Len(chain))

\* What is still to be handled is not behind the cursor, and comes in order.
NothingBehind ==
    /\ \A id \in logs : Cursor <= id[1]
    /\ current # NoLog => Cursor <= current[1] /\ \A id \in logs : current[1] <= id[1]

\* Where the backfill or the poll ends is ahead of the cursor and of its logs.
EndAhead ==
    /\ phase \in {"down", "idle", "backfill"} => logs = {} /\ current = NoLog
    /\ phase = "backfill" => Cursor < fromBlock
    /\ phase = "chunk" =>
         /\ Cursor <= fromBlock + ChunkSize
         /\ \A id \in logs : id[1] <= fromBlock + ChunkSize
         /\ current # NoLog => current[1] <= fromBlock + ChunkSize
    /\ phase = "poll" =>
         /\ Cursor <= latest
         /\ \A id \in logs : id[1] <= latest
         /\ current # NoLog => current[1] <= latest

IInv == TypeOK /\ LogsOnChain /\ NothingBehind /\ EndAhead

LEMMA InitIInv == Init => IInv
<1> SUFFICES ASSUME Init PROVE IInv
  OBVIOUS
<1>1. Genesis \in ContractState
  BY DEF Genesis, ContractState
<1>2. EmptyStore \in Store
  BY CountAssumption
     DEF EmptyStore, Store, TokenMeta, FreezeState, AssetConfig, Identity,
         NotFrozen, NoAsset, NoIdentity
<1>3. chain \in Seq(Block) /\ Len(chain) <= MaxBlocks
  BY ChainAssumption DEF Init
<1>4. TypeOK
  BY <1>2, <1>3, ChainAssumption, IndexerAssumption DEF Init, StoreInit, TypeOK, Phases
<1> QED BY <1>4 DEF Init, StoreInit, IInv, LogsOnChain, NothingBehind, EndAhead

\* The latest block is asked for, or a query is made.
LEMMA LogsInTyped ==
    ASSUME NEW first \in Nat, NEW last \in Nat
    PROVE  /\ LogsIn(first, last) \subseteq LogIds
           /\ LogsIn(first, last) \subseteq LogsIn(1, Len(chain))
           /\ \A id \in LogsIn(first, last) : first <= id[1] /\ id[1] <= last
  BY DEF LogsIn, LogIds

LEMMA LogOnChain ==
    ASSUME TypeOK, NEW id \in LogsIn(1, Len(chain))
    PROVE  LogAt(id) \in Log
<1> DEFINE block == chain[id[1]].logs
<1>1. id[1] \in 1..Len(chain) /\ id[2] \in 1..Len(block)
  BY DEF LogsIn, LogIds, TypeOK
<1>2. block \in Seq(Log)
  <2>1. chain[id[1]] \in Block
    BY <1>1 DEF TypeOK
  <2> QED BY <2>1 DEF Block
<1> HIDE DEF block
<1>3. block[id[2]] \in Log
  BY <1>1, <1>2
<1> QED BY <1>3 DEF LogAt, block

\* A block more: what was on the chain stays there.
LEMMA MineBlockIInv == IInv /\ MineBlock(Traffic) => IInv'
<1> SUFFICES ASSUME IInv, MineBlock(Traffic) PROVE IInv'
  OBVIOUS
<1>1. PICK b \in Blocks(Traffic, Tip) : chain' = Append(chain, b)
  BY DEF MineBlock, NewBlock
<1>2. Tip \in ContractState
  <2>1. Genesis \in ContractState
    BY DEF Genesis, ContractState
  <2>2. CASE Len(chain) # 0
    <3>1. chain[Len(chain)] \in Block
      BY <2>2 DEF IInv, TypeOK
    <3> QED BY <2>2, <3>1 DEF Tip, StateAt, Block
  <2> QED BY <2>1, <2>2 DEF Tip, StateAt
<1>3. b \in Block
  BY <1>2, BlocksTyped, ChainAssumption
<1>4. /\ chain' \in Seq(Block) /\ Len(chain') = Len(chain) + 1
      /\ \A k \in 1..Len(chain) : chain'[k] = chain[k]
  BY <1>1, <1>3 DEF IInv, TypeOK
<1>5. Len(chain') <= MaxBlocks
  BY <1>4, ChainAssumption DEF MineBlock, NewBlock, IInv, TypeOK
<1>6. TypeOK'
  BY <1>4, <1>5 DEF MineBlock, process, IInv, TypeOK
<1>7. LogsOnChain'
  BY <1>4 DEF MineBlock, process, IInv, TypeOK, LogsOnChain, LogsIn, LogIds
<1>8. NothingBehind' /\ EndAhead'
  BY DEF MineBlock, process, IInv, NothingBehind, EndAhead, Cursor
<1> QED BY <1>6, <1>7, <1>8 DEF IInv

\* enrichAssets writes the row of the asset and no other.
LEMMA EnrichmentKeepsStore ==
    ASSUME db \in Store, db' \in {db, Enriched}
    PROVE  db' \in Store /\ Cursor' = Cursor
<1> DEFINE row == [Asset(db) EXCEPT !.named = TRUE]
<1>1. row \in AssetConfig
  <2>1. db.asset \in [{OnlyRow} -> AssetConfig]
    BY DEF Store
  <2>2. Asset(db) \in AssetConfig
    BY <2>1 DEF Asset
  <2> QED BY <2>2 DEF AssetConfig
<1>2. PutAsset(row)[1] \in Puts /\ PutAsset(row)[1] = Put("asset", OnlyRow, row)
  <2> HIDE DEF row
  <2> QED BY <1>1 DEF PutAsset, Put, Puts, PutsOf
<1>3. Enriched \in {db, After(db, PutAsset(row)[1])}
  BY DEF Enriched
<1> HIDE DEF row
<1>4. CASE db' = db
  BY <1>4 DEF Cursor
<1>5. CASE db' = After(db, PutAsset(row)[1])
  BY <1>2, <1>5, PutKeepsStore DEF Cursor
<1> QED BY <1>3, <1>4, <1>5

LEMMA StartIInv == IInv /\ Start => IInv'
<1> SUFFICES ASSUME IInv, Start PROVE IInv'
  OBVIOUS
<1>1. Cursor \in Nat
  BY DEF IInv, TypeOK, Store, Cursor
<1>2. BackfillFrom \in Nat /\ (BackfillFrom # 0 => Cursor < BackfillFrom)
  BY <1>1, IndexerAssumption DEF BackfillFrom
<1>3. Len(chain) \in 0..MaxBlocks
  BY ChainAssumption DEF IInv, TypeOK
<1>4. logs = {} /\ current = NoLog
  BY DEF Start, IInv, EndAhead
<1>5. db' \in Store /\ Cursor' = Cursor
  BY EnrichmentKeepsStore DEF Start, IInv, TypeOK
<1>6. TypeOK'
  BY <1>2, <1>3, <1>5, IndexerAssumption DEF Start, IInv, TypeOK, Phases
<1>7. LogsOnChain'
  BY DEF Start, IInv, LogsOnChain, LogsIn
<1>8. NothingBehind' /\ EndAhead'
  BY <1>2, <1>4, <1>5 DEF Start, IInv, NothingBehind, EndAhead
<1> QED BY <1>6, <1>7, <1>8 DEF IInv

LEMMA FetchChunkIInv == IInv /\ FetchChunk => IInv'
<1> SUFFICES ASSUME IInv, FetchChunk PROVE IInv'
  OBVIOUS
<1>1. Cursor \in Nat /\ fromBlock \in Nat /\ latest \in Nat /\ ChunkSize \in Nat
  BY IndexerAssumption, ChainAssumption DEF IInv, TypeOK, Store, Cursor
<1>2. ChunkEnd \in Nat /\ ChunkEnd <= fromBlock + ChunkSize
  BY <1>1 DEF ChunkEnd, Least
<1>3. /\ logs' \subseteq LogIds
      /\ logs' \subseteq LogsIn(1, Len(chain))
      /\ \A id \in logs' : fromBlock <= id[1] /\ id[1] <= ChunkEnd
  BY <1>1, <1>2, LogsInTyped DEF FetchChunk
<1>4. \A id \in logs' : id[1] \in Nat
  BY <1>3 DEF LogIds
<1>5. Cursor < fromBlock /\ current = NoLog
  BY DEF FetchChunk, IInv, EndAhead
<1>6. TypeOK'
  BY <1>3 DEF FetchChunk, IInv, TypeOK, Phases
<1>7. LogsOnChain'
  BY <1>3 DEF FetchChunk, LogsOnChain, LogsIn
<1>8. NothingBehind'
  BY <1>1, <1>3, <1>4, <1>5 DEF FetchChunk, NothingBehind, Cursor
<1>9. EndAhead'
  BY <1>1, <1>2, <1>3, <1>4, <1>5 DEF FetchChunk, EndAhead, Cursor
<1> QED BY <1>6, <1>7, <1>8, <1>9 DEF IInv

LEMMA PollIInv == IInv /\ Poll => IInv'
<1> SUFFICES ASSUME IInv, Poll PROVE IInv'
  OBVIOUS
<1>1. Cursor \in Nat /\ PollFrom \in Nat /\ PollFrom = Cursor + 1
  BY DEF IInv, TypeOK, Store, Cursor, PollFrom
<1>2. Len(chain) \in 0..MaxBlocks /\ Len(chain) \in Nat
  BY ChainAssumption DEF IInv, TypeOK
<1>3. /\ logs' \subseteq LogIds
      /\ logs' \subseteq LogsIn(1, Len(chain))
      /\ \A id \in logs' : PollFrom <= id[1] /\ id[1] <= Len(chain)
  BY <1>1, <1>2, LogsInTyped DEF Poll
<1>4. \A id \in logs' : id[1] \in Nat
  BY <1>3 DEF LogIds
<1>5. current = NoLog
  BY DEF Poll, IInv, EndAhead
<1>6. TypeOK'
  BY <1>2, <1>3 DEF Poll, IInv, TypeOK, Phases
<1>7. LogsOnChain'
  BY <1>3 DEF Poll, LogsOnChain, LogsIn
<1>8. NothingBehind'
  BY <1>1, <1>3, <1>4, <1>5 DEF Poll, NothingBehind, Cursor
<1>9. EndAhead'
  BY <1>1, <1>2, <1>3, <1>5 DEF Poll, EndAhead, Cursor
<1> QED BY <1>6, <1>7, <1>8, <1>9 DEF IInv

LEMMA FailIInv == IInv /\ Fail => IInv'
<1> SUFFICES ASSUME IInv, Fail PROVE IInv'
  OBVIOUS
<1> USE IndexerAssumption DEF IInv, LogsOnChain, NothingBehind, EndAhead, LogsIn, Error
<1>1. CASE StartFails
  <2>1. db' \in Store /\ Cursor' = Cursor
    BY <1>1, EnrichmentKeepsStore DEF StartFails, TypeOK
  <2> QED BY <1>1, <2>1 DEF StartFails, TypeOK, Phases
<1> USE DEF Cursor
<1>2. CASE FetchChunkFails
  BY <1>2 DEF FetchChunkFails, TypeOK, Phases
<1>3. CASE PollFails
  BY <1>3 DEF PollFails, process, TypeOK
<1>4. CASE Crash
  <2>1. TypeOK'
    BY <1>4, ChainAssumption DEF Crash, TypeOK, Phases
  <2> QED BY <1>4, <2>1 DEF Crash
<1> QED BY <1>1, <1>2, <1>3, <1>4 DEF Fail

LEMMA ChunkDoneIInv == IInv /\ ChunkDone => IInv'
<1> SUFFICES ASSUME IInv, ChunkDone PROVE IInv'
  OBVIOUS
<1>1. Cursor \in Nat /\ fromBlock \in Nat /\ ChunkSize \in Nat
  BY IndexerAssumption DEF IInv, TypeOK, Store, Cursor
<1>2. Cursor' < fromBlock' /\ fromBlock' \in Nat
  BY <1>1 DEF ChunkDone, IInv, EndAhead, Cursor
<1>3. TypeOK'
  BY <1>2, IndexerAssumption DEF ChunkDone, IInv, TypeOK, Phases
<1> QED BY <1>2, <1>3 DEF ChunkDone, IInv, LogsOnChain, NothingBehind, EndAhead

LEMMA TakeLogIInv == IInv /\ TakeLog => IInv'
<1> SUFFICES ASSUME IInv, TakeLog PROVE IInv'
  OBVIOUS
<1>1. PICK id \in logs, named \in BOOLEAN :
        /\ \A other \in logs : NotAfter(id, other)
        /\ current' = id
        /\ puts' = HandlerPuts(db, LogAt(id), id, named)
        /\ logs' = logs \ {id}
  BY DEF TakeLog
<1>2. id \in LogIds /\ id # NoLog
  BY DEF IInv, TypeOK, LogIds, NoLog
<1>3. \A other \in logs : id[1] <= other[1]
  BY <1>1, <1>2 DEF NotAfter, IInv, TypeOK, LogIds
<1>4. puts' \in Seq(Puts)
  <2>1. LogAt(id) \in Log
    BY LogOnChain DEF IInv, LogsOnChain
  <2>2. \/ RecordsEvent(id, puts')
        \/ puts' = <<>>
    BY <1>1, <1>2, <2>1, HandlerPutsTyped DEF IInv, TypeOK
  <2>3. CASE RecordsEvent(id, puts')
    BY <2>3 DEF RecordsEvent
  <2>4. CASE puts' = <<>>
    BY <2>4
  <2> QED BY <2>2, <2>3, <2>4
<1>5. TypeOK'
  BY <1>1, <1>2, <1>4 DEF TakeLog, IInv, TypeOK
<1>6. LogsOnChain'
  BY <1>1 DEF TakeLog, IInv, LogsOnChain, LogsIn
<1>7. NothingBehind'
  BY <1>1, <1>3 DEF TakeLog, IInv, NothingBehind, Cursor
<1>8. EndAhead'
  BY <1>1 DEF TakeLog, IInv, EndAhead, Cursor
<1> QED BY <1>5, <1>6, <1>7, <1>8 DEF IInv

LEMMA WriteNextIInv == IInv /\ WriteNext => IInv' /\ Cursor' = Cursor
<1> SUFFICES ASSUME IInv, WriteNext PROVE IInv' /\ Cursor' = Cursor
  OBVIOUS
<1>1. Head(puts) \in Puts /\ Tail(puts) \in Seq(Puts)
  BY DEF WriteNext, IInv, TypeOK
<1>2. db' \in Store /\ Cursor' = Cursor
  BY <1>1, PutKeepsStore DEF WriteNext, IInv, TypeOK, Cursor
<1>3. TypeOK'
  BY <1>1, <1>2 DEF WriteNext, IInv, TypeOK
<1> QED BY <1>2, <1>3
        DEF WriteNext, IInv, LogsOnChain, LogsIn, NothingBehind, EndAhead

LEMMA FinishLogIInv == IInv /\ FinishLog => IInv' /\ Cursor' >= Cursor
<1> SUFFICES ASSUME IInv, FinishLog PROVE IInv' /\ Cursor' >= Cursor
  OBVIOUS
<1>1. current \in LogIds /\ current[1] \in Nat
  BY DEF FinishLog, IInv, TypeOK, LogIds
<1>2. db' \in Store /\ Cursor' = current[1]
  BY <1>1, CursorPut DEF FinishLog, SetCursor, IInv, TypeOK, Cursor
<1>3. Cursor <= current[1] /\ \A id \in logs : current[1] <= id[1]
  BY DEF FinishLog, IInv, NothingBehind
<1>4. TypeOK'
  BY <1>2 DEF FinishLog, IInv, TypeOK
<1>5. LogsOnChain' /\ NothingBehind'
  BY <1>2, <1>3 DEF FinishLog, IInv, LogsOnChain, LogsIn, NothingBehind
<1>6. EndAhead'
  BY <1>2 DEF FinishLog, IInv, EndAhead
<1>7. Cursor \in Nat
  BY DEF IInv, TypeOK, Store, Cursor
<1> QED BY <1>1, <1>2, <1>3, <1>4, <1>5, <1>6, <1>7 DEF IInv

LEMMA PollDoneIInv == IInv /\ PollDone => IInv' /\ Cursor' >= Cursor
<1> SUFFICES ASSUME IInv, PollDone PROVE IInv' /\ Cursor' >= Cursor
  OBVIOUS
<1>1. latest \in Nat /\ Cursor \in Nat /\ Cursor <= latest
  BY ChainAssumption DEF PollDone, IInv, TypeOK, EndAhead, Store, Cursor
<1>2. db' \in Store /\ Cursor' = latest
  BY <1>1, CursorPut DEF PollDone, SetCursor, IInv, TypeOK, Cursor
<1>3. TypeOK'
  BY <1>2 DEF PollDone, IInv, TypeOK, Phases
<1>4. IInv'
  BY <1>3 DEF PollDone, IInv, LogsOnChain, NothingBehind, EndAhead
<1> QED BY <1>1, <1>2, <1>4

\* One step: the invariant is kept and the cursor does not go back.
LEMMA StepIInv == IInv /\ [Next]_vars => IInv' /\ Cursor' >= Cursor
<1> SUFFICES ASSUME IInv, [Next]_vars PROVE IInv' /\ Cursor' >= Cursor
  OBVIOUS
<1>1. Cursor \in Nat
  BY DEF IInv, TypeOK, Store, Cursor
<1>2. CASE Start
  <2>1. Cursor' = Cursor
    BY <1>2, EnrichmentKeepsStore DEF Start, IInv, TypeOK
  <2> QED BY <1>1, <1>2, <2>1, StartIInv
<1>3. CASE FetchChunk
  BY <1>1, <1>3, FetchChunkIInv DEF FetchChunk, Cursor
<1>4. CASE ChunkDone
  BY <1>1, <1>4, ChunkDoneIInv DEF ChunkDone, Cursor
<1>5. CASE Poll
  BY <1>1, <1>5, PollIInv DEF Poll, Cursor
<1>6. CASE PollDone
  BY <1>6, PollDoneIInv
<1>7. CASE TakeLog
  BY <1>1, <1>7, TakeLogIInv DEF TakeLog, Cursor
<1>8. CASE WriteNext
  BY <1>1, <1>8, WriteNextIInv
<1>9. CASE FinishLog
  BY <1>9, FinishLogIInv
<1>10. CASE Fail
  <2>1. CASE StartFails
    BY <1>1, <1>10, <2>1, FailIInv, EnrichmentKeepsStore DEF StartFails, IInv, TypeOK
  <2>2. CASE ~StartFails
    BY <1>1, <1>10, <2>2, FailIInv DEF Fail, FetchChunkFails, PollFails, Crash, Cursor
  <2> QED BY <2>1, <2>2
<1>11. CASE MineBlock(Traffic)
  BY <1>1, <1>11, MineBlockIInv DEF MineBlock, Cursor
<1>12. CASE UNCHANGED vars
  BY <1>1, <1>12 DEF vars, process, IInv, TypeOK, LogsOnChain, LogsIn,
                     NothingBehind, EndAhead, Cursor
<1> QED BY <1>2, <1>3, <1>4, <1>5, <1>6, <1>7, <1>8, <1>9, <1>10, <1>11, <1>12
        DEF Next, Work

-----------------------------------------------------------------------------
(* What is recorded of the logs *)

OnChain(id) == id[1] <= Len(chain) /\ id[2] <= Len(chain[id[1]].logs)

\* The log in hand waits for its row, or has it and waits for its keys.
EventToCome == \E p \in Nat : EventAt(current, p, puts)
KeysToCome ==
    /\ \A k \in 1..Len(puts) : puts[k] \in KeyPuts(current)
    /\ db.event[current] \/ (puts = <<>> /\ ~LeavesEvent(LogAt(current)))

PutsInOrder == current # NoLog => EventToCome \/ KeysToCome

\* The last block that was queried; between queries, the one the cursor says.
Reach ==
    IF phase = "backfill" THEN fromBlock - 1
    ELSE IF phase = "chunk" THEN ChunkEnd
    ELSE IF phase = "poll" THEN latest
    ELSE Cursor

QueryKnown ==
    /\ phase \in {"backfill", "chunk", "poll"} => latest <= Len(chain)
    /\ phase \in {"backfill", "chunk"} => fromBlock <= latest
    /\ Cursor <= Reach /\ Reach <= Len(chain)
    /\ \A id \in logs : id[1] <= Reach
    /\ current # NoLog => current[1] <= Reach /\ OnChain(current) /\ current \notin logs

\* What a query brought beyond the cursor is in hand or still to be handled.
AheadKnown == \A id \in Ahead : id[1] <= Reach => id \in logs \/ id = current

\* The log in hand is the first beyond the cursor, or not beyond it.
CurrentFirst == current \in Ahead => \A other \in Ahead : NotAfter(current, other)

EventsOnChain == \A id \in LogIds : db.event[id] => OnChain(id)

QueryInv == QueryKnown /\ AheadKnown /\ CurrentFirst

LEMMA InitQueryInv == Init => QueryInv
<1> SUFFICES ASSUME Init PROVE QueryInv
  OBVIOUS
<1>1. Cursor = 0 /\ Reach = 0 /\ Len(chain) = 0 /\ Ahead = {}
  BY DEF Init, StoreInit, EmptyStore, Cursor, Reach, Ahead, LogsIn, LogIds
<1> QED BY <1>1 DEF Init, StoreInit, QueryInv, QueryKnown, AheadKnown, CurrentFirst

LEMMA NumbersTyped ==
    ASSUME IInv
    PROVE  /\ Cursor \in Nat /\ fromBlock \in Nat /\ latest \in Nat /\ ChunkSize \in Nat
           /\ Len(chain) \in Nat /\ StartBlock \in Nat
           /\ \A id \in LogIds : id[1] \in Nat /\ id[2] \in Nat /\ id # NoLog
           /\ logs \subseteq LogIds
           /\ current # NoLog => current \in LogIds
  BY IndexerAssumption, ChainAssumption DEF IInv, TypeOK, Store, Cursor, LogIds, NoLog

LEMMA StartQueryInv == IInv /\ QueryInv /\ Start => QueryInv'
<1> SUFFICES ASSUME IInv, QueryInv, Start PROVE QueryInv'
  OBVIOUS
<1> USE NumbersTyped
<1>1. Cursor' = Cursor /\ logs' = {} /\ current' = NoLog /\ NoLog \notin Ahead'
  BY EnrichmentKeepsStore DEF Start, IInv, TypeOK, EndAhead, Ahead, LogsIn
<1>2. BackfillFrom \in Nat /\ (BackfillFrom = Cursor + 1 \/ BackfillFrom = StartBlock)
  BY DEF BackfillFrom
<1>3. BackfillFrom # 0 => Cursor < BackfillFrom
  BY DEF BackfillFrom
<1>4. Cursor <= Len(chain)
  BY DEF Start, QueryInv, QueryKnown, Reach
<1>5. CASE phase' = "backfill"
  <2>1. /\ fromBlock' = BackfillFrom /\ latest' = Len(chain) /\ chain' = chain
        /\ BackfillFrom # 0 /\ BackfillFrom <= Len(chain)
    BY <1>2, <1>5 DEF Start
  <2>2. Reach' = BackfillFrom - 1
    BY <1>5, <2>1 DEF Reach
  <2>3. QueryKnown'
    BY <1>1, <1>2, <1>3, <1>5, <2>1, <2>2 DEF QueryKnown
  <2>4. AheadKnown'
    BY <1>1, <1>2, <2>2, SMTT(30) DEF AheadKnown, Ahead, LogsIn
  <2> QED BY <1>1, <2>3, <2>4 DEF QueryInv, CurrentFirst
<1>6. CASE phase' = "idle"
  <2>1. Reach' = Cursor /\ chain' = chain
    BY <1>1, <1>6 DEF Reach, Start
  <2>2. QueryKnown'
    BY <1>1, <1>4, <1>6, <2>1 DEF QueryKnown
  <2>3. AheadKnown'
    BY <1>1, <2>1 DEF AheadKnown, Ahead, LogsIn
  <2> QED BY <1>1, <2>2, <2>3 DEF QueryInv, CurrentFirst
<1> QED BY <1>5, <1>6 DEF Start

LEMMA QueryQueryInv == IInv /\ QueryInv /\ (FetchChunk \/ Poll) => QueryInv'
<1> SUFFICES ASSUME IInv, QueryInv, FetchChunk \/ Poll PROVE QueryInv'
  OBVIOUS
<1> USE NumbersTyped
<1> DEFINE first == IF phase = "backfill" THEN fromBlock ELSE Cursor + 1
<1>1. /\ chain' = chain /\ Cursor' = Cursor
      /\ logs' = LogsIn(first, Reach')
      /\ logs = {} /\ current = NoLog /\ current' = NoLog
  BY DEF FetchChunk, Poll, PollFrom, Cursor, Reach, ChunkEnd, Least, IInv, EndAhead
<1>2. Ahead' = Ahead /\ NoLog \notin Ahead
  BY <1>1 DEF Ahead, LogsIn
<1>3. Reach \in Int /\ first = Reach + 1 /\ Reach' \in Nat
  BY DEF FetchChunk, Poll, Reach, ChunkEnd, Least
<1>4. /\ first <= Reach' /\ Reach' <= Len(chain)
      /\ phase' \in {"chunk", "poll"}
      /\ latest' <= Len(chain)
      /\ phase' = "chunk" => fromBlock' <= latest'
  BY DEF FetchChunk, Poll, PollFrom, Reach, ChunkEnd, Least, QueryInv, QueryKnown
<1> HIDE DEF first
<1>5. \A id \in logs' : id[1] <= Reach'
  BY <1>1, <1>3 DEF LogsIn
<1>6. QueryKnown'
  BY <1>1, <1>3, <1>4, <1>5 DEF QueryKnown, QueryInv
<1>7. AheadKnown'
  <2> SUFFICES ASSUME NEW id \in Ahead, id[1] <= Reach' PROVE id \in logs'
    BY <1>2 DEF AheadKnown
  <2>1. id \in LogIds /\ id[1] <= Len(chain) /\ id[2] <= Len(chain[id[1]].logs)
    BY DEF Ahead, LogsIn
  <2>2. first <= id[1]
    BY <1>1, <1>2, <1>3, <2>1 DEF QueryInv, AheadKnown
  <2> QED BY <1>1, <2>1, <2>2 DEF LogsIn
<1>8. CurrentFirst'
  BY <1>1, <1>2 DEF CurrentFirst
<1> QED BY <1>6, <1>7, <1>8 DEF QueryInv

\* A query is over, or given up, or the process is killed.
LEMMA RestQueryInv ==
    ASSUME IInv, QueryInv, chain' = chain, Cursor' = Cursor,
           logs' = {}, current' = NoLog, phase' \in {"idle", "down"}
    PROVE  QueryInv'
<1> USE NumbersTyped
<1>1. Reach' = Cursor
  BY DEF Reach
<1>2. Reach \in Int
  BY DEF Reach, ChunkEnd, Least
<1>3. Cursor <= Len(chain)
  BY <1>2 DEF QueryKnown, QueryInv
<1>4. QueryKnown'
  BY <1>1, <1>3 DEF QueryKnown
<1>5. AheadKnown' /\ CurrentFirst'
  BY <1>1 DEF AheadKnown, CurrentFirst, Ahead, LogsIn, NoLog, LogIds
<1> QED BY <1>4, <1>5 DEF QueryInv

LEMMA ChunkDoneQueryInv == IInv /\ QueryInv /\ ChunkDone => QueryInv'
<1> SUFFICES ASSUME IInv, QueryInv, ChunkDone PROVE QueryInv'
  OBVIOUS
<1> USE NumbersTyped
<1>1. /\ chain' = chain /\ Cursor' = Cursor /\ latest' = latest
      /\ logs = {} /\ current = NoLog /\ logs' = {} /\ current' = NoLog
      /\ fromBlock' = fromBlock + ChunkSize + 1
  BY DEF ChunkDone, Cursor
<1>2. CASE phase' = "idle"
  BY <1>1, <1>2, RestQueryInv
<1>3. CASE phase' = "backfill"
  <2>1. fromBlock + ChunkSize + 1 <= latest
    BY <1>1, <1>3 DEF ChunkDone
  <2>2. Reach = fromBlock + ChunkSize /\ Reach' = Reach
    BY <1>1, <1>3, <2>1 DEF ChunkDone, Reach, ChunkEnd, Least
  <2>3. QueryKnown'
    BY <1>1, <1>3, <2>1, <2>2 DEF ChunkDone, QueryInv, QueryKnown
  <2>4. AheadKnown' /\ CurrentFirst'
    BY <1>1, <2>2 DEF QueryInv, AheadKnown, CurrentFirst, Ahead, LogsIn
  <2> QED BY <2>3, <2>4 DEF QueryInv
<1> QED BY <1>2, <1>3 DEF ChunkDone

LEMMA FailQueryInv == IInv /\ QueryInv /\ Fail => QueryInv'
<1> SUFFICES ASSUME IInv, QueryInv, Fail PROVE QueryInv'
  OBVIOUS
<1>1. CASE StartFails
  BY <1>1, RestQueryInv, EnrichmentKeepsStore DEF StartFails, IInv, TypeOK, EndAhead
<1>2. CASE FetchChunkFails
  <2>1. /\ chain' = chain /\ Cursor' = Cursor /\ logs' = {} /\ current' = NoLog
        /\ logs = {} /\ current = NoLog
    BY <1>2 DEF FetchChunkFails, Cursor, IInv, EndAhead
  <2>2. CASE phase' = "idle"
    BY <2>1, <2>2, RestQueryInv
  <2>3. CASE phase' = phase
    <3>1. Reach' = Reach /\ latest' = latest /\ fromBlock' = fromBlock
      BY <1>2, <2>1, <2>3 DEF FetchChunkFails, Reach, ChunkEnd, Least
    <3> QED BY <2>1, <2>3, <3>1
            DEF QueryInv, QueryKnown, AheadKnown, CurrentFirst, Ahead, LogsIn
  <2> QED BY <1>2, <2>2, <2>3 DEF FetchChunkFails
<1>3. CASE PollFails
  BY <1>3, RestQueryInv DEF PollFails, process, Cursor, IInv, EndAhead
<1>4. CASE Crash
  BY <1>4, RestQueryInv DEF Crash, Cursor
<1> QED BY <1>1, <1>2, <1>3, <1>4 DEF Fail

LEMMA PollDoneQueryInv == IInv /\ QueryInv /\ PollDone => QueryInv'
<1> SUFFICES ASSUME IInv, QueryInv, PollDone PROVE QueryInv'
  OBVIOUS
<1> USE NumbersTyped
<1>1. /\ chain' = chain /\ phase' = "idle" /\ logs' = {} /\ current' = NoLog
      /\ logs = {} /\ current = NoLog /\ Reach = latest
  BY DEF PollDone, Reach
<1>2. Cursor' = latest
  BY CursorPut DEF PollDone, SetCursor, IInv, TypeOK, Cursor
<1>3. Reach' = latest
  BY <1>1, <1>2 DEF Reach
<1>4. QueryKnown'
  BY <1>1, <1>2, <1>3 DEF QueryKnown, QueryInv
<1>5. AheadKnown' /\ CurrentFirst'
  BY <1>1, <1>2, <1>3 DEF AheadKnown, CurrentFirst, Ahead, LogsIn, NoLog, LogIds
<1> QED BY <1>4, <1>5 DEF QueryInv

LEMMA TakeLogQueryInv == IInv /\ QueryInv /\ TakeLog => QueryInv'
<1> SUFFICES ASSUME IInv, QueryInv, TakeLog PROVE QueryInv'
  OBVIOUS
<1> USE NumbersTyped
<1>1. PICK id \in logs :
        /\ \A other \in logs : NotAfter(id, other)
        /\ current' = id
        /\ logs' = logs \ {id}
  BY DEF TakeLog
<1>2. /\ chain' = chain /\ Cursor' = Cursor /\ phase' = phase
      /\ latest' = latest /\ fromBlock' = fromBlock /\ current = NoLog
  BY DEF TakeLog, Cursor
<1>3. Reach' = Reach /\ Ahead' = Ahead
  BY <1>2 DEF Reach, ChunkEnd, Least, Ahead, LogsIn
<1>4. OnChain(id) /\ id[1] <= Reach
  BY DEF IInv, LogsOnChain, LogsIn, OnChain, QueryInv, QueryKnown
<1>5. QueryKnown'
  BY <1>1, <1>2, <1>3, <1>4 DEF QueryKnown, QueryInv, OnChain
<1>6. \A other \in Ahead : other[1] <= Reach => other \in logs
  BY <1>2 DEF QueryInv, AheadKnown, Ahead, LogsIn
<1>7. AheadKnown'
  BY <1>1, <1>3, <1>6 DEF AheadKnown
<1>8. CurrentFirst'
  <2> SUFFICES ASSUME NEW other \in Ahead PROVE NotAfter(id, other)
    BY <1>1, <1>3 DEF CurrentFirst
  <2>1. other \in LogIds /\ id \in LogIds /\ Reach \in Int
    BY DEF Ahead, LogsIn, Reach, ChunkEnd, Least
  <2>2. CASE other[1] <= Reach
    BY <1>1, <1>6, <2>2
  <2>3. CASE ~(other[1] <= Reach)
    BY <1>4, <2>1, <2>3 DEF NotAfter
  <2> QED BY <2>2, <2>3
<1> QED BY <1>5, <1>7, <1>8 DEF QueryInv

LEMMA WriteNextQueryInv == IInv /\ QueryInv /\ WriteNext => QueryInv'
<1> SUFFICES ASSUME IInv, QueryInv, WriteNext PROVE QueryInv'
  OBVIOUS
<1>1. /\ chain' = chain /\ Cursor' = Cursor /\ phase' = phase /\ logs' = logs
      /\ latest' = latest /\ fromBlock' = fromBlock /\ current' = current
  BY WriteNextIInv DEF WriteNext
<1>2. Reach' = Reach /\ Ahead' = Ahead
  BY <1>1 DEF Reach, ChunkEnd, Least, Ahead, LogsIn
<1> QED BY <1>1, <1>2 DEF QueryInv, QueryKnown, AheadKnown, CurrentFirst, OnChain

LEMMA FinishLogQueryInv == IInv /\ QueryInv /\ FinishLog => QueryInv'
<1> SUFFICES ASSUME IInv, QueryInv, FinishLog PROVE QueryInv'
  OBVIOUS
<1> USE NumbersTyped
<1>1. /\ chain' = chain /\ phase' = phase /\ logs' = logs
      /\ latest' = latest /\ fromBlock' = fromBlock /\ current' = NoLog
      /\ current # NoLog /\ current \in LogIds
  BY DEF FinishLog
<1>2. Cursor' = current[1] /\ Cursor <= Cursor'
  BY <1>1, CursorPut DEF FinishLog, SetCursor, IInv, TypeOK, Cursor, NothingBehind
<1>3. phase \in {"chunk", "poll"}
  BY <1>1 DEF IInv, EndAhead, TypeOK, Phases
<1>4. Reach' = Reach
  BY <1>1, <1>3 DEF Reach, ChunkEnd, Least
<1>5. QueryKnown'
  BY <1>1, <1>2, <1>4 DEF QueryKnown, QueryInv
<1>6. \A id \in Ahead' : id \in Ahead /\ id # current /\ id # NoLog
  BY <1>1, <1>2, SMTT(30) DEF Ahead, LogsIn
<1>7. AheadKnown' /\ CurrentFirst'
  BY <1>1, <1>4, <1>6 DEF QueryInv, AheadKnown, CurrentFirst
<1> QED BY <1>5, <1>7 DEF QueryInv

LEMMA ChainGrows ==
    ASSUME IInv, MineBlock(Traffic)
    PROVE  /\ Len(chain') = Len(chain) + 1
           /\ \A k \in 1..Len(chain) : chain'[k] = chain[k]
  BY DEF MineBlock, NewBlock, IInv, TypeOK

LEMMA MineBlockQueryInv == IInv /\ QueryInv /\ MineBlock(Traffic) => QueryInv'
<1> SUFFICES ASSUME IInv, QueryInv, MineBlock(Traffic) PROVE QueryInv'
  OBVIOUS
<1> USE NumbersTyped
<1>1. /\ Cursor' = Cursor /\ phase' = phase /\ logs' = logs
      /\ latest' = latest /\ fromBlock' = fromBlock /\ current' = current
  BY DEF MineBlock, process, Cursor
<1>2. Reach' = Reach /\ Reach \in Int /\ Reach <= Len(chain)
  BY <1>1 DEF Reach, ChunkEnd, Least, QueryInv, QueryKnown
<1>3. ASSUME current # NoLog PROVE OnChain(current)'
  <2>1. OnChain(current) /\ current[1] \in 1..Len(chain)
    BY <1>3 DEF QueryInv, QueryKnown, OnChain, LogIds
  <2>2. Len(chain) <= Len(chain') /\ chain'[current[1]] = chain[current[1]]
    BY <2>1, ChainGrows
  <2> QED BY <1>1, <2>1, <2>2 DEF OnChain
<1>4. QueryKnown'
  <2>1. latest <= Len(chain) => latest <= Len(chain')
    BY ChainGrows
  <2>2. Reach <= Len(chain')
    BY <1>2, ChainGrows
  <2> QED BY <1>1, <1>2, <1>3, <2>1, <2>2 DEF QueryKnown, QueryInv
<1>5. \A id \in Ahead' : id \in LogIds /\ (id \in Ahead \/ id[1] = Len(chain) + 1)
  <2> SUFFICES ASSUME NEW id \in Ahead', id[1] # Len(chain) + 1
               PROVE  id \in LogIds /\ id \in Ahead
    BY DEF Ahead, LogsIn
  <2>1. /\ id \in LogIds /\ Cursor + 1 <= id[1] /\ StartBlock <= id[1]
        /\ id[1] <= Len(chain') /\ id[2] <= Len(chain'[id[1]].logs)
    BY <1>1 DEF Ahead, LogsIn
  <2>2. id[1] \in 1..Len(chain)
    BY <2>1, ChainGrows DEF LogIds
  <2> QED BY <2>1, <2>2, ChainGrows DEF Ahead, LogsIn
<1>6. AheadKnown'
  BY <1>1, <1>2, <1>5 DEF QueryInv, AheadKnown
<1>7. CurrentFirst'
  <2> SUFFICES ASSUME current \in Ahead', NEW other \in Ahead' PROVE NotAfter(current, other)
    BY <1>1 DEF CurrentFirst
  <2>1. current \in LogIds /\ current # NoLog
    BY <1>5
  <2>2. current[1] <= Len(chain)
    BY <1>2, <2>1 DEF QueryInv, QueryKnown
  <2>3. current \in Ahead
    BY <1>5, <2>1, <2>2
  <2> QED BY <1>5, <2>1, <2>2, <2>3 DEF QueryInv, CurrentFirst, NotAfter
<1> QED BY <1>4, <1>6, <1>7 DEF QueryInv

\* Each step keeps what is known of the query.
LEMMA StepQueryInv == IInv /\ QueryInv /\ [Next]_vars => QueryInv'
<1> SUFFICES ASSUME IInv, QueryInv, [Next]_vars PROVE QueryInv'
  OBVIOUS
<1>1. CASE UNCHANGED vars
  BY <1>1 DEF vars, process, QueryInv, QueryKnown, AheadKnown, CurrentFirst, OnChain,
              Reach, ChunkEnd, Least, Ahead, LogsIn, Cursor
<1> QED BY <1>1, StartQueryInv, QueryQueryInv, ChunkDoneQueryInv, FailQueryInv, PollDoneQueryInv,
           TakeLogQueryInv, WriteNextQueryInv, FinishLogQueryInv, MineBlockQueryInv, Zenon
        DEF Next, Work

-----------------------------------------------------------------------------
(* The rows of events *)

SameEvents(s, t) == t.event = s.event /\ t.byToken = s.byToken /\ t.byAddress = s.byAddress

LEMMA RecordPutEffect ==
    ASSUME NEW s \in Store, NEW put \in RecordPuts
    PROVE  SameEvents(s, After(s, put))
<1> USE DEF SameEvents, After, Store, RecordPuts, PutsOf
<1>1. put.table \notin {"event", "byToken", "byAddress"}
  OBVIOUS
<1> QED BY <1>1

LEMMA KeyPutEffect ==
    ASSUME NEW s \in Store, NEW id \in LogIds, NEW put \in KeyPuts(id)
    PROVE  /\ After(s, put).event = s.event
           /\ \A other \in LogIds \ {id} :
                /\ After(s, put).byToken[other] = s.byToken[other]
                /\ After(s, put).byAddress[other] = s.byAddress[other]
<1>1. put.row = id /\ put.table \in {"byToken", "byAddress"}
  BY DEF KeyPuts, PutsOf
<1>2. CASE put.table = "byToken"
  BY <1>1, <1>2 DEF After, Store
<1>3. CASE put.table = "byAddress"
  BY <1>1, <1>3 DEF After, Store
<1> QED BY <1>1, <1>2, <1>3

LEMMA EventPutEffect ==
    ASSUME NEW s \in Store, NEW id \in LogIds
    PROVE  LET t == After(s, Put("event", id, TRUE)) IN
           /\ t.event = [s.event EXCEPT ![id] = TRUE]
           /\ t.byToken = s.byToken /\ t.byAddress = s.byAddress
  BY DEF After, Put, Store

\* The first put of a log that waits for its row; of one that has it.
LEMMA NextPut ==
    ASSUME NEW id \in LogIds, NEW seq \in Seq(Puts), seq # <<>>, NEW p \in Nat, EventAt(id, p, seq)
    PROVE  \/ Head(seq) \in RecordPuts /\ EventAt(id, p - 1, Tail(seq)) /\ p - 1 \in Nat
           \/ /\ Head(seq) = Put("event", id, TRUE)
              /\ \A k \in 1..Len(Tail(seq)) : Tail(seq)[k] \in KeyPuts(id)
<1>1. /\ Head(seq) = seq[1] /\ Len(Tail(seq)) = Len(seq) - 1 /\ Len(seq) \in Nat
      /\ \A k \in 1..(Len(seq) - 1) : Tail(seq)[k] = seq[k + 1]
  OBVIOUS
<1>2. CASE p = 1
  <2>1. Head(seq) = Put("event", id, TRUE)
    BY <1>1, <1>2 DEF EventAt
  <2>2. ASSUME NEW k \in 1..Len(Tail(seq)) PROVE Tail(seq)[k] \in KeyPuts(id)
    <3>1. k + 1 \in (p + 1)..Len(seq) /\ Tail(seq)[k] = seq[k + 1]
      BY <1>1, <1>2
    <3> QED BY <3>1 DEF EventAt
  <2> QED BY <2>1, <2>2
<1>3. CASE p # 1
  <2>1. p \in 1..Len(seq) /\ p - 1 \in 1..(Len(seq) - 1)
    BY <1>1, <1>3 DEF EventAt
  <2>2. Head(seq) \in RecordPuts
    BY <1>1, <2>1 DEF EventAt
  <2>3. Tail(seq)[p - 1] = Put("event", id, TRUE)
    BY <1>1, <2>1 DEF EventAt
  <2>4. ASSUME NEW k \in 1..(p - 2) PROVE Tail(seq)[k] \in RecordPuts
    <3>1. k + 1 \in 1..(p - 1) /\ Tail(seq)[k] = seq[k + 1]
      BY <1>1, <2>1
    <3> QED BY <3>1 DEF EventAt
  <2>5. ASSUME NEW k \in p..(Len(seq) - 1) PROVE Tail(seq)[k] \in KeyPuts(id)
    <3>1. k + 1 \in (p + 1)..Len(seq) /\ Tail(seq)[k] = seq[k + 1]
      BY <1>1, <2>1
    <3> QED BY <3>1 DEF EventAt
  <2>6. EventAt(id, p - 1, Tail(seq))
    BY <1>1, <2>1, <2>3, <2>4, <2>5 DEF EventAt
  <2>7. p - 1 \in Nat
    BY <1>1, <2>1
  <2> QED BY <2>2, <2>6, <2>7, Zenon
<1> QED BY <1>2, <1>3

LEMMA KeysThenNoEvent ==
    ASSUME NEW id \in LogIds, NEW seq, \A k \in 1..Len(seq) : seq[k] \in KeyPuts(id)
    PROVE  ~ \E p \in Nat : EventAt(id, p, seq)
  BY DEF EventAt, KeyPuts, PutsOf, Put

\* What a put of the log in hand does: one record of many, the row of the event,
\* or a key of the event, whose row is there.
WritesRecord == EventToCome /\ EventToCome' /\ SameEvents(db, db')
WritesEvent ==
    /\ EventToCome /\ ~EventToCome' /\ KeysToCome'
    /\ db'.event = [db.event EXCEPT ![current] = TRUE]
    /\ db'.byToken = db.byToken /\ db'.byAddress = db.byAddress
WritesKey ==
    /\ ~EventToCome /\ ~EventToCome' /\ KeysToCome'
    /\ db.event[current] /\ db'.event = db.event
    /\ \A other \in LogIds \ {current} :
         db'.byToken[other] = db.byToken[other] /\ db'.byAddress[other] = db.byAddress[other]

LEMMA WriteNextEffect ==
    ASSUME IInv, PutsInOrder, WriteNext
    PROVE  WritesRecord \/ WritesEvent \/ WritesKey
<1>1. /\ current \in LogIds /\ puts \in Seq(Puts) /\ puts # <<>> /\ db \in Store
      /\ current' = current /\ chain' = chain
      /\ puts' = Tail(puts) /\ db' = After(db, Head(puts))
  BY DEF WriteNext, IInv, TypeOK
<1>2. CASE EventToCome
  <2>1. PICK p \in Nat : EventAt(current, p, puts)
    BY <1>2 DEF EventToCome
  <2>2. CASE Head(puts) \in RecordPuts /\ EventAt(current, p - 1, Tail(puts)) /\ p - 1 \in Nat
    <3>1. SameEvents(db, db')
      BY <1>1, <2>2, RecordPutEffect
    <3>2. EventToCome'
      BY <1>1, <2>2 DEF EventToCome
    <3> QED BY <1>2, <3>1, <3>2 DEF WritesRecord
  <2>3. CASE /\ Head(puts) = Put("event", current, TRUE)
             /\ \A k \in 1..Len(Tail(puts)) : Tail(puts)[k] \in KeyPuts(current)
    <3>1. /\ db'.event = [db.event EXCEPT ![current] = TRUE]
          /\ db'.byToken = db.byToken /\ db'.byAddress = db.byAddress
      <4> DEFINE t == After(db, Put("event", current, TRUE))
      <4>1. db' = t
        BY <1>1, <2>3
      <4>2. /\ t.event = [db.event EXCEPT ![current] = TRUE]
            /\ t.byToken = db.byToken /\ t.byAddress = db.byAddress
        BY <1>1, EventPutEffect
      <4> HIDE DEF t
      <4> QED BY <4>1, <4>2
    <3>2. db'.event[current]
      BY <1>1, <3>1 DEF Store
    <3>3. ~EventToCome'
      BY <1>1, <2>3, KeysThenNoEvent DEF EventToCome
    <3>4. KeysToCome'
      BY <1>1, <2>3, <3>2 DEF KeysToCome
    <3> QED BY <1>2, <3>1, <3>3, <3>4 DEF WritesEvent
  <2> QED BY <1>1, <2>1, <2>2, <2>3, NextPut
<1>3. CASE ~EventToCome
  <2>1. /\ \A k \in 1..Len(puts) : puts[k] \in KeyPuts(current)
        /\ db.event[current]
    BY <1>1, <1>3 DEF PutsInOrder, KeysToCome, WriteNext
  <2>2. /\ Head(puts) \in KeyPuts(current)
        /\ \A k \in 1..Len(Tail(puts)) : Tail(puts)[k] \in KeyPuts(current)
    <3>1. /\ 1 \in 1..Len(puts) /\ Head(puts) = puts[1]
          /\ \A k \in 1..Len(Tail(puts)) : k + 1 \in 1..Len(puts) /\ Tail(puts)[k] = puts[k + 1]
      BY <1>1
    <3> QED BY <2>1, <3>1
  <2>3. /\ db'.event = db.event
        /\ \A other \in LogIds \ {current} :
             /\ db'.byToken[other] = db.byToken[other]
             /\ db'.byAddress[other] = db.byAddress[other]
    BY <1>1, <2>2, KeyPutEffect
  <2>4. ~EventToCome'
    BY <1>1, <2>2, KeysThenNoEvent DEF EventToCome
  <2>5. KeysToCome'
    BY <1>1, <2>1, <2>2, <2>3 DEF KeysToCome
  <2> QED BY <1>3, <2>1, <2>3, <2>4, <2>5 DEF WritesKey
<1> QED BY <1>2, <1>3

\* The log in hand is dropped, or it is taken, or written, or nothing of it changes.
LEMMA InHand ==
    ASSUME IInv, [Next]_vars
    PROVE  \/ current' = NoLog
           \/ TakeLog \/ WriteNext \/ MineBlock(Traffic)
           \/ UNCHANGED vars
<1>1. CASE Start \/ FetchChunk \/ ChunkDone \/ Poll \/ PollDone
  BY <1>1 DEF Start, FetchChunk, ChunkDone, Poll, PollDone, IInv, EndAhead
<1>2. CASE Fail
  BY <1>2 DEF Fail, StartFails, FetchChunkFails, PollFails, Crash, process, IInv, EndAhead
<1>3. CASE FinishLog
  BY <1>3 DEF FinishLog
<1> QED BY <1>1, <1>2, <1>3, Zenon DEF Next, Work

\* A handler begins with its event to come, or has nothing to write.
LEMMA TakeLogPuts == IInv /\ TakeLog => PutsInOrder'
<1> SUFFICES ASSUME IInv, TakeLog PROVE PutsInOrder'
  OBVIOUS
<1>1. PICK id \in logs, named \in BOOLEAN :
        current' = id /\ puts' = HandlerPuts(db, LogAt(id), id, named)
  BY DEF TakeLog
<1>2. id \in LogIds /\ db \in Store /\ LogAt(id) \in Log
  BY LogOnChain DEF IInv, LogsOnChain, TypeOK
<1>3. chain' = chain
  BY DEF TakeLog
<1>4. CASE RecordsEvent(id, puts')
  BY <1>1, <1>4 DEF RecordsEvent, PutsInOrder, EventToCome
<1>5. CASE puts' = <<>> /\ ~LeavesEvent(LogAt(id))
  <2>1. LogAt(current)' = LogAt(id)
    BY <1>1, <1>3 DEF LogAt
  <2>2. KeysToCome'
    BY <1>5, <2>1 DEF KeysToCome
  <2> QED BY <2>2 DEF PutsInOrder
<1> QED BY <1>1, <1>2, <1>4, <1>5, HandlerPutsTyped

LEMMA StepPutsInOrder == IInv /\ QueryInv /\ PutsInOrder /\ [Next]_vars => PutsInOrder'
<1> SUFFICES ASSUME IInv, QueryInv, PutsInOrder, [Next]_vars PROVE PutsInOrder'
  OBVIOUS
<1>1. CASE current' = NoLog
  BY <1>1 DEF PutsInOrder
<1>2. CASE WriteNext
  BY <1>2, WriteNextEffect DEF WritesRecord, WritesEvent, WritesKey, PutsInOrder
<1>3. CASE MineBlock(Traffic) /\ current # NoLog
  <2>1. current' = current /\ puts' = puts /\ db' = db
    BY <1>3 DEF MineBlock, process
  <2>2. current[1] \in 1..Len(chain)
    BY <1>3 DEF QueryInv, QueryKnown, OnChain, IInv, TypeOK, LogIds
  <2>3. LogAt(current)' = LogAt(current)
    BY <1>3, <2>1, <2>2, ChainGrows DEF LogAt
  <2> QED BY <1>3, <2>1, <2>3 DEF PutsInOrder, EventToCome, KeysToCome
<1>4. CASE MineBlock(Traffic) /\ current = NoLog
  BY <1>4 DEF MineBlock, process, PutsInOrder
<1>5. CASE UNCHANGED vars
  BY <1>5 DEF vars, process, PutsInOrder, EventToCome, KeysToCome, LogAt
<1> QED BY <1>1, <1>2, <1>3, <1>4, <1>5, InHand, TakeLogPuts

\* Only the puts of a handler write rows of events.
LEMMA OnlyWriteNext ==
    ASSUME IInv, [Next]_vars
    PROVE  WriteNext \/ SameEvents(db, db')
<1> USE DEF SameEvents
<1>1. db \in Store
  BY DEF IInv, TypeOK
<1>2. ASSUME db' \in {db, Enriched} PROVE SameEvents(db, db')
  BY <1>1, <1>2 DEF Enriched, PutAsset, After, Put, Store
<1>3. ASSUME NEW block \in Nat, SetCursor(block) PROVE SameEvents(db, db')
  BY <1>1, <1>3 DEF SetCursor, After, Put, Store
<1>4. CASE Start \/ StartFails
  BY <1>2, <1>4 DEF Start, StartFails
<1>5. CASE PollDone \/ FinishLog
  <2>1. latest \in Nat /\ (FinishLog => current[1] \in Nat)
    BY NumbersTyped DEF FinishLog
  <2> QED BY <1>3, <1>5, <2>1 DEF PollDone, FinishLog
<1>6. CASE FetchChunk \/ ChunkDone \/ Poll \/ TakeLog
  BY <1>6 DEF FetchChunk, ChunkDone, Poll, TakeLog
<1>7. CASE FetchChunkFails \/ PollFails \/ Crash \/ MineBlock(Traffic)
  BY <1>7 DEF FetchChunkFails, PollFails, Crash, MineBlock
<1>8. CASE UNCHANGED vars
  BY <1>8 DEF vars
<1> QED BY <1>4, <1>5, <1>6, <1>7, <1>8, Zenon DEF Next, Work, Fail

-----------------------------------------------------------------------------
(* After any number of kills *)

RowsInv == EventsOnChain /\ EventIndexResolves /\ AtMostOneLogAhead

\* What lies ahead stays ahead until the cursor passes it; only a new block adds.
LEMMA AheadAfter ==
    ASSUME IInv, [Next]_vars, NEW id \in Ahead'
    PROVE  /\ id \in LogIds
           /\ id \in Ahead \/ (id[1] = Len(chain) + 1 /\ MineBlock(Traffic))
<1> USE NumbersTyped
<1>1. /\ id \in LogIds /\ Cursor' + 1 <= id[1] /\ StartBlock <= id[1]
      /\ id[1] <= Len(chain') /\ id[2] <= Len(chain'[id[1]].logs)
  BY DEF Ahead, LogsIn
<1>2. Cursor' \in Nat /\ Cursor <= Cursor'
  BY StepIInv DEF IInv, TypeOK, Store, Cursor
<1>3. CASE MineBlock(Traffic) /\ id[1] # Len(chain) + 1
  <2>1. id[1] \in 1..Len(chain)
    BY <1>1, <1>3, ChainGrows DEF LogIds
  <2> QED BY <1>1, <1>2, <1>3, <2>1, ChainGrows, SMTT(30) DEF Ahead, LogsIn
<1>4. CASE ~MineBlock(Traffic)
  <2>1. chain' = chain
    BY <1>4 DEF Next, Work, Fail, Start, FetchChunk, ChunkDone, Poll, PollDone, TakeLog,
                WriteNext, FinishLog, StartFails, FetchChunkFails, PollFails, Crash, vars
  <2> QED BY <1>1, <1>2, <2>1 DEF Ahead, LogsIn
<1> QED BY <1>1, <1>3, <1>4

\* A log that was on the chain stays there.
LEMMA OnChainStays ==
    ASSUME IInv, [Next]_vars, NEW id \in LogIds, OnChain(id)
    PROVE  OnChain(id)' /\ LogAt(id)' = LogAt(id)
<1>1. CASE MineBlock(Traffic)
  <2>1. id[1] \in 1..Len(chain)
    BY DEF OnChain, LogIds
  <2> QED BY <1>1, <2>1, ChainGrows, NumbersTyped DEF OnChain, LogAt
<1>2. CASE ~MineBlock(Traffic)
  <2>1. chain' = chain
    BY <1>2 DEF Next, Work, Fail, Start, FetchChunk, ChunkDone, Poll, PollDone, TakeLog,
                WriteNext, FinishLog, StartFails, FetchChunkFails, PollFails, Crash, vars
  <2> QED BY <2>1 DEF OnChain, LogAt
<1> QED BY <1>1, <1>2

LEMMA StepRowsInv ==
    IInv /\ QueryInv /\ PutsInOrder /\ RowsInv /\ [Next]_vars => RowsInv'
<1> SUFFICES ASSUME IInv, QueryInv, PutsInOrder, RowsInv, [Next]_vars PROVE RowsInv'
  OBVIOUS
<1> USE NumbersTyped
<1>1. db \in Store /\ db' \in Store
  BY StepIInv DEF IInv, TypeOK
<1>2. WriteNext => /\ current \in LogIds /\ OnChain(current)
                   /\ WritesRecord \/ WritesEvent \/ WritesKey
  BY WriteNextEffect DEF WriteNext, QueryInv, QueryKnown
\* A row that is new is that of the log in hand.
<1>3. ASSUME NEW id \in LogIds, db'.event[id]
      PROVE  db.event[id] \/ (WriteNext /\ id = current)
  <2>1. CASE WriteNext
    BY <1>1, <1>2, <1>3, <2>1 DEF WritesRecord, WritesEvent, WritesKey, SameEvents, Store
  <2>2. CASE SameEvents(db, db')
    BY <1>3, <2>2 DEF SameEvents
  <2> QED BY <2>1, <2>2, OnlyWriteNext
<1>4. EventsOnChain'
  <2> SUFFICES ASSUME NEW id \in LogIds, db'.event[id] PROVE OnChain(id)'
    BY DEF EventsOnChain
  <2>1. OnChain(id)
    BY <1>2, <1>3 DEF RowsInv, EventsOnChain
  <2> QED BY <2>1, OnChainStays
<1>5. EventIndexResolves'
  <2> SUFFICES ASSUME NEW id \in LogIds, db'.byToken[id] \/ db'.byAddress[id] # NoOne
               PROVE  db'.event[id]
    BY DEF EventIndexResolves
  <2>1. CASE SameEvents(db, db')
    BY <2>1 DEF SameEvents, RowsInv, EventIndexResolves
  <2>2. CASE WritesEvent
    BY <1>1, <2>2 DEF WritesEvent, RowsInv, EventIndexResolves, Store
  <2>3. CASE WritesKey
    BY <1>1, <2>3 DEF WritesKey, RowsInv, EventIndexResolves
  <2> QED BY <1>2, <2>1, <2>2, <2>3, OnlyWriteNext DEF WritesRecord
<1>6. AtMostOneLogAhead'
  <2> SUFFICES ASSUME NEW id \in Ahead', NEW other \in Ahead', db'.event[id]
               PROVE  NotAfter(id, other)
    BY DEF AtMostOneLogAhead
  <2>1. id \in LogIds /\ other \in LogIds
    BY AheadAfter
  <2>2. OnChain(id) /\ id \in Ahead
    <3>1. OnChain(id)
      BY <1>2, <1>3, <2>1 DEF RowsInv, EventsOnChain
    <3> QED BY <2>1, <3>1, AheadAfter DEF OnChain
  <2>3. CASE other[1] = Len(chain) + 1
    BY <2>1, <2>2, <2>3 DEF NotAfter, OnChain
  <2>4. CASE other \in Ahead
    <3>1. CASE db.event[id]
      BY <2>2, <2>4, <3>1 DEF RowsInv, AtMostOneLogAhead
    <3>2. CASE id = current
      BY <2>2, <2>4, <3>2 DEF QueryInv, CurrentFirst
    <3> QED BY <1>3, <2>1, <3>1, <3>2
  <2> QED BY <2>3, <2>4, AheadAfter
<1> QED BY <1>4, <1>5, <1>6 DEF RowsInv

LEMMA InitRowsInv == Init => PutsInOrder /\ RowsInv
  BY DEF Init, StoreInit, EmptyStore, PutsInOrder, RowsInv, EventsOnChain, EventIndexResolves,
         AtMostOneLogAhead, Ahead, LogsIn, LogIds

-----------------------------------------------------------------------------
(* Without a kill in the middle of a query *)

Handled(id) == id[1] <= Reach /\ id \notin logs /\ ~(id = current /\ EventToCome)

\* A log that can leave a row, on the chain and not before the start block.
Due(id) == StartBlock <= id[1] /\ OnChain(id) /\ LeavesEvent(LogAt(id))

\* The rows are those of the logs that were handled.
Progress == \A id \in LogIds : Due(id) => (db.event[id] <=> Handled(id))

\* Between two queries all that was queried is handled, and the cursor knows it.
LEMMA AtRest ==
    ASSUME IInv, QueryInv, logs = {}, current = NoLog, NEW id \in LogIds, Due(id)
    PROVE  (Handled(id) <=> id[1] <= Reach) /\ (id[1] <= Reach <=> id[1] <= Cursor)
<1> USE NumbersTyped
<1>1. Reach \in Int
  BY DEF Reach, ChunkEnd, Least
<1>2. id[1] > Cursor => id \in Ahead
  BY DEF Due, OnChain, Ahead, LogsIn
<1> QED BY <1>1, <1>2 DEF Handled, QueryInv, QueryKnown, AheadKnown

\* The same when the query has been given up or the process has been killed.
LEMMA RestHandled ==
    ASSUME IInv, QueryInv, logs = {}, current = NoLog, NEW id \in LogIds, Due(id),
           Cursor' = Cursor, logs' = {}, current' = NoLog, phase' \in {"idle", "down"}
    PROVE  Handled(id)' <=> Handled(id)
<1>1. Reach' = Cursor
  BY DEF Reach
<1>2. Handled(id)' <=> id[1] <= Cursor
  BY <1>1, NumbersTyped DEF Handled
<1> QED BY <1>2, AtRest

LEMMA StartHandled ==
    ASSUME IInv, QueryInv, Start, NEW id \in LogIds, Due(id)
    PROVE  Handled(id)' <=> Handled(id)
<1> USE NumbersTyped
<1>1. /\ Cursor' = Cursor /\ logs = {} /\ current = NoLog
      /\ logs' = {} /\ current' = NoLog /\ phase = "down"
  BY EnrichmentKeepsStore DEF Start, IInv, TypeOK, EndAhead
<1>2. CASE phase' = "idle"
  BY <1>1, <1>2, RestHandled
<1>3. CASE phase' = "backfill"
  <2>1. Reach' = BackfillFrom - 1 /\ BackfillFrom # 0
    BY <1>3 DEF Start, Reach
  <2>2. \/ BackfillFrom = Cursor + 1
        \/ BackfillFrom = StartBlock /\ Cursor < StartBlock
    BY <2>1 DEF BackfillFrom
  <2>3. Reach = Cursor
    BY <1>1 DEF Reach
  <2>4. StartBlock <= id[1]
    BY DEF Due
  <2> QED BY <1>1, <2>1, <2>2, <2>3, <2>4 DEF Handled
<1> QED BY <1>2, <1>3 DEF Start

LEMMA QueryHandled ==
    ASSUME IInv, QueryInv, FetchChunk \/ Poll, NEW id \in LogIds, Due(id)
    PROVE  Handled(id)' <=> Handled(id)
<1> USE NumbersTyped
<1>1. /\ logs = {} /\ current = NoLog /\ current' = NoLog
      /\ Reach \in Int /\ Reach' \in Int /\ Reach <= Reach'
      /\ logs' = LogsIn(Reach + 1, Reach')
  BY SMTT(30) DEF FetchChunk, Poll, PollFrom, Cursor, Reach, ChunkEnd, Least, IInv, EndAhead,
         QueryInv, QueryKnown
<1>2. id \in logs' <=> (Reach + 1 <= id[1] /\ id[1] <= Reach')
  BY <1>1 DEF LogsIn, Due, OnChain
<1> QED BY <1>1, <1>2 DEF Handled

LEMMA EndHandled ==
    ASSUME IInv, QueryInv, ChunkDone \/ PollDone, NEW id \in LogIds, Due(id)
    PROVE  Handled(id)' <=> Handled(id)
<1> USE NumbersTyped
<1>1. logs = {} /\ current = NoLog /\ logs' = {} /\ current' = NoLog
  BY DEF ChunkDone, PollDone
<1>2. CASE ChunkDone /\ phase' = "idle"
  BY <1>1, <1>2, RestHandled DEF ChunkDone, Cursor
<1>3. CASE ChunkDone /\ phase' # "idle"
  <2>1. Reach' = Reach
    BY <1>3 DEF ChunkDone, Reach, ChunkEnd, Least
  <2> QED BY <1>1, <2>1 DEF Handled
<1>4. CASE PollDone
  <2>1. Cursor' = latest
    BY <1>4, CursorPut DEF PollDone, SetCursor, IInv, TypeOK, Cursor
  <2>2. Reach' = latest /\ Reach = latest
    BY <1>4, <2>1 DEF PollDone, Reach
  <2> QED BY <1>1, <2>2 DEF Handled
<1> QED BY <1>2, <1>3, <1>4

LEMMA FailHandled ==
    ASSUME IInv, QueryInv, Fail, Crash => Resting, NEW id \in LogIds, Due(id)
    PROVE  Handled(id)' <=> Handled(id)
<1>1. CASE StartFails
  BY <1>1, RestHandled, EnrichmentKeepsStore DEF StartFails, IInv, TypeOK, EndAhead
<1>2. CASE FetchChunkFails
  <2>1. /\ Cursor' = Cursor /\ logs' = {} /\ current' = NoLog /\ logs = {} /\ current = NoLog
    BY <1>2 DEF FetchChunkFails, Cursor, IInv, EndAhead
  <2>2. CASE phase' = "idle"
    BY <2>1, <2>2, RestHandled
  <2>3. CASE phase' = phase
    <3>1. Reach' = Reach
      BY <1>2, <2>1, <2>3 DEF FetchChunkFails, Reach, ChunkEnd, Least
    <3> QED BY <2>1, <3>1, NumbersTyped DEF Handled
  <2> QED BY <1>2, <2>2, <2>3 DEF FetchChunkFails
<1>3. CASE PollFails
  BY <1>3, RestHandled DEF PollFails, process, Cursor, IInv, EndAhead
<1>4. CASE Crash
  BY <1>4, RestHandled DEF Crash, Resting, Cursor, IInv, EndAhead
<1> QED BY <1>1, <1>2, <1>3, <1>4 DEF Fail

LEMMA TakeLogHandled ==
    ASSUME IInv, QueryInv, TakeLog, NEW id \in LogIds, Due(id)
    PROVE  Handled(id)' <=> Handled(id)
<1> USE NumbersTyped
<1>1. PICK next \in logs, named \in BOOLEAN :
        /\ current' = next
        /\ puts' = HandlerPuts(db, LogAt(next), next, named)
        /\ logs' = logs \ {next}
  BY DEF TakeLog
<1>2. Reach' = Reach /\ current = NoLog
  BY DEF TakeLog, Reach, ChunkEnd, Least, Cursor
<1>3. CASE id # next
  BY <1>1, <1>2, <1>3 DEF Handled
<1>4. CASE id = next
  <2>1. db \in Store /\ LogAt(id) \in Log /\ LeavesEvent(LogAt(id))
    BY <1>4, LogOnChain DEF Due, IInv, LogsOnChain, TypeOK
  <2>2. RecordsEvent(id, puts')
    BY <1>1, <1>4, <2>1, HandlerPutsTyped
  <2>3. EventToCome'
    BY <1>1, <1>4, <2>2 DEF RecordsEvent, EventToCome
  <2> QED BY <1>1, <1>4, <2>3 DEF Handled
<1> QED BY <1>3, <1>4

LEMMA LogHandled ==
    ASSUME IInv, QueryInv, FinishLog \/ MineBlock(Traffic) \/ UNCHANGED vars,
           NEW id \in LogIds, Due(id)
    PROVE  Handled(id)' <=> Handled(id)
<1> USE NumbersTyped
<1>1. CASE FinishLog
  <2>1. /\ current # NoLog /\ current' = NoLog /\ logs' = logs /\ phase' = phase
        /\ fromBlock' = fromBlock /\ latest' = latest
    BY <1>1 DEF FinishLog
  <2>2. phase \in {"chunk", "poll"}
    BY <2>1 DEF IInv, EndAhead, TypeOK, Phases
  <2>3. Reach' = Reach
    BY <2>1, <2>2 DEF Reach, ChunkEnd, Least
  <2>4. ~EventToCome
    <3>1. Len(puts) = 0
      BY <1>1 DEF FinishLog
    <3>2. \A p \in Nat : p \notin 1..Len(puts)
      BY <3>1
    <3> QED BY <3>2, Zenon DEF EventToCome, EventAt
  <2> QED BY <2>1, <2>3, <2>4 DEF Handled
<1>2. CASE MineBlock(Traffic)
  BY <1>2 DEF MineBlock, process, Handled, EventToCome, Reach, ChunkEnd, Least, Cursor
<1>3. CASE UNCHANGED vars
  BY <1>3 DEF vars, process, Handled, EventToCome, Reach, ChunkEnd, Least, Cursor
<1> QED BY <1>1, <1>2, <1>3

\* No step but a put changes which logs are handled.
LEMMA HandledStays ==
    ASSUME IInv, QueryInv, [Next]_vars, Crash => Resting, ~WriteNext, NEW id \in LogIds, Due(id)
    PROVE  Handled(id)' <=> Handled(id)
<1>1. \/ Start \/ (FetchChunk \/ Poll) \/ (ChunkDone \/ PollDone) \/ Fail \/ TakeLog
      \/ (FinishLog \/ MineBlock(Traffic) \/ UNCHANGED vars)
  BY Zenon DEF Next, Work
<1> QED BY <1>1, StartHandled, QueryHandled, EndHandled, FailHandled, TakeLogHandled, LogHandled

\* A log of a new block is neither recorded nor handled.
LEMMA NewLogAhead ==
    ASSUME IInv, QueryInv, RowsInv, [Next]_vars, Crash => Resting,
           NEW id \in LogIds, OnChain(id)', ~OnChain(id)
    PROVE  ~db'.event[id] /\ ~Handled(id)'
<1> USE NumbersTyped
<1>1. MineBlock(Traffic)
  <2> SUFFICES ASSUME ~MineBlock(Traffic) PROVE FALSE
    OBVIOUS
  <2>1. chain' = chain
    BY DEF Next, Work, Fail, Start, FetchChunk, ChunkDone, Poll, PollDone, TakeLog,
           WriteNext, FinishLog, StartFails, FetchChunkFails, PollFails, Crash, vars
  <2> QED BY <2>1 DEF OnChain
<1>2. id[1] = Len(chain) + 1
  <2> SUFFICES ASSUME id[1] <= Len(chain) PROVE FALSE
    BY <1>1, ChainGrows DEF OnChain
  <2>1. id[1] \in 1..Len(chain)
    BY DEF LogIds
  <2> QED BY <1>1, <2>1, ChainGrows DEF OnChain
<1>3. db' = db /\ Reach' = Reach /\ Reach <= Len(chain) /\ Reach \in Int
  BY <1>1 DEF MineBlock, process, Reach, ChunkEnd, Least, Cursor, QueryInv, QueryKnown
<1> QED BY <1>2, <1>3 DEF RowsInv, EventsOnChain, Handled

LEMMA StepProgress ==
    IInv /\ QueryInv /\ PutsInOrder /\ RowsInv /\ Progress /\ [Next]_vars /\ (Crash => Resting)
      => Progress'
<1> SUFFICES ASSUME IInv, QueryInv, PutsInOrder, RowsInv, Progress, [Next]_vars, Crash => Resting,
                    NEW id \in LogIds, Due(id)'
             PROVE  db'.event[id] <=> Handled(id)'
  BY DEF Progress
<1>1. CASE ~OnChain(id)
  BY <1>1, NewLogAhead DEF Due
<1>2. CASE OnChain(id)
  <2>1. Due(id)
    BY <1>2, OnChainStays DEF Due
  <2>2. db.event[id] <=> Handled(id)
    BY <2>1 DEF Progress
  <2>3. CASE ~WriteNext
    BY <2>1, <2>2, <2>3, OnlyWriteNext, HandledStays DEF SameEvents
  <2>4. CASE WriteNext
    <3>1. /\ Reach' = Reach /\ logs' = logs /\ current' = current
          /\ current # NoLog /\ current \in LogIds /\ db \in Store
      BY <2>4, WriteNextIInv, NumbersTyped
         DEF WriteNext, Reach, ChunkEnd, Least, IInv, TypeOK
    <3>2. CASE WritesRecord
      BY <2>2, <3>1, <3>2 DEF WritesRecord, SameEvents, Handled
    <3>3. CASE WritesEvent
      <4>1. CASE id = current
        BY <3>1, <3>3, <4>1 DEF WritesEvent, Handled, QueryInv, QueryKnown, Store
      <4>2. CASE id # current
        BY <2>2, <3>1, <3>3, <4>2 DEF WritesEvent, Handled, Store
      <4> QED BY <4>1, <4>2
    <3>4. CASE WritesKey
      BY <2>2, <3>1, <3>4 DEF WritesKey, Handled
    <3> QED BY <2>4, <3>2, <3>3, <3>4, WriteNextEffect
  <2> QED BY <2>3, <2>4
<1> QED BY <1>1, <1>2

LEMMA InitProgress == Init => Progress
  BY DEF Init, Progress, Due, OnChain, LogIds

LEMMA ProgressIndexes == IInv /\ QueryInv /\ Progress => CursorBlocksAreIndexed
<1> SUFFICES ASSUME IInv, QueryInv, Progress, Resting,
                    NEW id \in LogsIn(StartBlock, Len(chain)), LeavesEvent(LogAt(id))
             PROVE  db.event[id] <=> id[1] <= Cursor
  BY DEF CursorBlocksAreIndexed
<1>1. id \in LogIds /\ Due(id)
  BY DEF LogsIn, Due, OnChain
<1>2. logs = {} /\ current = NoLog
  BY DEF Resting, IInv, EndAhead
<1> QED BY <1>1, <1>2, AtRest DEF Progress

-----------------------------------------------------------------------------
(* The theorems *)

\* The database and the process stay in their types, whatever logs the chain
\* holds and wherever the process is killed: every put of every handler writes
\* a row of its table, and every log in hand is one the chain holds.
THEOREM TypeCorrect == Spec => []TypeOK
<1>1. IInv => TypeOK
  BY DEF IInv
<1> QED BY <1>1, InitIInv, StepIInv, PTL DEF Spec

\* No call of SetCursor, in a backfill, in a poll or after a restart, takes the
\* cursor back, so a block once passed is not asked for again.
THEOREM CursorMonotone == Spec => CursorNeverGoesBack
<1>1. IInv /\ [Next]_vars => [db'.cursor[OnlyRow] >= Cursor]_vars
  BY StepIInv DEF Cursor
<1> QED BY <1>1, InitIInv, StepIInv, PTL DEF Spec, CursorNeverGoesBack

\* What the database holds after any number of kills, between any two puts.
LEMMA RowsKnown == Spec => [](IInv /\ QueryInv /\ PutsInOrder /\ RowsInv)
<1>1. Init => IInv /\ QueryInv /\ PutsInOrder /\ RowsInv
  BY InitIInv, InitQueryInv, InitRowsInv
<1>2. IInv /\ QueryInv /\ PutsInOrder /\ RowsInv /\ [Next]_vars
        => IInv' /\ QueryInv' /\ PutsInOrder' /\ RowsInv'
  BY StepIInv, StepQueryInv, StepPutsInOrder, StepRowsInv
<1> QED BY <1>1, <1>2, PTL DEF Spec

\* putGenericEvent writes the row before its keys and every handler writes its
\* records first, so no key of an index ever leads to an event that is missing,
\* wherever among the puts the process is killed.
THEOREM IndexAlwaysResolves == Spec => []EventIndexResolves
<1>1. RowsInv => EventIndexResolves
  BY DEF RowsInv
<1> QED BY <1>1, RowsKnown, PTL

\* A kill leaves at most the log in hand recorded beyond the cursor, however
\* often it happens: a restart handles no other log a second time.
THEOREM OneLogAheadAtMost == Spec => []AtMostOneLogAhead
<1>1. RowsInv => AtMostOneLogAhead
  BY DEF RowsInv
<1> QED BY <1>1, RowsKnown, PTL

\* Between two ticks the rows of events are exactly those of the logs from the
\* start block up to the cursor, when the process is killed at no other time:
\* through chunks, polls, failed calls, given-up backfills and blocks that are
\* mined while it works.
THEOREM CursorTellsTheRows ==
    Spec /\ [][Crash => Resting]_vars => []CursorBlocksAreIndexed
<1> DEFINE Inv == IInv /\ QueryInv /\ PutsInOrder /\ RowsInv /\ Progress
<1>1. Init => Inv
  BY InitIInv, InitQueryInv, InitRowsInv, InitProgress
<1>2. Inv /\ [Next]_vars /\ [Crash => Resting]_vars => Inv'
  <2> SUFFICES ASSUME Inv, [Next]_vars, [Crash => Resting]_vars PROVE Inv'
    OBVIOUS
  <2>1. Crash => Resting
    <3> SUFFICES ASSUME Crash PROVE vars' # vars
      OBVIOUS
    <3> QED BY IndexerAssumption DEF Crash, vars, Inv, IInv, TypeOK
  <2> QED BY <2>1, StepIInv, StepQueryInv, StepPutsInOrder, StepRowsInv, StepProgress
<1>3. Inv => CursorBlocksAreIndexed
  BY ProgressIndexes
<1> HIDE DEF Inv
<1> QED BY <1>1, <1>2, <1>3, PTL DEF Spec
=============================================================================
