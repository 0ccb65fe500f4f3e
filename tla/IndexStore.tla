----------------------------- MODULE IndexStore -----------------------------
(* The indexer's database: RocksDB tables for one tokenId, and the puts by  *)
(* which each log is recorded.  A put is atomic, the puts of a log together *)
(* are not.  A row that is missing reads as zero, FALSE or NoOne.           *)
EXTENDS EventChain, Integers, FiniteSets, Functions

CONSTANT
    CountModulus    \* bound: HolderCount wraps here (2^64 in the code)

ASSUME CountAssumption == CountModulus \in Nat \ {0, 1}

LogIds == (1..MaxBlocks) \X (1..MaxLogs)
OnlyRow == "row"

TokenMeta == [supply : Int, holderCount : 0..(CountModulus - 1)]
FreezeState == [frozen : BOOLEAN, frozenAmount : Nat, lockup : Nat]
AssetConfig == [known : BOOLEAN, named : BOOLEAN, paused : BOOLEAN, uri : Nat]
Identity == [identity : Identities \cup {NoOne}, country : Nat]

NotFrozen == [frozen |-> FALSE, frozenAmount |-> 0, lockup |-> 0]
NoAsset == [known |-> FALSE, named |-> FALSE, paused |-> FALSE, uri |-> 0]
NoIdentity == [identity |-> NoOne, country |-> 0]

\* holder is t:holder:{tokenId}:{address}, portfolio is h:addr:{address}:{tokenId};
\* walletFreeze is f:{wallet}:global, freeze is f:{wallet}:{tokenId}; byCountry has
\* the countries c for which there is a key i:country:{c}:{wallet}; event has a
\* log's e: or ge: row, byToken and byAddress its keys in the indexes of the latter.
Store ==
    [cursor    : [{OnlyRow} -> Nat],
     meta      : [{OnlyRow} -> TokenMeta],
     holder    : [Wallets -> Int],
     portfolio : [Wallets -> Int],
     event     : [LogIds -> BOOLEAN],
     byToken   : [LogIds -> BOOLEAN],
     byAddress : [LogIds -> Wallets \cup {NoOne}],
     asset     : [{OnlyRow} -> AssetConfig],
     walletFreeze : [Wallets -> BOOLEAN],
     freeze    : [Wallets -> FreezeState],
     identity  : [Wallets -> Identity],
     byCountry : [Wallets -> SUBSET Nat]]

EmptyStore ==
    [cursor    |-> [r \in {OnlyRow} |-> 0],
     meta      |-> [r \in {OnlyRow} |-> [supply |-> 0, holderCount |-> 0]],
     holder    |-> [w \in Wallets |-> 0],
     portfolio |-> [w \in Wallets |-> 0],
     event     |-> [id \in LogIds |-> FALSE],
     byToken   |-> [id \in LogIds |-> FALSE],
     byAddress |-> [id \in LogIds |-> NoOne],
     asset     |-> [r \in {OnlyRow} |-> NoAsset],
     walletFreeze |-> [w \in Wallets |-> FALSE],
     freeze    |-> [w \in Wallets |-> NotFrozen],
     identity  |-> [w \in Wallets |-> NoIdentity],
     byCountry |-> [w \in Wallets |-> {}]]

\* The puts a handler makes, of every table but the cursor's.
PutsOf(table, rows, values) == [table : {table}, row : rows, value : values]

Puts ==
    PutsOf("meta", {OnlyRow}, TokenMeta)
      \cup PutsOf("holder", Wallets, Int)
      \cup PutsOf("portfolio", Wallets, Int)
      \cup PutsOf("event", LogIds, BOOLEAN)
      \cup PutsOf("byToken", LogIds, BOOLEAN)
      \cup PutsOf("byAddress", LogIds, Wallets \cup {NoOne})
      \cup PutsOf("asset", {OnlyRow}, AssetConfig)
      \cup PutsOf("walletFreeze", Wallets, BOOLEAN)
      \cup PutsOf("freeze", Wallets, FreezeState)
      \cup PutsOf("identity", Wallets, Identity)
      \cup PutsOf("byCountry", Wallets, SUBSET Nat)

Put(table, row, value) == [table |-> table, row |-> row, value |-> value]
After(db, put) == [db EXCEPT ![put.table][put.row] = put.value]

-----------------------------------------------------------------------------
(* Store.Record*: the puts, in order, from what db holds when they begin *)

PutHolderBalance(w, balance) == <<Put("holder", w, balance), Put("portfolio", w, balance)>>

\* A balance of zero or less has its rows deleted.
PutOrDelete(w, balance) == PutHolderBalance(w, IF balance <= 0 THEN 0 ELSE balance)

Meta(db) == db.meta[OnlyRow]
PutMeta(supply, count) ==
    <<Put("meta", OnlyRow, [supply |-> supply, holderCount |-> count % CountModulus])>>

RecordMint(db, w, n) ==
    PutHolderBalance(w, db.holder[w] + n)
      \o PutMeta(Meta(db).supply + n,
                 Meta(db).holderCount + (IF db.holder[w] = 0 THEN 1 ELSE 0))

RecordBurn(db, w, n) ==
    PutOrDelete(w, db.holder[w] - n)
      \o PutMeta(Meta(db).supply - n,
                 Meta(db).holderCount - (IF db.holder[w] <= n THEN 1 ELSE 0))

\* Mutant: both balances are read before either is written.
RecordTransferReadsFirst(db, from, to, n) ==
    PutOrDelete(from, db.holder[from] - n) \o PutHolderBalance(to, db.holder[to] + n)
      \o PutMeta(Meta(db).supply,
                 Meta(db).holderCount - (IF db.holder[from] <= n THEN 1 ELSE 0)
                                      + (IF db.holder[to] = 0 THEN 1 ELSE 0))

\* The receiver's balance is read when the sender's has been written.
RecordTransfer(db, from, to, n) ==
    LET left == IF db.holder[from] <= n THEN 0 ELSE db.holder[from] - n
        before == IF to = from THEN left ELSE db.holder[to]
    IN PutHolderBalance(from, left) \o PutHolderBalance(to, before + n)
         \o PutMeta(Meta(db).supply,
                    Meta(db).holderCount - (IF left = 0 THEN 1 ELSE 0)
                                         + (IF before = 0 THEN 1 ELSE 0))

\* RecordFreeze writes the whole row: amount and lockup are not carried over.
RecordFreeze(w, frozen) ==
    <<Put("freeze", w, [NotFrozen EXCEPT !.frozen = frozen])>>

RecordWalletFreeze(w, frozen) == <<Put("walletFreeze", w, frozen)>>

\* Mutant: the row is not read first.
UpdateFreezeAmountAfresh(db, w, n) ==
    <<Put("freeze", w, [NotFrozen EXCEPT !.frozenAmount = n])>>

UpdateFreezeAmount(db, w, n) ==
    <<Put("freeze", w, [db.freeze[w] EXCEPT !.frozenAmount = n])>>

UpdateLockupExpiry(db, w, expiry) ==
    <<Put("freeze", w, [db.freeze[w] EXCEPT !.lockup = expiry])>>

Asset(db) == db.asset[OnlyRow]
PutAsset(asset) == <<Put("asset", OnlyRow, asset)>>

RecordAsset(named) == PutAsset([NoAsset EXCEPT !.known = TRUE, !.named = named])

\* A row that is missing is made.
UpdateAssetPaused(db, paused) ==
    PutAsset([Asset(db) EXCEPT !.known = TRUE, !.paused = paused])

\* Mutant: the row is not read first.
UpdateAssetURIAfresh(db, uri) == PutAsset([NoAsset EXCEPT !.known = TRUE, !.uri = uri])

UpdateAssetURI(db, uri) == PutAsset([Asset(db) EXCEPT !.known = TRUE, !.uri = uri])

\* The row of the country the wallet had before stays.
RecordIdentity(db, w, identity, c) ==
    <<Put("identity", w, [identity |-> identity, country |-> c]),
      Put("byCountry", w, db.byCountry[w] \cup {c})>>

IsBound(db, w) == db.identity[w].identity # NoOne

RemoveIdentity(db, w) ==
    (IF IsBound(db, w)
     THEN <<Put("byCountry", w, db.byCountry[w] \ {db.identity[w].country})>>
     ELSE <<>>)
      \o <<Put("identity", w, NoIdentity)>>

-----------------------------------------------------------------------------
(* putEvent and putGenericEvent: the row of a log, then its index keys *)

PutEvent(id) == <<Put("event", id, TRUE)>>

IndexKeys(id, token, address) ==
    (IF token THEN <<Put("byToken", id, TRUE)>> ELSE <<>>)
      \o (IF address = NoOne THEN <<>> ELSE <<Put("byAddress", id, address)>>)

\* Mutant: the keys are written before the row they lead to.
PutKeysFirst(id, token, address) == IndexKeys(id, token, address) \o PutEvent(id)

\* token: whether the row names the tokenId; address: whom it names.
PutGenericEvent(id, token, address) == PutEvent(id) \o IndexKeys(id, token, address)
=============================================================================
