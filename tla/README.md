# Verification of agro-diamond-compliance

TLA+ models of the regulated token in this repository, the TLC runs that check
them on small instances, and proofs, checked by TLAPS, of what holds for every
instance. Paths below are relative to the repository; `C` is
`packages/contracts/src` and `I` is `packages/indexer/internal`.

## 1. The system

One EIP-2535 diamond holds regulated ERC-1155 tokens. Every facet works on the
diamond's storage, split into namespaced layouts (`C/storage`). A call is one
transaction: it runs alone and either commits every write or reverts. What is
hard is therefore never an interleaving inside a call, but what long sequences
of calls by different roles add up to, in which order the checks of one call
happen, and what a call forgets to look at. Beside the diamond stand contracts
it calls (compliance modules, plugin modules) and a Go process that indexes its
events into a database of its own; there crashes, restarts and retries matter.

| Component | State | Operations | Talks to | What makes it correct |
|---|---|---|---|---|
| Token (`ERC1155Facet`) | partitions, operatorApprovals, isHolder, holderCount | safeTransferFrom, safeBatchTransferFrom, setApprovalForAll | asks freezes, pauses and compliance modules; tells plugin modules; calls the receiver | nothing moves against a restraint, also inside a batch; balances add up |
| Supply (`SupplyFacet`) | AssetConfig.totalSupply | mint, batchMint, burn, forcedTransfer | as above, without `canTransfer` | supply is the sum of balances; growth within the cap |
| Asset manager | AssetConfig, nextTokenId | registerAsset, modules, plugins, cap, other settings | read by all others | tokenIds only grow; a lowered cap stops growth |
| Freezes (`FreezeFacet`) | globalFreeze, assetFreeze, frozenAmount, lockupExpiry | four setters | read by token and supply, moved by recovery | restraints survive every other call |
| Pauses (`PauseFacet`, `EmergencyFacet`) | globalPaused, AssetConfig.paused | pause and unpause | read by token and supply | while paused nothing moves |
| Recovery (`RecoveryFacet`) | none of its own | recoverWallet | rewrites identity, freezes, balances | holdings and restraints arrive together |
| Compliance modules | limits, blocked countries, lock-ups, profiles, each in its own contract | setters, canTransfer | read token and identity | the limits bind in every order of calls |
| Identity (`IdentityRegistryFacet`, `ClaimTopicsFacet`, `TrustedIssuerFacet`) | wallet to identity, country, versions, profiles, verification cache | register, delete, update, isVerified, profiles, issuers | read by modules, moved by recovery | a cached verdict is never stale |
| Asset groups | groups, units, nextUnitIndex | createGroup, mintUnit, mintUnitBatch | registers assets, mints | units within the group's maximum, one asset each |
| Snapshots and dividends | snapshot balances, dividends, claims | createSnapshot, recordHolder, createDividend, claimDividend | read balances, pay tokens out | pays at most what was deposited |
| Yield distributor plugin | acc per share, debts, pending, per token and reward asset | deposit, claim, reward assets, onAction | told of every move of units | pays at most what was deposited, and what each holder earned |
| Global plugins | registry of at most 20 plugins | register, remove, setStatus | delegatecall targets | list and index agree |
| Access control and ownership (`AccessControlFacet`, `OwnershipFacet`) | roles, the admin of each, owner, pendingOwner | grantRole, revokeRole, renounceRole, setRoleAdmin, transferOwnership, acceptOwnership | asked by every facet | rights are given and taken only by those who administer them; a nomination is the present owner's |
| Diamond core (`LibDiamond`) | selector table | diamondCut | dispatches every call | the selector table stays consistent |
| Indexer (Go) | database: cursor, holders, assets, freezes, identities, transfer events, protocol events and their indexes | backfill, poll, a handler per kind of log | reads logs of the node | each log applied once, in order, also across crashes |
| GraphQL API (Go) | none of its own | queries | reads the same database while the indexer writes it | an answer is what the contracts say at the cursor, and a list leaves nothing out |

## 2. Modules

| Module | What it is | State |
|---|---|---|
| `TokenState` | constants, variables, type invariant, and the updates of one tokenId's ledger | asset, ledger, operatorApprovals, freezes, lockups, pause, identity and country of each wallet, rules of the compliance modules, the clock |
| `ComplianceModules` | setters and verdicts of the five compliance modules | the rules |
| `RegulatedToken` | every call of the token, supply, asset-manager, freeze, pause, identity and recovery facets; the properties | composes the two above |
| `ShareRegister` | what the token promises: the abstract specification `RegulatedToken` implements | held, issued, lien, barred, closed, suspended |
| `FiniteSums` | lemmas about sums over finite sets, and about the smallest member of a family of finite sets | |
| `RegulatedTokenProofs` | theorems about `RegulatedToken`: types, holders, supply and cap; then transfers, their limits, and the refinement of `ShareRegister`; last about `AssetGroups`: its books, and what holds of the token again when units are minted beside its calls | |
| `MCRegulatedToken`, `MCTokenRules` | instances of `RegulatedToken` for TLC: restraints, and compliance modules | |
| `AssetGroups` | groups and their units, beside every call of `RegulatedToken` | tokenId, group, groupChildren, childToGroup and two counters |
| `MCTokenLedger` | an instance of `AssetGroups` | |
| `AccessControl` | roles, their admins and the two-step change of owner | owner, pendingOwner, roles, roleAdmin |
| `IdentityRegistry` | identities, profiles, trusted issuers and the cache of verdicts, under `AccessControl` | identity, country and version per wallet; topics, issuers and version per profile; verifiedCache, cacheVersion |
| `IdentityRegistryProofs` | theorems about `IdentityRegistry` | |
| `MCIdentityRegistry` | an instance of `IdentityRegistry` | |
| `EventChain` | the chain as the indexer sees it: blocks of calls, the contract state after each, the logs they emit | chain |
| `IndexStore` | the indexer's database, table by table, and the puts each `Record`, `Update` and `Remove` of `store.go` makes | (records and puts) |
| `EventHandlers` | which handler takes which kind of log, and the puts it makes | (operators) |
| `Indexer` | the process: start, enrichment, backfill, polls, handlers put by put, failures, kills | db, phase, chunk bounds, logs in hand, pending puts |
| `IndexerProofs` | what handlers write, and theorems about `Indexer` | |
| `QueryApi` | the GraphQL queries, answered between any two puts | request, rows still to visit, answer |
| `QueryApiProofs` | the chain replayed log by log, the database as its mirror, the lists while they are collected; theorems about the answers of `QueryApi` | |
| `MCIndexer`, `MCQueryApi` | instances of `Indexer` and of `QueryApi` | |
| `YieldLedger` | what the yield distributor promises: exact shares, fixed when a deposit is made | held, due, till |
| `YieldDistributor` | every call of the module, and the calls of the diamond that move units, with or without its hook | held, supply, plugged, isRewardAsset, acc, account, till, missed |
| `YieldDistributorProofs` | theorems about `YieldDistributor`, the refinement of `YieldLedger` among them | |
| `MCYieldDistributor` | instances of `YieldDistributor` | |
| `DividendRegister` | what a snapshot and its dividends promise: everyone is paid the share of the balance at the snapshot, once | registered, dividends, paid |
| `Dividends` | snapshots recorded holder by holder, dividends and claims, among moves of units | supply, balance, snapshots, dividends, recorded and claimed flags |
| `DividendsProofs` | theorems about `Dividends` | |
| `MCDividends` | an instance of `Dividends` | |
| `RouteTable` | what a diamond promises of its selectors and its loupe | route, loupe |
| `DiamondCore` | the selector table of `LibDiamond` and the registry of global plugins | table, plugins, pluginIndex |
| `DiamondCoreProofs` | theorems about the plugin registry and the selector table of `DiamondCore`, the refinement of `RouteTable` among them | |
| `MCDiamondCore` | an instance of `DiamondCore` | |

### How the token model corresponds to the code

One action is one external call that does not revert. A call that reverts
changes nothing and is no step. Every action takes its caller, asks the role
check of the facet, then the same conditions in the same order as the source.
Where a batch validates and executes item by item, the second item is validated
against the ledger the first one left (`SafeBatchTransferFrom`, `BatchMint`),
and the whole batch is one step since a revert undoes all of it.

- `asset[id]` is the part of `AssetConfig` that decides something: `exists`,
  `paused`, `cap`, `modules`. `ledger[id]` joins `partitions`, `totalSupply`,
  `isHolder` and `holderCount` of one tokenId, because the same private
  functions update them together (`Minted`, `Burned`, `Moved`, `Recovered`).
- Of the four partitions of a balance only `free` is kept: no code writes
  anything but 0 to `locked`, `custody` and `pendingSettlement`.
- Batches have two items, which is enough for one to depend on the other.
- The modules of an asset are a set. `setComplianceModules` accepts a list that
  names a module twice; asking twice gives the same verdict, but removing it
  then removes one of the two, which the model does not show.
- `RecoverWallet` does all three migrations in one step, in the order of the
  source, with the source's `if` conditions: the frozen amount and the lockup
  are assigned, not added, and only when the lost wallet's are not 0.
- Receivers are called after every write of a call, so what a receiver does is
  the next call; nothing of the caller's frame is used after it.
- Amounts are small numbers and `MaxUint` stands for 2^256 - 1, where checked
  arithmetic reverts.

### How the indexer model corresponds to the code

`EventChain` computes, for every call in `Traffic`, the contract state after it
and its logs in order: a transfer's `TransferSingle`, a mint's `TransferSingle`
and `Minted`, a recovery's `TransferSingle` (when there is a balance) and
`WalletRecovered`, and so on. A block holds up to two calls and remembers the
contract state after it. That state is what the database is compared with.

`EventHandlers` has `handleLog`'s switch: `HandlerPuts` gives, for a log, the
sequence of `db.Put` and `db.Delete` calls its handler makes, worked out when the
handler takes the log, as the Go code reads rows before it writes them. Handlers
that do the same share an operator, and `map` in `PROJECT.json` names them all.
`WriteNext` applies the puts one at a time, `Crash` may fall between any two, and
`FinishLog` writes the cursor after the last, as `handleLog` does. A protocol
event is a row and up to two index keys, put one after the other in that order.
`Start`, `FetchChunk`, `ChunkDone`, `Poll`, `PollDone` are the steps of `Run`,
`backfill` and `pollNewBlocks`; `StartFails`, `FetchChunkFails`, `PollFails` are
RPC calls that return an error, with the retries the code makes.
The supply and the holder count are stored with their width: counting below zero
wraps modulo `CountModulus`, which stands for 2^64.

### How the query model corresponds to the code

A query that is one read of the database is an operator on `db` (`TokenView`,
`HolderBalance`, `AssetView`, `FreezesOf`, `IdentityLists`, ...), compared with the contracts between
two ticks; `TokenEvents` is one too, compared with what was recorded.
A query that follows an index is an actor: it takes the iterator's snapshot of
the keys (`AskEvents`, `AskByCountry`), then reads the rows they lead to one by
one, newest first or in key order as the iterator goes (`VisitEvent`,
`VisitWallet`), while the indexer puts in between, and delivers when the keys or
the limit run out. `due` is history: what the answer owes, fixed when it is asked.

What a request asks for (`AskedFor`) is said of the logs, not of what the handlers
file: of a tokenId every event of the token, transfers and dividends claimed among
them, as `events-by-token.graphql:14` and `asset-events.graphql:33` put it; of an
address every event in which it has a part (`wallet-overview.graphql:35`). Where
the code does otherwise the difference has a name: `PassedOver` is what
`protocolEvents` never lists although it is asked for, `Heeded` drops the address
beside a tokenId, `NewerTransfers` counts the events of all tokens that crowd one
out of `TokenEvents`. The chain has Minted logs of another tokenId for that
(`OtherMinted`); they leave their row among the transfer events, and what they
change for their own token is left out. `GetTokenEvents` goes through 5 times the
limit; the constant `Overscan` stands for the 5. It is 2 in the run, so that two newer
events crowd one out, and any number in the theorem.

### How the yield model corresponds to the code

One staked tokenId, any number of reward assets. `PluginAction` is
`_pluginAction` of SupplyFacet or `_pluginPostTransfer` of ERC1155Facet with the
module's `onAction` behind it. It runs after the balances changed and works out
the balances before them, as the module does; a checked subtraction that would
go below zero makes the whole call revert (`Covered`). `PRECISION` is 2 where
the code has 10^36: the division in a deposit is then exact for supplies of 1
and 2, as it is in the code for the supplies that divide 10^36, and the division
that forms a debt rounds down in the same way.
`RecoverWallet` moves units without any hook, `SetPlugged` and
`RemoveRewardAsset` make the module deaf to moves. `missed` is a history
variable: it collects the reward assets for which units moved, after a first
deposit, in a way the module did not hear of or settles wrongly (a transfer to
oneself). The properties are stated of the others; section 7 says what happens
to these.

### How the group model corresponds to the code

An asset is named by its place in `registeredTokenIds`, and `tokenId` is its
number as a pair of the high and the low 128 bits: `<<0, k>>` for the k-th
`registerAsset`, `<<g, i>>` for unit i of group g. Numbers below 2^128 cannot
collide, and `MaxAssets` is far below. `UnitAllowed` and `UnitMinted` are the
checks and the writes of `_mintUnit` on `Books`, the storage it works on, so that
the second unit of a batch is judged on what the first left. All calls of
`RegulatedToken` run beside them (`TokenCall`), on units as on other assets.

### How the identity model corresponds to the code

`identityVersion`, `profileVersion` and their sum are the code's; so is the
cache, keyed by wallet and profile, with the sum a verdict was kept under. The
verdict itself is `true` whenever it is worked out, since the code checks no claim
yet; `basis` is history and remembers what it was worked out on (identity, topics,
trusted issuers), which is what a real check would look at. `RecoverWallet` is
`_migrateIdentity`: the new wallet's version follows on the lost one's, which is
deleted. `reused` is history: the wallets whose version went back that way.
Every guard asks `owner` and `roles` of `AccessControl` at the moment of the
call; `nominator` and `by` are history. Roles the identity facets do not ask for
behave alike and are left out.

### How the dividend model corresponds to the code

`Dividends` has one tokenId whose units move, are minted and burned between any
two calls of `SnapshotFacet` and `DividendFacet`. `CreateSnapshot` stores the
supply, `RecordHoldersBatch` is `recordHolder` and `recordHoldersBatch`, and
`ClaimDividend` divides as the code does, by the supply of the snapshot and
rounding down. `vault` is what the diamond holds of each payment token: the
source keeps no account per dividend. `asOf`, the balances when the snapshot was
created, is history: no code reads it. `Timely` compares it with what was
recorded, and the properties are stated of snapshots recorded in time, as nothing
in the code makes sure of it (section 7).

### How the diamond model corresponds to the code

`table` is `DiamondStorage` without owner and interfaces. `AddFacet`,
`AddFunction` and `RemoveFunction` are the helpers of those names in
`LibDiamond`, `FacetDropped` the last block of `removeFunction`. A cut runs them
over its selectors from left to right (`FoldLeft`); one that reverts on the way
turns `ok` off and the cut is no step, so that a selector named twice, or a
selector of the facet it is replaced with, is refused just where the code
refuses it. `RegisterGlobalPlugin`, `RemoveGlobalPlugin` and
`SetGlobalPluginStatus` are the calls of `GlobalPluginFacet`. Roles are left
out: who may call does not depend on what the lists hold.
`ImplementsRouteTable` maps `table` to a plain function from selectors to facets
and to what `DiamondLoupeFacet` shows: that catches a wrong position, a facet
listed twice and a facet that is missing, however it came about.

## 3. Runs

| Run | Instance | What it shows |
|---|---|---|
| `token_ledger` | 3 wallets, 2 tokenIds, amounts 0..2, caps none and 1, `MaxUint` 2; or 2 wallets, 2 groups, 3 assets of which up to 2 are units | types; supply is the sum of balances; every wallet with a balance is flagged and the count never overstates the flags, zero amounts included; growth within the cap; the books of the groups agree with the registry of assets and no group with room is stuck |
| `token_restraints` | 2 wallets, amounts 1 and 2, freezes, lockups at 0 and 2, pauses, clock | the token implements `ShareRegister`; what holders and operators move never moves a restrained unit |
| `token_compliance` | 3 wallets, MaxBalance and MaxHolders, limits none and 2; or 2 wallets, CountryRestrict, ProducerKyc, CprLockup and the clock | with positive amounts `holderCount` is exact; both limits bind every transfer, single or batch; country and identity rules bind with the identities of that moment; CPR lock-ups hold until their last second |
| `identity_registry` | 2 accounts, 4 roles, first versions of everything; or the owner alone, 2 wallets, 2 identities, 1 profile, versions up to 3 | nobody changes what his role does not cover; a nomination is the present owner's; a verdict from the cache is about what there is now, save after a recovery |
| `indexer_queries` | 2 wallets, up to 3 blocks of 2 logs, eight groups of calls, mints of another tokenId, an overscan of 2, an RPC error, queries in between, no kill | between ticks the answers about balances, identities, freezes and the asset are the contracts' state at the cursor; lists of events and of the wallets of a country miss nothing they owe but the events `EventAnswersComplete` names |
| `indexer_restart` | 2 wallets, 2 blocks of 2 logs, an RPC error, a kill, fairness | no restart takes the cursor back; at most one log is handled twice; once there is a cursor every block is indexed |
| `indexer_cold_start` | no errors, no kills, fairness | VIOLATED: a chain that is empty at start is never indexed |
| `indexer_crash` | a kill | VIOLATED: the rest of a block is skipped after a restart |
| `yield_exact` | 3 wallets, 1 reward asset, deposits of 2, supply at most 2 | debts are covered, claims are funded, every wallet is owed exactly its share, in every order of deposits, moves and claims |
| `yield_rounding` | 2 wallets, deposits of 1 | VIOLATED: claims exceed deposits |
| `dividends` | 3 wallets, 3 units, ether and one token, 1 snapshot, 2 dividends | as long as balances are recorded before they change, everyone gets the share of the snapshot once, and no dividend is paid with another's funds |
| `diamond_core` | 4 selectors, 4 facets, cuts of 1 and 2 selectors, 3 plugins of which 2 fit | recorded positions are those of the lists after every sequence of cuts; the loupe shows the routes; a plugin keeps its index and status |

Where an instance would be too large with every call, its `MC` module picks, in
each behaviour, a `focus`: a group of calls to explore in depth, the others left
out. Every call is in at least one of them, every behaviour is one of the
component's own specification, and the theorems are about that one.

### Bounds, and why they are enough

- Two wallets are a sender and a receiver; the third is there where a count of
  holders, or a share of a deposit, must be able to differ from both.
- Two tokenIds let a call confuse one with the other. One is enough for
  restraints and limits, which the code keeps per tokenId, and batches still
  name it twice.
- Amounts 1 and 2 make a part and the whole of a balance; 0 is in the runs
  about zero amounts. `MaxUint` 2 makes checked arithmetic revert.
- The clock runs past the lockups, so that before, at and after the last second
  all occur.
- Blocks of two logs hold one before and one after the cursor in the same block;
  the third block of `indexer_queries` is mined while a poll is handled, and in
  `indexer_restart` the kill takes its place. One kill and one RPC error can fall anywhere, `ChunkSize` 0
  makes a chunk of every block; with `MaxRetries` 0 the error ends the backfill
  between two chunks, with 1 the query is tried again.
- One snapshot bears two dividends, paid in the same or in different payment
  tokens, which is enough for one to be paid with the funds of the other; three
  units over three wallets make shares that round down, also to nothing.
- Four selectors on four facets let a facet hold three while another comes or
  goes from the middle of the list; cuts of two let the second selector meet what
  the first left. A list of two plugins has a last one and one before it.
- A parent and two units make one group with two units or two groups with one
  each, so that a batch fills a group, overfills it, or serves both.
- Versions up to 3 let a wallet's version rise while the profile's does, so that
  the same sum comes about in two ways; that is where a stale verdict would hide.
- `MaxAcc` 6 allows three deposits at full supply; two are needed for a debt of
  the first to meet the second. `MaxPending` 4 stops what histories with missed
  moves pile up; no history without one reaches it.

The identity run ends where versions have reached their bound, and the indexer runs
switch the deadlock check off too: with no more blocks, errors and
kills allowed an idle indexer has no step, as it waits for its next tick.

### Fairness

Only `FairSpec` of `Indexer` assumes any: weak fairness of `Work`, what the
process does by itself when its calls are answered. The ticker and the loops are
the code's own scheduler, and `docker-compose.yml:8` (`restart: unless-stopped`)
restarts a process that died. Nothing is assumed of the chain, which may stop;
RPC errors and kills are finite in number, which `MaxErrors` and `MaxCrashes`
bound. The contracts need no fairness: all that is claimed of them is safety.

## 4. What is proved

| Theorem | Says | How |
|---|---|---|
| `RegulatedTokenProofs!TypeCorrect` | `Spec => []TypeOK` | `TypeOK` is inductive: the guards of burn and of both transfers keep balances and supply at or above 0, and no update takes a ledger out of its type |
| `RegulatedTokenProofs!HoldersAlwaysFlagged` | `Spec => []HoldersAreFlagged` | per ledger, with `Excess`, the distance of `holderCount` from the number of flags: joining keeps it, leaving keeps or lowers it |
| `RegulatedTokenProofs!PositiveAmountsCounted` | `HolderCountAccuracy` when 0 is not among the amounts | the excess is exactly 0 and flags are exactly the holders; without zero amounts nobody leaves who was not flagged |
| `RegulatedTokenProofs!SupplyAlwaysSum` | `Spec => []SupplyIsSumOfBalances` | per ledger: each update writes two balances at most, and `FiniteSums` says what that does to their sum |
| `RegulatedTokenProofs!CapBindsGrowth` | `Spec => GrowthWithinCap` | mints alone raise a supply, the second item of a batch from what the first left, and each asks for the cap |
| `RegulatedTokenProofs!TransfersOnlyGive` | `Spec => TransfersAreGifts` | a transfer, each item of a batch on the ledger the one before left, is a gift of what the restraints leave free |
| `RegulatedTokenProofs!HoldingLimitKept`, `PartyRulesKept` | `Spec => HoldingLimitBinds`, `Spec => PartyRulesBind` | what the modules were asked is what the item then does: between the questions and the writes of a batch only the ledger moves |
| `RegulatedTokenProofs!HolderLimitKept` | `HolderLimitBinds` when 0 is not among the amounts | from exact counting: a receiver that is new has no balance, and is counted |
| `RegulatedTokenProofs!TokenImplementsRegister` | `Spec => ImplementsShareRegister` | every call maps to a step of `ShareRegister` or to none: mint and burn to issue and redemption, transfers to gifts, `forcedTransfer` to a seizure, `recoverWallet` to a succession, setters to the restraints they set |
| `RegulatedTokenProofs!UnitsAlwaysAgree` | `GroupsSpec => []UnitsAgree` | the registry of assets and the books of the groups agree place by place, and a unit minted by `_mintUnit` takes the next place of both |
| `RegulatedTokenProofs!GroupsTypeCorrect`, `GroupSupplyAlwaysSum`, `GroupHoldersAlwaysFlagged`, `GroupCapBindsGrowth` | the same of `GroupsSpec` as of `Spec` above | a unit mint is a registration and a mint; all other calls keep what they kept |
| `IndexerProofs!TypeCorrect` | `Spec => []TypeOK` | from the logs of each call over the puts of each handler to the rows of the database |
| `IndexerProofs!CursorMonotone` | `Spec => CursorNeverGoesBack` | `IInv`: types, logs in hand are logs of the chain, nothing pending is behind the cursor, and a poll or chunk ends at or ahead of it |
| `IndexerProofs!IndexAlwaysResolves` | `Spec => []EventIndexResolves` | `PutsInOrder`: of the puts pending, a row comes before its keys; a key that is written has its row, by `RowsInv` |
| `IndexerProofs!OneLogAheadAtMost` | `Spec => []AtMostOneLogAhead` | `QueryInv`: the logs in hand are, in order and without a gap, the ones the query asked for, so only the first can be applied beyond the cursor |
| `IndexerProofs!CursorTellsTheRows` | `CursorBlocksAreIndexed` when kills fall between two ticks | `Progress`: under way, the rows are those of the logs before the one in hand |
| `QueryApiProofs!BalanceAnswersHold`, `IdentityAnswersHold`, `FrozenAnswersHold`, `AssetAnswersHold` | `QuerySpec /\ []FromTheStart => []BalanceAnswersMatchChain`, and the same of identities, freezes and the asset | `MirrorInv`: with the puts in hand written, the database is what the logs up to the last one taken tell of the contracts |
| `QueryApiProofs!EventAnswersHold` | `QuerySpec => []EventAnswersComplete` | `ListInv`: what is still to be visited is older than what was collected, and everything due that matches is one or the other; rows and keys are those of the logs (`KeyInv`), so what is asked for matches unless it is passed over (`MatchesAreAsked`); the oldest of a finite set in order are all of it or as many as the limit (`FirstOnes`) |
| `QueryApiProofs!CountryAnswersHold` | `QuerySpec /\ []FromTheStart => []CountryAnswersMissNobody` | `CountryInv`: every log that names a wallet that is due has been handled, so its row and key are those of the contracts and stay |
| `IdentityRegistryProofs!TypeCorrect` | `Spec => []TypeOK` | `TypeOK` is inductive, facet by facet |
| `IdentityRegistryProofs!HitsAlwaysFresh` | `Spec => []HitsAreFresh` | `IInv`: a profile has a version exactly when it is there; no verdict is kept under a sum the versions have not reached; one kept under the sum of now is about what is there now. Every step leaves a verdict and what it rests on alone, or raises the sum past it, or judges anew (`Kept`, `Raised`, `Judged`) |
| `IdentityRegistryProofs!NominationAlwaysTheOwners` | `Spec => []NominationIsTheOwners` | a nomination is dropped or replaced by every step that changes the owner |
| `IdentityRegistryProofs!DutiesAlwaysSeparate` | `Spec => DutiesAreSeparate` | call by call: what it writes, and the right it asks for, at the state it starts from |
| `YieldDistributorProofs!DebtsStayCovered` | `Spec => []DebtsAreCovered` | `IInv`: the books are typed, nobody has a debt before the first deposit, and no debt exceeds the share of the balance. A checkpoint sets the debt to the share itself, a deposit only raises shares since a floored quotient grows with its dividend, and before the first deposit a missed move does no harm |
| `YieldDistributorProofs!TypeCorrect` | `Spec => []TypeOK` | `IInv`, and the supply being the sum of the balances: no balance passes the supply, so none leaves its bound |
| `YieldDistributorProofs!ClaimsAlwaysFunded` | `ClaimsAreFunded` when deposits divide evenly | `EvenRates`: the accumulator is then a multiple of `PRECISION`, shares are exact, and what is due to all and what is not yet paid move by the same amounts |
| `YieldDistributorProofs!YieldImplementsLedger` | `ImplementsYieldLedger` when deposits divide evenly | a deposit maps to a distribution among the holders of that moment, a claim to a payment, and a move of units changes nobody's due |
| `DividendsProofs!TypeCorrect` | `Spec => []TypeOK` | no balance exceeds the supply, which is the sum of the balances, so a burn leaves it at or above 0; a claim that the vault cannot pay fails |
| `DividendsProofs!ClaimsAlwaysCovered` | `Spec => []ClaimsAreCovered` | `IInv`: the supply of a snapshot is the sum of the balances at its creation; what was claimed of a dividend and the parts of all others are within its amount (`PartsSetAside`, while the snapshot is in time); a vault covers what is unpaid of its dividends (`VaultCovers`, always) |
| `DividendsProofs!DividendsImplementRegister` | `Spec => ImplementsDividendRegister` | dividend by dividend: `createDividend` maps to its declaration, a claim to one settlement, by the share of what was held at the snapshot, and all else to a stutter |
| `DiamondCoreProofs!IndexAlwaysAgrees` | `Spec => []PluginIndexAgrees` | `IInv`: the list is typed and within the limit, and list and index agree; `SwapAndPopFacts` says what is left where when the last element is written over another, so that exactly one index has to be repaired |
| `DiamondCoreProofs!StatusAlwaysKept` | `Spec => StatusIsKept` | from the same `IInv` and what each call does to the list and the index |
| `DiamondCoreProofs!TypeCorrect`, `PositionsAlwaysAgree` | `Spec => []TypeOK`, `Spec => []PositionsAgree` | `TableInv(t, open)` holds between any two selectors of a cut: lists and positions agree, every selector is found where it is recorded, and the facets on the list are those with selectors, and `open`, the facet a cut has entered and not yet given one |
| `DiamondCoreProofs!CoreImplementsRouteTable` | `Spec => ImplementsRouteTable` | `RoutesDone`: after i selectors exactly those i lead to the facet of the cut, and each led where it may have led before; the loupe shows the routes by `TableInv` |

Each is proved for any set of wallets (finite where the module assumes it), any
roles, amounts, limits and bounds, from the named assumptions `TokenAssumption`,
`GroupAssumption`, `ChainAssumption`, `CountAssumption`, `IndexerAssumption`,
`YieldAssumption`, `DividendAssumption`, `AccessAssumption`, `RegistryAssumption` and
`DiamondAssumption` on the constants. Some theorems say more in their hypotheses:

- `PositiveAmountsCounted` and `HolderLimitKept` ask that no call passes the
  amount 0. With it the counts go wrong (section 7); `HoldersAlwaysFlagged` says
  what is left.
- `ClaimsAlwaysFunded` and `YieldImplementsLedger` take the histories whose
  deposits divide evenly (`[][EvenDeposit]_vars`). `yield_rounding` shows what
  happens in others; `DebtsStayCovered` and `TypeCorrect` hold there too, and
  for every `PRECISION`.
- `CursorTellsTheRows` takes the histories in which the process is killed at
  rest only (`[][Crash => Resting]_vars`). `indexer_crash` shows what happens in
  others. RPC errors, retries and backfills that are given up fall anywhere.
- The theorems about answers but `EventAnswersHold` take the chains on which no
  log lies before `START_BLOCK` (`[]FromTheStart`, true of any chain when it is 0 or
  1, as `FromBlockOne` says): logs before it (`docker-compose.yml:17` gives
  35301007) are never asked for, so no answer can tell of them. Each leaves out the
  calls whose logs do not tell what they do, and no other:
  `BalanceAnswersHold` those with unit mints, batches or the amount 0, and takes
  fewer wallets than the count has values (`CountsKept`); `FrozenAnswersHold` recoveries;
  `IdentityAnswersHold` and `CountryAnswersHold` a country changed by
  `updateCountry` (`CountriesTold`); `AssetAnswersHold` an asset registered before
  the chain began. Section 7 says what goes wrong in each. `indexer_queries` keeps
  to the same by giving each behaviour one group of calls.

Six of the arguments in a few words:

- Sums. `SumFunction` of the community modules is a fold, so what a sum is can only
  be unrolled one element at a time. `FiniteSums` proves from that, for any finite
  set, that a sum does not depend on the order, that it changes by what one summand
  changes, and that it is monotone. Each is shown by the smallest subset for which
  it would fail: strict inclusion of finite subsets is well founded, and taking one
  element out of that subset leads to a contradiction. So no induction theorem
  with an operator as a parameter is needed.
- Dividends. `ClaimsAreCovered` alone is not inductive: that what is outstanding
  is covered says nothing of the holders who are not recorded yet. `IInv` counts
  their parts too, by what they held when the snapshot was created; that those
  parts, each rounded down, never exceed the amount together is `PartsFit`, from
  the sum of the balances at that moment being the supply that was stored. A
  snapshot that was recorded late stays so (`LateForGood`), hence in a state where
  all are in time, every claim so far was of a share that was its part.
- Cuts fold over a list in the same way. The run of a cut is written as a function
  of the prefixes `1..i` of the list (`IsRun`), shown to exist and to end in what
  the fold gives, and `RunSoFar` takes the smallest prefix after which the
  invariant of a cut would fail.
- The indexer. `CursorNeverGoesBack` alone is not inductive: a step that finishes
  a log writes the block of that log, so one must know that what is pending is
  never behind the cursor, which needs in turn where a query started. What the rows
  say needs more: the logs in hand are consecutive (`QueryInv`), the puts of a log
  come in the order row, keys (`PutsInOrder`), what is recorded is below the log in
  hand (`RowsInv`) and, without kills under way, everything below it is recorded
  (`Progress`). All of these speak of logs from `StartBlock` on: a process that
  starts there knows nothing of the blocks before.

- The answers of one read. That the rows are right between two ticks is far from
  inductive: half-way through a handler they are those of no state of the
  contracts, and several logs of a block lead from one state of the chain to the
  next. So the chain is replayed first: what each kind of log tells (`Step`), and that
  the logs of every call, and of two calls in a block, are a walk of such steps from
  the state before to the state after (`CallsRun`, `ChainRuns`). Then
  each handler, put by put, turns a mirror of the state before its log into a mirror
  of the one after (`HandlerMirrors`). `Mirror` says that there is a log such
  that the logs handled are those up to it (`Mark`), a state reached by them
  (`Reached`), and that the puts still in hand lead from the database to a mirror of
  that state. Between two ticks nothing is in hand and the state is that of
  the cursor's block (`QuietTo`). Walks are shown to exist by joining, and what holds
  along one by the first place where it would fail.
- The lists. What was collected is newer than what is still to be visited because
  the newest row is taken each time, so a list that stopped at its limit left out older
  ones only. That nothing is missed needs the keys: each row and each key is that
  of its log (`KeysRight`), and a row without its keys is that of the log in hand,
  with the keys among the puts (`KeysThere`, `KeysComing`). What the keys say of a log
  (`SaysToken`, `SaysAccount`) is set against what the log says, kind by kind: the
  difference is `PassedOver` (`TokenSaid`, `AccountSaid`, `MatchesAreAsked`). That the
  events of a token fill the limit is a fact about the first ones of an ordered set
  (`FirstOnes`, `TokenEventsFilled`). For the wallets of a country the replay is needed as well: a wallet that
  no log from the cursor's block on names is, in the state reached, what it is at that
  block, whether the last log taken lies before, in or after it (`SettledKeeps`).

Only model-checked: `KeepsUp`, which speaks of liveness and is out of the reach of
the provers used here. Every other property of a passing run is stated by a
theorem; what the three other runs refute stays with TLC.

## 5. Properties and what can break them

Each property of a passing run has a mutant in `PROJECT.json`: a plausible bug
put in the place of a definition, written next to the definition it replaces
and marked "Mutant" there. No other definition uses them.

## 6. What is not modelled, and why

- Duplicates in module lists, batches longer than two, the other partitions, and
  code of receivers that runs inside a claim of yield (the token's own receiver
  callback comes last and is simply the next call).
- Issuer, uri, identity profile and allowed countries of an asset: nothing in
  the source decides anything by them.
- Granting and revoking roles while tokens move: the members of the roles are
  constants of the token, yield and dividend models; `AccessControl` has the calls.
- In the indexer: puts that fail (a log half applied, as after a kill), blocks
  that are replaced, more than one tokenId.
- In the GraphQL API: HTTP, formats, the cut of a token's holders to a first few,
  the number of tokens in `status`, `assets` beyond the asset of the one tokenId, and
  what a query sees that reads two rows of a token while one is being written.
- A reward that is the staked tokenId itself.
- Initializers of a cut, which may write anything.
- Receivers that run code while a dividend is paid: the claim is written down
  before, so what they call is the next call.
- Views, routers, metadata and the web application have no state of the system.
- `I/bindings` is generated by abigen and no other package imports it. It is most
  of the repository's Go code (13640 of 16519 lines), so a share of Go lines says
  little here: the contracts, which carry the system's state, are Solidity. Of the
  hand-written Go the rest is logging, formatting, ABI tables and GraphQL type
  declarations.

## 7. Divergences seen in the models that no run states

- A recovery moves units while the protocol or the asset is paused, although
  `PauseFacet.sol:44` speaks of stopping all transfers.
- A mint asks no compliance module, although `ProducerKycModule.sol:20` describes
  what the module does with mints.
- `recoverWallet` assigns the lost wallet's frozen amount and lockup to the new
  wallet even when its own are stricter (`RecoveryFacet.sol:129`, `:137`): what it
  held under a later lockup becomes transferable early, although
  `FreezeFacet.sol:81` says that tokens cannot be transferred until the expiry.
- A mint, transfer or burn of 0 units passes and moves `holderCount` for wallets
  without a balance; once it is too low, `MaxHoldersModule` lets in one holder
  more than its limit.
- `SnapshotFacet.sol:14` speaks of balances at a point in time. Balances are
  recorded by later calls: units that move in between are recorded twice, the
  claims exceed the dividend, and what is missing is paid with the funds of other
  dividends in the same token. Ether sent beyond the amount of a dividend, and
  what rounding leaves, cannot be withdrawn.
- The indexer has no case for `TransferBatch`: what a batch moved stays where it
  was. A unit mint emits no `Minted` log and is not credited either.
- A new asset-freeze row overwrites the frozen amount and the lockup kept under
  the same key. `updateCountry` emits nothing. Recovery moves freezes and lockups
  in the contracts and tells the indexer of balances and identities only.
- A wallet bound again with another country keeps its key under the old one, so
  `identities(country)` also answers with wallets of another country, although
  `identities-by-country.graphql` asks for the identities of one.
- `protocolEvents` with a tokenId knows nothing of mints, burns and transfers (kept in
  a table of their own), of unit mints and groups (filed under the groupId, so the
  token of the same number gets them) and of dividends claimed (filed without a
  token), although `events-by-token.graphql:14` asks for all events of a token and
  `asset-events.graphql:33` lists unit mints, groups and dividends claimed among the
  types an asset has. With an address it lists no transfer, no unit mint for the
  receiver, no recovery for the lost wallet and no binding for the identity, although
  `wallet-overview.graphql:35` speaks of the last 20 events related to the wallet.
  `PassedOver` names each of these, and `EventAnswersComplete` says that nothing else
  is missing; without any one of them but the unit mints, which `indexer_queries`
  does not make, TLC finds the event that is missing.
  With a tokenId the address is not looked at (`store.go:402`, `Heeded`): the answer
  has events of the token that are not about the address.
- `GetTokenEvents` says that it "scans all events" (`store.go:333`). It goes through
  the newest 5 times limit of all tokens, picks the token's out of them, and answers
  with the oldest of those. With a limit of 1, one event of the token and five newer
  ones of another tokenId, it answers with nothing. `EventAnswersComplete` says that
  an event is lost in no other way than to that many newer ones, or to a full limit;
  without that exception TLC finds the loss.
- `CprLockupModule` emits `LockupSet(uint256,uint256)`, which is not the
  `LockupSet` of `FreezeFacet` the indexer knows, and is dropped.
- A kill between the row of a protocol event and its index keys, when the cursor
  already names the block, leaves an event that no index leads to. The other
  direction, a key without a row, is ruled out (`EventIndexResolves`).
- A recovery deletes the lost wallet's `identityVersion`. Register w1 (version 1),
  create a profile (1), ask `isVerified` (kept under the sum 2), recover w1 to w2,
  register another identity for w1: its version is 1 again, the sum is 2 again,
  and the old verdict answers, although `LibIdentityStorage.sol:28` says that it is
  invalidated when either version changes. `HitsAreFresh` leaves such wallets out;
  with them TLC finds this sequence. Today every verdict is `true`, so the answer is
  the right one all the same, until claims are checked.
- `AssetGroupFacet.sol:43` describes the tokenId of a unit as a keccak hash; the code
  puts the groupId in the upper half and the index of the unit in the lower, and the
  model follows the code.
- `_mintUnit` asks `globalFreeze` only: a freeze set beforehand for the number the
  unit will get, or a pause of the parent, does not stop it.
- Yield: a recovery leaves the lost wallet's debt behind and lets the new wallet
  claim what was paid before; a transfer to oneself of the whole balance is
  credited twice, of a part it reverts; units moved while the module is
  unplugged, or the reward not listed, leave debts that later make transfers
  revert.

## 8. Plan

1. Done: the token with its restraints, compliance modules and groups of units, the
   register it implements; all of it proved.
2. Done: the indexer with every kind of log, crashes and retries, and the queries
   that read along; proved but for liveness.
3. Done: the yield distributor and the ledger it implements; proved where deposits
   divide evenly, covered debts always.
4. Done: identities, profiles and the cache of verdicts under roles and two-step
   ownership; proved.
5. Done: `Dividends`, snapshots recorded while units move, and the register each
   dividend implements; proved.
6. Done: the selector table and global plugins in `DiamondCore`; proved.
7. Done: what the queries answer, in `QueryApiProofs`; proved, lists included.
