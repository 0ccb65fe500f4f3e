------------------------------ MODULE QueryApi ------------------------------
(* The GraphQL queries, answered from the database while the indexer writes *)
(* it.  A query that is one read of a row or one scan of a table is an      *)
(* operator on the database; one that follows the keys of an index reads    *)
(* the rows they lead to later, and is an actor of its own.                 *)
EXTENDS Indexer, FiniteSetsExt

CONSTANTS
    EventTypes,     \* the kinds of events that are asked for
    Limits,         \* bound: the limits ("first") that queries give
    Overscan        \* how many times the limit GetTokenEvents goes through: 5

ASSUME QueryAssumption == Limits \subseteq Nat \ {0} /\ Overscan \in Nat

VARIABLES
    request,    \* the query that is being answered, NoRequest if there is none
    rows,       \* the keys of the iterator's snapshot that are not visited
    answer,     \* what was collected
    due         \* history: what no answer may miss

reader == <<request, rows, answer, due>>
queryVars == <<vars, reader>>

-----------------------------------------------------------------------------
(* Queries of one read *)

\* The row that tokens lists; token gives nothing for one without supply and holder.
TokenRow == [supply |-> Meta(db).supply, holderCount |-> Meta(db).holderCount]
TokenView == {TokenRow} \ {[supply |-> 0, holderCount |-> 0]}

\* holder: a wallet without a row holds 0.
HolderBalance(w) == db.holder[w]

\* The holders of a token, and portfolio.
HolderRows == {<<w, db.holder[w]>> : w \in {v \in Wallets : db.holder[v] # 0}}
PortfolioRows(w) == {db.portfolio[w]} \ {0}

\* frozenWallets; without a tokenId the wallet-wide rows are there as well.
FrozenRows(token) ==
    {<<w, "token">> : w \in {v \in Wallets : db.freeze[v].frozen}}
      \cup {<<w, "global">> : w \in {v \in Wallets : ~token /\ db.walletFreeze[v]}}

\* freezes: what the rows of a wallet say, the wallet-wide one among them.
FreezesOf(w) ==
    {<<"token", db.freeze[w].frozen>>, <<"global", db.walletFreeze[w]>>}

\* identity, and identities without a country: as many wallets as the limit lets
\* in, in the order of their names, which may be any; no key of the country index.
IdentityView(w) == {db.identity[w]} \ {NoIdentity}
IdentityLists(limit) ==
    LET bound == {w \in Wallets : IsBound(db, w)}
    IN kSubset(Least(limit, Cardinality(bound)), bound)

\* asset: nothing, or the row of the asset beside the token's.
AssetView ==
    IF ~Asset(db).known THEN {}
    ELSE {[paused |-> Asset(db).paused, uri |-> Asset(db).uri,
           supply |-> Meta(db).supply, holderCount |-> Meta(db).holderCount]}

-----------------------------------------------------------------------------
(* Queries that follow an index *)

NoRequest == [query |-> "none"]
AnyType == "any"

\* events, and protocolEvents with or without a tokenId, an address and a type.
TransferRequests == [query : {"events"}, limit : Limits]
EventRequests ==
    TransferRequests
      \cup [query : {"protocolEvents"}, limit : Limits, type : EventTypes \cup {AnyType},
            token : BOOLEAN, address : Wallets \cup Identities \cup {NoOne}]

IsTransfer(log) ==
    log.kind \in {"Minted", "Burned", "TransferSingle", "ForcedTransfer"} \cup OtherTokenNotices

\* GetRecentEvents and GetProtocolEvents: the keys that are gone through.  An
\* address beside a tokenId is not looked at.
EventRows(q) ==
    {id \in LogsIn(1, Len(chain)) :
        IF q.query = "events" THEN db.event[id] /\ IsTransfer(LogAt(id))
        ELSE IF q.token THEN db.byToken[id]
        ELSE IF q.address # NoOne THEN db.byAddress[id] = q.address
        ELSE db.event[id] /\ ~IsTransfer(LogAt(id))}

OfType(q, log) == q.query = "events" \/ q.type \in {AnyType, log.kind}

\* The transfer events that are recorded, of every tokenId; the newer of them.
Transfers == {id \in LogsIn(1, Len(chain)) : db.event[id] /\ IsTransfer(LogAt(id))}
NewerTransfers(id) == {other \in Transfers \ {id} : NotAfter(id, other)}

\* token.events: of the newest transfer events of every tokenId, Overscan times
\* the limit, those of the token, and of these the oldest.
TokenEvents(limit) ==
    LET newest == {id \in Transfers : Cardinality(NewerTransfers(id)) < Overscan * limit}
        own == {id \in newest : LogAt(id).kind \notin OtherTokenNotices}
    IN {id \in own : Cardinality({other \in own : NotAfter(other, id)}) <= limit}

\* Of this tokenId, whatever the topic that carries it.
OfToken(log) ==
    log.kind \notin {"IdentityBound", "IdentityUnbound", "WalletRecovered", "WalletFrozen",
                     "RoleGranted", "EmergencyPause", "GlobalPluginRegistered",
                     "GlobalPluginStatusChanged"} \cup OtherTokenNotices

\* What a request asks for: with a tokenId the events of the token, with an
\* address those in which it has a part, with a type those of the type.
AskedFor(q, log) ==
    /\ OfType(q, log)
    /\ q.query = "events" => IsTransfer(log)
    /\ q.query = "protocolEvents" =>
          /\ q.token => OfToken(log)
          /\ q.address # NoOne => q.address \in {log.from, log.to}

\* An address beside a tokenId is not looked at.
Heeded(q) ==
    IF q.query = "protocolEvents" /\ q.token THEN [q EXCEPT !.address = NoOne] ELSE q

\* What protocolEvents does not list although it is asked for: transfers, kept in
\* a table of their own; by tokenId, what is filed under another number or none;
\* by address, the receiver of a unit, the wallet that was lost, the identity.
PassedOver(q, log) ==
    /\ q.query = "protocolEvents"
    /\ \/ IsTransfer(log)
       \/ q.token /\ log.kind \in {"UnitMinted", "GroupCreated", "DividendClaimed"}
       \/ /\ ~q.token /\ q.address # NoOne
          /\ \/ log.kind = "UnitMinted"
             \/ log.kind = "WalletRecovered" /\ log.to # q.address
             \/ log.kind = "IdentityBound" /\ log.from # q.address

Idle == request = NoRequest

AskEvents ==
    /\ Idle
    /\ \E q \in EventRequests :
          /\ request' = q
          /\ rows' = EventRows(q)
          /\ due' = {id \in LogsIn(1, Len(chain)) :
                        db.event[id] /\ id # current /\ AskedFor(q, LogAt(id))}
    /\ UNCHANGED <<vars, answer>>

Asking(query) == request.query \in query /\ rows # {} /\ Len(answer) < request.limit

\* Mutant: the scan begins at the oldest.
VisitOldestEvent ==
    /\ Asking({"events", "protocolEvents"})
    /\ \E id \in rows :
          /\ \A other \in rows : NotAfter(id, other)
          /\ rows' = rows \ {id}
          /\ answer' = IF db.event[id] /\ OfType(request, LogAt(id)) THEN Append(answer, id) ELSE answer
    /\ UNCHANGED <<vars, request, due>>

\* The newest first; the answer is turned into the order of the chain.
VisitEvent ==
    /\ Asking({"events", "protocolEvents"})
    /\ \E id \in rows :
          /\ \A other \in rows : NotAfter(other, id)
          /\ rows' = rows \ {id}
          /\ answer' = IF db.event[id] /\ OfType(request, LogAt(id)) THEN <<id>> \o answer ELSE answer
    /\ UNCHANGED <<vars, request, due>>

\* identities with a country.
CountryRequests == [query : {"identities"}, limit : Limits, country : Countries]

\* The wallets a log is about, as far as their identities go.
Named(log) ==
    IF log.kind \in {"IdentityBound", "IdentityUnbound"} THEN {log.from}
    ELSE IF log.kind = "WalletRecovered" THEN {log.from, log.to} ELSE {}

\* Wallets of country c that no log from the cursor's block on is about.
Settled(c) ==
    {w \in Wallets :
        /\ Bound(Indexed, w) /\ Indexed.country[w] = c
        /\ \A id \in LogsIn(Cursor, Len(chain)) : w \notin Named(LogAt(id))}

AskByCountry ==
    /\ Idle
    /\ \E q \in CountryRequests :
          /\ request' = q
          /\ rows' = {w \in Wallets : q.country \in db.byCountry[w]}
          /\ due' = Settled(q.country)
    /\ UNCHANGED <<vars, answer>>

\* Mutant: a wallet whose row is gone has the scan end.
VisitWalletStops ==
    /\ Asking({"identities"})
    /\ \E w \in rows :
          /\ rows' = IF IsBound(db, w) THEN rows \ {w} ELSE {}
          /\ answer' = IF IsBound(db, w) THEN Append(answer, w) ELSE answer
    /\ UNCHANGED <<vars, request, due>>

\* In the order of the wallets' names; the country of the row is not compared.
VisitWallet ==
    /\ Asking({"identities"})
    /\ \E w \in rows :
          /\ rows' = rows \ {w}
          /\ answer' = IF IsBound(db, w) THEN Append(answer, w) ELSE answer
    /\ UNCHANGED <<vars, request, due>>

Answered(query) ==
    request.query \in query /\ (rows = {} \/ Len(answer) = request.limit)

Deliver ==
    /\ Answered({"events", "protocolEvents", "identities"})
    /\ request' = NoRequest
    /\ rows' = {} /\ answer' = <<>> /\ due' = {}
    /\ UNCHANGED vars

-----------------------------------------------------------------------------
ReaderInit == request = NoRequest /\ rows = {} /\ answer = <<>> /\ due = {}

QueryInit == Init /\ ReaderInit

Read == AskEvents \/ VisitEvent \/ AskByCountry \/ VisitWallet \/ Deliver

\* Requests die with the process, so here it is never killed.
IndexerWorks == (Work \/ StartFails \/ FetchChunkFails \/ PollFails) /\ UNCHANGED reader

MineWhileReading(kinds) ==
    /\ MineBlock(kinds)
    /\ due' = due \ UNION {Named(log) : log \in Range(chain'[Len(chain')].logs)}
    /\ UNCHANGED <<request, rows, answer>>

QueryNext == IndexerWorks \/ Read \/ MineWhileReading(Traffic)

QuerySpec == QueryInit /\ [][QueryNext]_queryVars

-----------------------------------------------------------------------------
(* What the answers say *)

\* Between two ticks a token's holders and their balances, by token and by wallet,
\* its supply and its holder count are those of the contracts at the cursor's
\* block, a wallet asked for by name included; a token nobody holds is not there.
\* Of traffic without unit mints, batches and amounts of 0: see the README, section 7.
BalanceAnswersMatchChain ==
    LET held == Indexed.held
        holding == {w \in Wallets : held[w] > 0}
    IN Resting =>
        /\ HolderRows = {<<w, held[w]>> : w \in holding}
        /\ \A w \in Wallets : HolderBalance(w) = held[w] /\ PortfolioRows(w) = {held[w]} \ {0}
        /\ TokenView = IF holding = {} THEN {}
                       ELSE {[supply |-> SumFunction(held), holderCount |-> Cardinality(holding)]}

\* Between two ticks frozenWallets has the wallets that are frozen, for the token
\* and for all of them, in the contracts at the cursor's block, whatever amounts
\* and lockups were set in between, and the freezes of a wallet say the same.
FrozenWalletsMatchChain ==
    LET forToken == {w \in Wallets : Indexed.frozen[w]}
        forAll == {w \in Wallets : Indexed.walletFrozen[w]}
    IN Resting =>
        /\ FrozenRows(TRUE) = forToken \X {"token"}
        /\ FrozenRows(FALSE) = (forToken \X {"token"}) \cup (forAll \X {"global"})
        /\ \A w \in Wallets :
              FreezesOf(w) = {<<"token", w \in forToken>>, <<"global", w \in forAll>>}

\* Between two ticks an asset is there once it is registered, paused as it is in
\* the contracts at the cursor's block, with their uri or (after a registration
\* alone, whose log has none) without one.
AssetAnswersMatchChain ==
    Resting =>
        /\ (AssetView # {}) = Indexed.registered
        /\ \A view \in AssetView : view.paused = Indexed.paused /\ view.uri \in {0, Indexed.uri}

\* Between two ticks the identity of every wallet, through rebinding and
\* recovery, is the one it has in the contracts at the cursor's block, and a list
\* of identities leaves out none of them unless it is as long as the limit.
IdentityAnswersMatchChain ==
    LET known == {w \in Wallets : Bound(Indexed, w)}
    IN Resting =>
        /\ \A w \in Wallets :
              IdentityView(w) = {[identity |-> Indexed.identity[w],
                                  country |-> Indexed.country[w]]} \ {NoIdentity}
        /\ \A limit \in Limits : \A list \in IdentityLists(limit) :
              list \subseteq known /\ (list = known \/ Cardinality(list) = limit)

\* A list of events, however the indexer writes on while it is collected, is in
\* the order of the chain and has only what was asked for (of a tokenId and an
\* address, of the tokenId).  It leaves out nothing that was recorded before,
\* unless newer events fill the limit, but what PassedOver names, and has none of
\* that.  The events of a token are its own, and leave out none of those unless
\* the limit is filled or the newer events of all tokens fill the overscan.
EventAnswersComplete ==
    Answered({"events", "protocolEvents"}) =>
        /\ \A i, j \in 1..Len(answer) : i < j => answer[i] # answer[j] /\ NotAfter(answer[i], answer[j])
        /\ \A i \in 1..Len(answer) :
              LET log == LogAt(answer[i])
              IN AskedFor(Heeded(request), log) /\ ~PassedOver(request, log)
        /\ \A id \in due \ Range(answer) :
              \/ PassedOver(request, LogAt(id))
              \/ Len(answer) = request.limit /\ \A i \in 1..Len(answer) : NotAfter(id, answer[i])
        /\ request.query = "events" =>
              LET listed == TokenEvents(request.limit)
                  own == {id \in due : OfToken(LogAt(id))}
              IN /\ \A id \in listed : IsTransfer(LogAt(id)) /\ OfToken(LogAt(id))
                 /\ \A id \in own \ listed :
                       \/ Cardinality(listed) = request.limit
                       \/ Cardinality(NewerTransfers(id)) >= Overscan * request.limit

\* A list of the identities of a country, however the indexer writes on while it
\* is collected, misses no wallet that had that country all along, unless the
\* limit is reached: what others left in the index hides nobody.
CountryAnswersMissNobody ==
    Answered({"identities"}) => Len(answer) = request.limit \/ due \subseteq Range(answer)
=============================================================================
