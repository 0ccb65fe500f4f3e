------------------------------ MODULE Indexer ------------------------------
(* The indexer process: a backfill when it starts, then a poll at every     *)
(* tick, each log handled put by put and the cursor written after it.  The  *)
(* process may be killed between any two puts; the database survives.       *)
EXTENDS EventHandlers

CONSTANTS
    StartBlock,     \* START_BLOCK, 0 when it is not set
    ChunkSize,      \* blocks of a backfill query, less one
    MaxRetries,     \* of a backfill query
    MaxErrors,      \* bound: the RPC calls that fail
    MaxCrashes      \* bound: the times the process is killed

ASSUME IndexerAssumption ==
    /\ StartBlock \in Nat /\ ChunkSize \in Nat /\ MaxRetries \in Nat
    /\ MaxErrors \in Nat /\ MaxCrashes \in Nat

VARIABLES
    db,         \* the database
    phase,      \* what the process is doing
    fromBlock,  \* the first block of the backfill that is not queried
    latest,     \* the latest block, as last asked for
    attempt,    \* of the backfill query
    logs,       \* the logs of the last query that are not handled
    current,    \* the log in hand, NoLog if there is none
    puts,       \* what is still to be written for it
    errors,     \* the RPC calls that failed
    crashes     \* the times the process was killed

process == <<phase, fromBlock, latest, attempt, logs, current, puts>>
vars == <<chain, db, process, errors, crashes>>

NoLog == <<0, 0>>

\* backfill: about to query a chunk; chunk: handling its logs; idle: between
\* two ticks; poll: handling a poll's logs.
Phases == {"down", "backfill", "chunk", "idle", "poll"}

Cursor == db.cursor[OnlyRow]
SetCursor(block) == db' = After(db, Put("cursor", OnlyRow, block))

\* FilterLogs: what the blocks first..last hold.
LogsIn(first, last) ==
    {id \in LogIds :
        /\ first <= id[1] /\ id[1] <= last /\ id[1] <= Len(chain)
        /\ id[2] <= Len(chain[id[1]].logs)}

NotAfter(id, other) == id[1] < other[1] \/ (id[1] = other[1] /\ id[2] <= other[2])

Least(a, b) == IF a <= b THEN a ELSE b

\* An empty database, and the process not started.
StoreInit ==
    /\ db = EmptyStore
    /\ phase = "down"
    /\ fromBlock = 0 /\ latest = 0 /\ attempt = 0
    /\ logs = {} /\ current = NoLog /\ puts = <<>>
    /\ errors = 0 /\ crashes = 0

Init == chain = <<>> /\ StoreInit

-----------------------------------------------------------------------------
(* Run and backfill *)

Error ==
    /\ errors < MaxErrors
    /\ errors' = errors + 1

\* Mutant: the cursor is not looked at.
BackfillFromStart == StartBlock

BackfillFrom == IF Cursor > 0 /\ Cursor + 1 > StartBlock THEN Cursor + 1 ELSE StartBlock

\* An asset recorded without its name gets it.
Enriched ==
    IF Asset(db).known THEN After(db, PutAsset([Asset(db) EXCEPT !.named = TRUE])[1]) ELSE db

\* enrichAssets, whose calls may fail; then the latest block is asked for once,
\* and nothing to fetch ends the backfill.
Start ==
    /\ phase = "down"
    /\ db' \in {db, Enriched}
    /\ fromBlock' = BackfillFrom
    /\ latest' = Len(chain)
    /\ phase' = IF BackfillFrom = 0 \/ BackfillFrom > Len(chain) THEN "idle" ELSE "backfill"
    /\ attempt' = 0
    /\ UNCHANGED <<chain, logs, current, puts, errors, crashes>>

\* BlockNumber fails: the backfill is given up.
StartFails ==
    /\ phase = "down"
    /\ BackfillFrom # 0
    /\ db' \in {db, Enriched}
    /\ Error
    /\ phase' = "idle"
    /\ UNCHANGED <<chain, fromBlock, latest, attempt, logs, current, puts, crashes>>

ChunkEnd == Least(fromBlock + ChunkSize, latest)

FetchChunk ==
    /\ phase = "backfill"
    /\ logs' = LogsIn(fromBlock, ChunkEnd)
    /\ phase' = "chunk"
    /\ UNCHANGED <<chain, db, fromBlock, latest, attempt, current, puts, errors, crashes>>

\* Mutant: one attempt too many.
FetchChunkFailsOnceMore ==
    /\ phase = "backfill"
    /\ Error
    /\ IF attempt <= MaxRetries
       THEN attempt' = attempt + 1 /\ UNCHANGED phase
       ELSE phase' = "idle" /\ attempt' = 0
    /\ UNCHANGED <<chain, db, fromBlock, latest, logs, current, puts, crashes>>

\* FilterLogs fails: once more, or the backfill is given up.
FetchChunkFails ==
    /\ phase = "backfill"
    /\ Error
    /\ IF attempt < MaxRetries
       THEN attempt' = attempt + 1 /\ UNCHANGED phase
       ELSE phase' = "idle" /\ attempt' = 0
    /\ UNCHANGED <<chain, db, fromBlock, latest, logs, current, puts, crashes>>

\* No cursor is written for what the chunk covered.
ChunkDone ==
    /\ phase = "chunk"
    /\ logs = {} /\ current = NoLog
    /\ fromBlock' = fromBlock + ChunkSize + 1
    /\ phase' = IF fromBlock' > latest THEN "idle" ELSE "backfill"
    /\ attempt' = 0
    /\ UNCHANGED <<chain, db, latest, logs, current, puts, errors, crashes>>

-----------------------------------------------------------------------------
(* pollNewBlocks, at a tick *)

PollFrom == Cursor + 1

\* Without a cursor, and without a new block, the tick passes.
Poll ==
    /\ phase = "idle"
    /\ Cursor > 0
    /\ PollFrom <= Len(chain)
    /\ latest' = Len(chain)
    /\ logs' = LogsIn(PollFrom, Len(chain))
    /\ phase' = "poll"
    /\ UNCHANGED <<chain, db, fromBlock, attempt, current, puts, errors, crashes>>

\* BlockNumber or FilterLogs fails: the next tick tries again.
PollFails ==
    /\ phase = "idle"
    /\ Error
    /\ UNCHANGED <<chain, db, process, crashes>>

\* Mutant: the cursor goes to the block that is the latest by now.
PollDoneAtTip ==
    /\ phase = "poll"
    /\ logs = {} /\ current = NoLog
    /\ SetCursor(Len(chain))
    /\ phase' = "idle"
    /\ UNCHANGED <<chain, fromBlock, latest, attempt, logs, current, puts, errors, crashes>>

\* Mutant: a poll that found no logs leaves the cursor.
PollDoneIfLogs ==
    /\ phase = "poll"
    /\ logs = {} /\ current = NoLog
    /\ phase' = "idle"
    /\ UNCHANGED <<chain, db, fromBlock, latest, attempt, logs, current, puts, errors, crashes>>

PollDone ==
    /\ phase = "poll"
    /\ logs = {} /\ current = NoLog
    /\ SetCursor(latest)
    /\ phase' = "idle"
    /\ UNCHANGED <<chain, fromBlock, latest, attempt, logs, current, puts, errors, crashes>>

-----------------------------------------------------------------------------
(* handleLog *)

LogAt(id) == chain[id[1]].logs[id[2]]

\* The next log, in the order of blocks and of logs in a block; named: whether the
\* contracts answered when asked for the name of an asset.
TakeLog ==
    /\ phase \in {"chunk", "poll"}
    /\ current = NoLog
    /\ \E id \in logs, named \in BOOLEAN :
          /\ \A other \in logs : NotAfter(id, other)
          /\ current' = id
          /\ puts' = HandlerPuts(db, LogAt(id), id, named)
          /\ logs' = logs \ {id}
    /\ UNCHANGED <<chain, db, phase, fromBlock, latest, attempt, errors, crashes>>

WriteNext ==
    /\ current # NoLog
    /\ puts # <<>>
    /\ db' = After(db, Head(puts))
    /\ puts' = Tail(puts)
    /\ UNCHANGED <<chain, phase, fromBlock, latest, attempt, logs, current, errors, crashes>>

\* Mutant: the cursor is left to the end of the poll.
FinishLogLater ==
    /\ current # NoLog
    /\ puts = <<>>
    /\ current' = NoLog
    /\ UNCHANGED <<chain, db, phase, fromBlock, latest, attempt, logs, puts, errors, crashes>>

\* The cursor goes to the block of the log, whether or not it has more logs.
FinishLog ==
    /\ current # NoLog
    /\ puts = <<>>
    /\ SetCursor(current[1])
    /\ current' = NoLog
    /\ UNCHANGED <<chain, phase, fromBlock, latest, attempt, logs, puts, errors, crashes>>

-----------------------------------------------------------------------------
\* A signal or a failure of the host: what is not in the database is gone.
Crash ==
    /\ phase # "down"
    /\ crashes < MaxCrashes
    /\ crashes' = crashes + 1
    /\ phase' = "down"
    /\ fromBlock' = 0 /\ latest' = 0 /\ attempt' = 0
    /\ logs' = {} /\ current' = NoLog /\ puts' = <<>>
    /\ UNCHANGED <<chain, db, errors>>

MineBlock(kinds) ==
    /\ NewBlock(kinds)
    /\ UNCHANGED <<db, process, errors, crashes>>

\* What the process does by itself when its calls are answered.
Work ==
    \/ Start \/ FetchChunk \/ ChunkDone
    \/ Poll \/ PollDone
    \/ TakeLog \/ WriteNext \/ FinishLog

Fail == StartFails \/ FetchChunkFails \/ PollFails \/ Crash

Next == Work \/ Fail \/ MineBlock(Traffic)

Spec == Init /\ [][Next]_vars

\* The ticker, the loops and whoever restarts the process keep it going; the
\* chain owes nothing, and calls stop failing.
FairSpec == Spec /\ WF_vars(Work)

-----------------------------------------------------------------------------
(* What the database holds *)

TypeOK ==
    /\ chain \in Seq(Block) /\ Len(chain) <= MaxBlocks
    /\ db \in Store
    /\ phase \in Phases
    /\ fromBlock \in Nat /\ latest \in 0..MaxBlocks /\ attempt \in 0..MaxRetries
    /\ logs \subseteq LogIds /\ current \in LogIds \cup {NoLog}
    /\ puts \in Seq(Puts)
    /\ errors \in 0..MaxErrors /\ crashes \in 0..MaxCrashes

Resting == phase = "idle"
Indexed == StateAt(Cursor)

\* "The last indexed block number": between two ticks every log from the start
\* block up to the cursor is recorded, and none after it.
CursorBlocksAreIndexed ==
    Resting =>
        \A id \in LogsIn(StartBlock, Len(chain)) :
            LeavesEvent(LogAt(id)) => (db.event[id] <=> id[1] <= Cursor)

\* The logs a restart would handle.
Ahead == {id \in LogsIn(Cursor + 1, Len(chain)) : StartBlock <= id[1]}

\* After any number of kills: a log recorded beyond the cursor is the very first
\* log beyond it, so a restart handles at most one log a second time.
AtMostOneLogAhead == \A id, other \in Ahead : db.event[id] => NotAfter(id, other)

\* What was indexed is not indexed again: no restart takes the cursor back.
CursorNeverGoesBack == [][db'.cursor[OnlyRow] >= Cursor]_vars

\* After any number of kills: whatever a key of the two indexes of protocol
\* events leads to is there, so a query that goes by an index reads it.
EventIndexResolves ==
    \A id \in LogIds : (db.byToken[id] \/ db.byAddress[id] # NoOne) => db.event[id]

\* Once something is indexed, every block of the chain is in time.
KeepsUp == \A b \in 1..MaxBlocks : (Cursor > 0 /\ Len(chain) >= b) ~> (Cursor >= b)

\* Run "backfills historical events, then subscribes to new ones": whatever
\* the chain held when it started, each of its blocks is indexed in time.
IndexesTheChain == \A b \in 1..MaxBlocks : (Len(chain) >= b) ~> (Cursor >= b)
=============================================================================
