---------------------------- MODULE CrawlerService ----------------------------
(***************************************************************************)
(* The watchdog's block indexer: the process that runs                     *)
(* CrawlerService.run(), the AppState row and the committed work in MySQL, *)
(* and the chain it follows.  Blocks are fetched in chunks; one chunk is   *)
(* one database transaction, at the end of which, and before the commit,   *)
(* every event crawler ("handler") sends the notifications it gathered.    *)
(* Any RPC, database or handler post-processing error rejects run(), which *)
(* only a new process, started by etc/run.sh, repeats.                     *)
(*                                                                         *)
(* A definition introduced by "As a mistake" is a plausible bug in the one *)
(* after it, which it would replace; no action uses it, and the README     *)
(* says which property it breaks.                                          *)
(***************************************************************************)
EXTENDS Integers, FiniteSets

CONSTANTS
    BLOCK_HISTORY,      \* CrawlerService.BLOCK_HISTORY
    BLOCK_CHUNK,        \* CrawlerService.BLOCK_CHUNK
    FirstBlock,         \* CrawlerState.lastFetchedBlock of a new row
    NumHandlers,        \* how many event crawlers are injected
    MaxFinalized,       \* bound: the highest block the chain finalizes
    MaxFailures           \* bound: how often a process is made to fail

ASSUME CrawlerAssumption ==
    /\ BLOCK_HISTORY \in Nat
    /\ BLOCK_CHUNK \in Nat \ {0}
    /\ FirstBlock \in Nat
    /\ NumHandlers \in Nat
    /\ MaxFinalized \in Nat
    /\ MaxFailures \in Nat

NoRow == -1                                 \* findOne(CrawlerState.ID) is null
Handlers == 1..NumHandlers                  \* in the order they are injected
Block == (FirstBlock + 1)..MaxFinalized     \* every block that can be taken

VARIABLES
    finalized,          \* chain: number of the finalized head
    row,                \* database: AppState.value.lastFetchedBlock, or NoRow
    handled,            \* database: blocks of committed chunks
    pc,                 \* where run() is
    inserting,          \* the un-awaited insert of a new row is under way
    lastFetched,        \* memory: _appState.value.lastFetchedBlock
    target,             \* memory: _finalizedBlockNumber
    chunkStart,         \* memory: blockNumber when the transaction was opened
    lastBlockToIndex,   \* memory: the end of the open chunk
    turn,               \* memory: the handler whose postProcess is next
    pending,            \* memory: blocks each handler holds notifications of
    failed,             \* memory: blocks of this chunk on which a handler threw
    sent,               \* world: times a handler sent what a block gave it
    lost,               \* history: committed blocks on which a handler threw
    failures              \* history: how often the process failed

chain == <<finalized>>
database == <<row, handled>>
memory == <<lastFetched, target, chunkStart, lastBlockToIndex>>
gathered == <<turn, pending, failed>>
vars == <<finalized, row, handled, pc, inserting, lastFetched, target,
          chunkStart, lastBlockToIndex, turn, pending, failed, sent, lost,
          failures>>

MaxOf(a, b) == IF a >= b THEN a ELSE b
MinOf(a, b) == IF a <= b THEN a ELSE b

Nothing == [h \in Handlers |-> {}]

(* The durable position of the indexer.  *)
Cursor == IF row = NoRow THEN FirstBlock ELSE row

(* The blocks of the open transaction.  *)
Batch == IF pc = "chunk" THEN (chunkStart + 1)..lastFetched ELSE {}

TypeOK ==
    /\ finalized \in 0..MaxFinalized
    /\ row \in {NoRow} \cup FirstBlock..MaxOf(FirstBlock, MaxFinalized)
    /\ handled \subseteq Block
    /\ pc \in {"down", "init", "loop", "chunk", "failed"}
    /\ inserting \in BOOLEAN
    /\ lastFetched \in Nat
    /\ target \in 0..MaxFinalized
    /\ chunkStart \in Nat
    /\ lastBlockToIndex \in Nat
    /\ turn \in 1..(NumHandlers + 1)
    /\ pending \in [Handlers -> SUBSET Block]
    /\ failed \in [Handlers -> SUBSET Block]
    /\ sent \in [Handlers -> [Block -> Nat]]
    /\ lost \in [Handlers -> SUBSET Block]
    /\ failures \in Nat

Init ==
    /\ finalized \in 0..MaxFinalized
    /\ row = NoRow
    /\ handled = {}
    /\ pc = "down"
    /\ inserting = FALSE
    /\ lastFetched = FirstBlock
    /\ target = 0
    /\ chunkStart = FirstBlock
    /\ lastBlockToIndex = FirstBlock
    /\ turn = 1
    /\ pending = Nothing
    /\ failed = Nothing
    /\ sent = [h \in Handlers |-> [b \in Block |-> 0]]
    /\ lost = Nothing
    /\ failures = 0

-----------------------------------------------------------------------------
(* The chain finalizes some more blocks.  *)
Finalize ==
    /\ \E n \in (finalized + 1)..MaxFinalized : finalized' = n
    /\ UNCHANGED <<database, pc, inserting, memory, gathered, sent, lost, failures>>

(* Where a new process takes up.  As a mistake: at the default state.  *)
ResumeAtDefault == FirstBlock
ResumeAt == Cursor

(* A process is started: _init reads the row, or persists a new one and    *)
(* does not wait for the flush.                                            *)
Start ==
    /\ pc = "down"
    /\ pc' = "init"
    /\ lastFetched' = ResumeAt
    /\ inserting' = (row = NoRow)
    /\ UNCHANGED <<chain, database, target, chunkStart, lastBlockToIndex,
                   gathered, sent, lost, failures>>

(* The insert reaches the database.  Its values were computed before run() *)
(* moved lastFetchedBlock.                                                 *)
InsertRow ==
    /\ inserting
    /\ row = NoRow
    /\ row' = FirstBlock
    /\ inserting' = FALSE
    /\ UNCHANGED <<chain, handled, pc, memory, gathered, sent, lost, failures>>

(* How far run() steps over old blocks.  As a mistake: one block further.  *)
TooOldByOne == finalized - BLOCK_HISTORY + 1
TooOld == finalized - BLOCK_HISTORY

(* run() learns the finalized head and steps over what is too old.  *)
FetchHead ==
    /\ pc = "init"
    /\ pc' = "loop"
    /\ target' = finalized
    /\ lastFetched' = MaxOf(lastFetched, TooOld)
    /\ UNCHANGED <<chain, database, inserting, chunkStart, lastBlockToIndex,
                   gathered, sent, lost, failures>>

(* The last block of the next chunk.  As a mistake: however many there are. *)
ChunkEndUnlimited == target
ChunkEnd == MinOf(target, lastFetched + BLOCK_CHUNK)

(* The loop finds blocks to take: _fetchBlocksChunk opens a transaction.  *)
BeginChunk ==
    /\ pc = "loop"
    /\ target > lastFetched
    /\ pc' = "chunk"
    /\ chunkStart' = lastFetched
    /\ lastBlockToIndex' = ChunkEnd
    /\ UNCHANGED <<chain, database, inserting, lastFetched, target, gathered,
                   sent, lost, failures>>

(* The chunk has another block to fetch.  As a mistake: one too many.  *)
MoreInChunkInclusive == lastFetched <= lastBlockToIndex
MoreInChunk == lastFetched < lastBlockToIndex

(* _fetchNextNewBlock: every handler sees the events of the block.  What a *)
(* handler throws is swallowed by tryHandle; it may have gathered          *)
(* something of the block before it threw.                                 *)
FetchNextNewBlock ==
    /\ pc = "chunk"
    /\ MoreInChunk
    /\ \E threw \in SUBSET Handlers : \E silent \in SUBSET threw :
         /\ pending' = [h \in Handlers |->
                          IF h \in silent THEN pending[h]
                          ELSE pending[h] \cup {lastFetched + 1}]
         /\ failed' = [h \in Handlers |->
                          IF h \in threw THEN failed[h] \cup {lastFetched + 1}
                          ELSE failed[h]]
    /\ lastFetched' = lastFetched + 1
    /\ UNCHANGED <<chain, database, pc, inserting, target, chunkStart,
                   lastBlockToIndex, turn, sent, lost, failures>>

(* What the aggregator of a handler holds once it has sent.  As a mistake: *)
(* what it held.                                                           *)
HeldWhenSentUncleared == pending[turn]
HeldWhenSent == {}

(* When the blocks of the chunk are fetched, handler.postProcess(): the     *)
(* next handler sends what it gathered, while the transaction is open.     *)
PostProcess ==
    /\ pc = "chunk"
    /\ ~MoreInChunk
    /\ turn \in Handlers
    /\ sent' = [sent EXCEPT ![turn] = [b \in Block |->
                  IF b \in pending[turn] THEN @[b] + 1 ELSE @[b]]]
    /\ pending' = [pending EXCEPT ![turn] = HeldWhenSent]
    /\ turn' = turn + 1
    /\ UNCHANGED <<chain, database, pc, inserting, memory, failed, lost, failures>>

(* Every handler has post-processed.  As a mistake: nobody waits for them. *)
AllPostProcessedUnchecked == TRUE
AllPostProcessed == turn \notin Handlers

(* The position the transaction stores.  As a mistake: the one it found.   *)
RowToCommitUntouched == row
RowToCommit == lastFetched

(* Every handler is done: the transaction commits the row, inserting it if *)
(* it is not there yet, with everything the handlers stored.               *)
Commit ==
    /\ pc = "chunk"
    /\ ~MoreInChunk
    /\ AllPostProcessed
    /\ pc' = "loop"
    /\ row' = RowToCommit
    /\ handled' = handled \cup Batch
    /\ lost' = [h \in Handlers |-> lost[h] \cup failed[h]]
    /\ turn' = 1
    /\ failed' = Nothing
    /\ UNCHANGED <<chain, inserting, memory, pending, sent, failures>>

(* What a process leaves behind when it ends: nothing of its memory.  *)
Forget ==
    /\ pc' = "down"
    /\ inserting' = FALSE
    /\ pending' = Nothing
    /\ failed' = Nothing
    /\ lastFetched' = FirstBlock
    /\ target' = 0
    /\ chunkStart' = FirstBlock
    /\ lastBlockToIndex' = FirstBlock
    /\ turn' = 1
    /\ UNCHANGED <<chain, database, sent, lost>>

(* run() has caught up with the head it read: the process exits, with the  *)
(* insert if that is still on its way.                                     *)
Stop ==
    /\ pc = "loop"
    /\ target <= lastFetched
    /\ Forget
    /\ UNCHANGED failures

(* The insert meets the row the first chunk has stored already: its        *)
(* rejection is nobody's, and ends the process.                            *)
InsertFails ==
    /\ inserting
    /\ row # NoRow
    /\ failures' = failures + 1
    /\ Forget

(* An RPC or database error, or an exception of a postProcess: run() is    *)
(* rejected and the open transaction rolled back; what was sent is sent.   *)
(* CrawlerApp waits for the tasker, so the process lives on for a while.   *)
Fail ==
    /\ pc \in {"init", "loop", "chunk"}
    /\ failures < MaxFailures
    /\ failures' = failures + 1
    /\ pc' = "failed"
    /\ pending' = Nothing
    /\ failed' = Nothing
    /\ turn' = 1
    /\ UNCHANGED <<chain, database, inserting, memory, sent, lost>>

(* The process of a rejected run() ends.  *)
Exit ==
    /\ pc = "failed"
    /\ Forget
    /\ UNCHANGED failures

Process == \/ Start \/ FetchHead \/ BeginChunk \/ FetchNextNewBlock
           \/ PostProcess \/ Commit \/ Stop \/ Exit

Next == Finalize \/ Process \/ InsertRow \/ InsertFails \/ Fail

Spec == Init /\ [][Next]_vars

(* A process that can take a step takes it, the database answers, and      *)
(* etc/run.sh starts a process that ended again.                           *)
FairSpec == Spec /\ WF_vars(Process) /\ WF_vars(InsertRow \/ InsertFails)

-----------------------------------------------------------------------------
(* A block is handed to the handlers in at most one committed transaction: *)
(* what a chunk takes was never committed before, by this process or by an *)
(* earlier one.                                                            *)
NeverTwice == Batch \cap handled = {}

(* The cursor never passes a block unless it was handled or was, when it   *)
(* was stepped over, more than BLOCK_HISTORY - 1 blocks under the head: no *)
(* crash, rollback or restart opens a gap.                                 *)
NoSilentGap ==
    \A b \in (FirstBlock + 1)..Cursor :
        b \in handled \/ b <= finalized - BLOCK_HISTORY

(* The row never claims less than was committed.  *)
CursorCoversHandled == \A b \in handled : b <= Cursor

(* Every handler has sent what each committed block gave it, except where  *)
(* it threw on that block: notifications are sent before the commit.       *)
SentBeforeCommit ==
    \A h \in Handlers : \A b \in handled : sent[h][b] >= 1 \/ b \in lost[h]

(* A notification is repeated only by a process that failed in between.    *)
RepeatNeedsFailure == \A h \in Handlers : \A b \in Block : sent[h][b] <= failures + 1

(* Once the chunk of a block is committed, nothing is sent of it again.    *)
SilentOnceCommitted ==
    [][\A h \in Handlers : \A b \in handled : sent'[h][b] = sent[h][b]]_vars

(* The commits, seen from the database, are the steps of BlockLedger.      *)
Ledger == INSTANCE BlockLedger WITH cursor <- Cursor
LedgerSpec == Ledger!Spec

(* Whatever is finalized is taken in the end, however the process fails,   *)
(* is stopped and restarted in between: the cursor comes up with the head  *)
(* again and again.  (The chain stops at MaxFinalized at the latest.)      *)
CatchesUp == []<>(Cursor >= finalized)
=============================================================================
