------------------------- MODULE CrawlerServiceProofs -------------------------
(***************************************************************************)
(* The safety of the block indexer for every BLOCK_HISTORY, BLOCK_CHUNK,   *)
(* number of handlers, chain and number of failures, from one inductive    *)
(* invariant; that it implements BlockLedger; and what is left of it when  *)
(* another user of the process flushes the same entity manager.            *)
(***************************************************************************)
EXTENDS CommonEntityManager, TLAPS

USE DEF ResumeAt, TooOld, ChunkEnd, MoreInChunk, HeldWhenSent,
        AllPostProcessed, RowToCommit

InChunk == pc = "chunk"
Fetched == lastFetched >= lastBlockToIndex

(* Where the loop stands: at the cursor, or past blocks that are too old.  *)
Position ==
    /\ pc = "init" => lastFetched = Cursor
    /\ pc = "loop" => \/ lastFetched = Cursor
                      \/ /\ lastFetched > Cursor
                         /\ lastFetched <= finalized - BLOCK_HISTORY
    /\ target <= finalized

(* The open chunk lies above the cursor and below the head that was read.  *)
ChunkBounds ==
    InChunk =>
         /\ Cursor <= chunkStart
         /\ chunkStart = Cursor \/ chunkStart <= finalized - BLOCK_HISTORY
         /\ chunkStart <= lastFetched
         /\ chunkStart < lastBlockToIndex
         /\ lastFetched <= lastBlockToIndex
         /\ lastBlockToIndex <= target
         /\ lastBlockToIndex <= chunkStart + BLOCK_CHUNK

(* The same without the stored row, which others may write.  *)
ChunkShape ==
    InChunk =>
         /\ FirstBlock <= chunkStart
         /\ chunkStart <= lastFetched
         /\ chunkStart < lastBlockToIndex
         /\ lastFetched <= lastBlockToIndex
         /\ lastBlockToIndex <= target

(* What a handler holds is of the open chunk; a handler whose turn is over *)
(* holds nothing, and after the last one no handler does.                  *)
PendingOfChunk ==
    /\ \A h \in Handlers : pending[h] \subseteq Batch
    /\ \A h \in Handlers : h < turn => pending[h] = {}
    /\ ~(InChunk /\ Fetched) => turn = 1
    /\ ~InChunk => failed = Nothing

(* Every block of the chunk is still held, was sent, or made its handler   *)
(* throw.                                                                  *)
ChunkAccounted ==
    InChunk => \A h \in Handlers : \A b \in Batch :
                  b \in pending[h] \/ b \in failed[h] \/ sent[h][b] >= 1

(* A block has one sending more than there were failures only if it was    *)
(* sent for the chunk that is open or committed.                           *)
SendBound ==
    \A h \in Handlers : \A b \in Block :
        /\ sent[h][b] <= failures + 1
        /\ b \notin handled \cup Batch => sent[h][b] <= failures
        /\ b \in pending[h] => sent[h][b] <= failures

SafetyInv == TypeOK /\ Position /\ ChunkBounds /\ CursorCoversHandled /\ NoSilentGap

SendInv == PendingOfChunk /\ ChunkAccounted /\ SentBeforeCommit /\ SendBound

IInv == SafetyInv /\ SendInv

(* The initial states.  *)
LEMMA InitIInv == Init => IInv
<1> SUFFICES ASSUME Init PROVE IInv
  OBVIOUS
<1> USE CrawlerAssumption
<1>1. TypeOK
  <2>1. Nothing \in [Handlers -> SUBSET Block]
    BY DEF Nothing
  <2>2. sent \in [Handlers -> [Block -> Nat]]
    BY DEF Init
  <2>3. /\ finalized \in 0..MaxFinalized
        /\ row = NoRow
        /\ handled \subseteq Block
        /\ pc = "down"
        /\ inserting \in BOOLEAN
    BY DEF Init
  <2>4. /\ lastFetched \in Nat
        /\ target \in 0..MaxFinalized
        /\ chunkStart \in Nat
        /\ lastBlockToIndex \in Nat
        /\ turn \in 1..(NumHandlers + 1)
        /\ failures \in Nat
    BY DEF Init
  <2>5. pending = Nothing /\ failed = Nothing /\ lost = Nothing
    BY DEF Init
  <2> QED
    BY <2>1, <2>2, <2>3, <2>4, <2>5 DEF TypeOK
<1>2. Position /\ ChunkBounds
  BY DEF Init, Position, ChunkBounds, InChunk
<1>3. CursorCoversHandled /\ NoSilentGap
  BY DEF Init, CursorCoversHandled, NoSilentGap, Cursor
<1>4. SendInv
  BY DEF Init, SendInv, PendingOfChunk, ChunkAccounted, SentBeforeCommit,
         SendBound, InChunk, Nothing
<1> QED
  BY <1>1, <1>2, <1>3, <1>4 DEF IInv, SafetyInv

(* Every step keeps the types.  *)
LEMMA StepTypeOK == SafetyInv /\ [Next]_vars => TypeOK'
<1> SUFFICES ASSUME SafetyInv, [Next]_vars PROVE TypeOK'
  OBVIOUS
<1> USE CrawlerAssumption DEF SafetyInv, TypeOK, NoRow
<1>1. CASE Finalize
  BY <1>1 DEF Finalize, database, memory, gathered
<1>2. CASE Start
  BY <1>2 DEF Start, chain, database, gathered, Cursor, MaxOf
<1>3. CASE FetchHead
  BY <1>3 DEF FetchHead, chain, database, gathered, MaxOf
<1>4. CASE BeginChunk
  BY <1>4 DEF BeginChunk, chain, database, gathered, MinOf
<1>5. CASE FetchNextNewBlock
  <2>1. lastFetched + 1 \in Block
    BY <1>5 DEF FetchNextNewBlock, ChunkBounds, InChunk, Block, Cursor, Position,
                MaxOf
  <2> QED
    BY <1>5, <2>1 DEF FetchNextNewBlock, chain, database
<1>6. CASE PostProcess
  BY <1>6 DEF PostProcess, chain, database, memory, Handlers
<1>7. CASE Commit
  <2>1. Batch \subseteq Block
    BY <1>7 DEF Commit, ChunkBounds, InChunk, Batch, Block, Cursor, MaxOf
  <2>2. row' \in FirstBlock..MaxOf(FirstBlock, MaxFinalized)
    BY <1>7 DEF Commit, ChunkBounds, InChunk, Cursor, MaxOf
  <2> QED
    BY <1>7, <2>1, <2>2 DEF Commit, chain, memory, Nothing
<1>8. CASE Forget /\ failures' \in Nat
  <2>1. Nothing \in [Handlers -> SUBSET Block]
    BY DEF Nothing
  <2>2. /\ lastFetched' \in Nat
        /\ target' \in 0..MaxFinalized
    BY <1>8 DEF Forget
  <2>3. /\ chunkStart' \in Nat
        /\ lastBlockToIndex' \in Nat
        /\ turn' \in 1..(NumHandlers + 1)
    BY <1>8 DEF Forget
  <2>4. /\ pc' \in {"down", "init", "loop", "chunk", "failed"}
        /\ inserting' \in BOOLEAN
    BY <1>8 DEF Forget
  <2>5. UNCHANGED <<finalized, row, handled, sent, lost>>
    BY <1>8 DEF Forget, chain, database
  <2>6. /\ pending' \in [Handlers -> SUBSET Block]
        /\ failed' \in [Handlers -> SUBSET Block]
    BY <1>8, <2>1 DEF Forget
  <2> QED
    BY <1>8, <2>2, <2>3, <2>4, <2>5, <2>6
<1>9. CASE InsertRow
  <2>1. row' \in FirstBlock..MaxOf(FirstBlock, MaxFinalized)
    BY <1>9 DEF InsertRow, MaxOf
  <2> QED
    BY <1>9, <2>1 DEF InsertRow, chain, memory, gathered
<1>10. CASE UNCHANGED vars
  BY <1>10 DEF vars
<1>f. CASE Fail
  <2>1. Nothing \in [Handlers -> SUBSET Block]
    BY DEF Nothing
  <2> QED
    BY <1>f, <2>1 DEF Fail, chain, database, memory
<1> QED
  BY <1>f, <1>1, <1>2, <1>3, <1>4, <1>5, <1>6, <1>7, <1>8, <1>9, <1>10
     DEF Next, Process, Stop, Exit, InsertFails

(* The position of the loop and the bounds of the chunk.  *)
LEMMA StepPosition == SafetyInv /\ [Next]_vars => Position' /\ ChunkBounds'
<1> SUFFICES ASSUME SafetyInv, [Next]_vars PROVE Position' /\ ChunkBounds'
  OBVIOUS
<1> USE CrawlerAssumption
    DEF SafetyInv, TypeOK, NoRow, Position, ChunkBounds, InChunk, Cursor
<1>1. CASE Finalize
  BY <1>1 DEF Finalize, database, memory
<1>2. CASE Start
  BY <1>2 DEF Start, chain, database
<1>3. CASE FetchHead
  BY <1>3 DEF FetchHead, chain, database, MaxOf
<1>4. CASE BeginChunk
  BY <1>4 DEF BeginChunk, chain, database, MinOf
<1>5. CASE FetchNextNewBlock
  BY <1>5 DEF FetchNextNewBlock, chain, database
<1>6. CASE PostProcess
  BY <1>6 DEF PostProcess, chain, database, memory
<1>7. CASE Commit
  BY <1>7 DEF Commit, chain, memory
<1>8. CASE Forget
  BY <1>8 DEF Forget, chain, database
<1>9. CASE InsertRow
  BY <1>9 DEF InsertRow, chain, memory
<1>10. CASE UNCHANGED vars
  BY <1>10 DEF vars
<1>f. CASE Fail
  BY <1>f DEF Fail, chain, database, memory
<1> QED
  BY <1>f, <1>1, <1>2, <1>3, <1>4, <1>5, <1>6, <1>7, <1>8, <1>9, <1>10
     DEF Next, Process, Stop, Exit, InsertFails

(* A block stays as deep under a head that moves on.  *)
LEMMA DeeperStays ==
    ASSUME NEW m \in Nat, NEW n \in Nat, n > m, NEW b \in Int, NEW k \in Nat,
           b <= m - k
    PROVE  b <= n - k
  OBVIOUS

(* The cursor covers what is committed, and leaves no gap behind it.  Only *)
(* Commit moves it, and only Commit adds to what is committed.             *)
LEMMA StepLedger == SafetyInv /\ [Next]_vars => CursorCoversHandled' /\ NoSilentGap'
<1> SUFFICES ASSUME SafetyInv, [Next]_vars
             PROVE  CursorCoversHandled' /\ NoSilentGap'
  OBVIOUS
<1> USE CrawlerAssumption DEF SafetyInv, CursorCoversHandled, NoSilentGap
<1>1. CASE Commit
  <2>1. /\ chunkStart \in Nat /\ lastFetched \in Nat /\ Cursor \in Nat
        /\ finalized \in Nat
        /\ Cursor <= chunkStart /\ chunkStart <= lastFetched
        /\ chunkStart = Cursor \/ chunkStart <= finalized - BLOCK_HISTORY
        /\ Batch = (chunkStart + 1)..lastFetched
    BY <1>1 DEF Commit, TypeOK, ChunkBounds, InChunk, Cursor, NoRow, Batch
  <2>2. Cursor' = lastFetched /\ handled' = handled \cup Batch /\ finalized' = finalized
    BY <1>1, <2>1 DEF Commit, Cursor, NoRow, chain
  <2>3. handled \subseteq Nat
    BY DEF TypeOK, Block
  <2>4. ASSUME NEW b \in handled' PROVE b <= Cursor'
    BY <2>1, <2>2, <2>3, <2>4
  <2>5. ASSUME NEW b \in (FirstBlock + 1)..Cursor'
        PROVE  b \in handled' \/ b <= finalized' - BLOCK_HISTORY
    <3>1. CASE b <= Cursor
      BY <2>1, <2>2, <2>5, <3>1
    <3>2. CASE b > Cursor /\ b <= chunkStart
      BY <2>1, <2>2, <2>5, <3>2
    <3>3. CASE b > chunkStart
      BY <2>1, <2>2, <2>5, <3>3
    <3> QED
      BY <2>1, <2>2, <2>5, <3>1, <3>2, <3>3
  <2> QED
    BY <2>4, <2>5
<1>2. CASE Finalize
  <2>1. finalized' > finalized /\ finalized \in Nat /\ finalized' \in Nat
    BY <1>2 DEF Finalize, TypeOK
  <2>2. Cursor' = Cursor /\ handled' = handled /\ Cursor \in Nat
    BY <1>2 DEF Finalize, database, Cursor, TypeOK, NoRow
  <2>3. ASSUME NEW b \in (FirstBlock + 1)..Cursor
        PROVE  b \in handled \/ b <= finalized' - BLOCK_HISTORY
    <3>1. b \in handled \/ b <= finalized - BLOCK_HISTORY
      BY <2>3
    <3>2. b \in Int /\ BLOCK_HISTORY \in Nat
      BY <2>2, <2>3
    <3> QED
      BY <2>1, <3>1, <3>2, DeeperStays
  <2> QED
    BY <2>2, <2>3
<1>3. CASE InsertRow
  <2>1. UNCHANGED <<finalized, handled>>
    BY <1>3 DEF InsertRow, chain
  <2>2. Cursor' = Cursor
    BY <1>3 DEF InsertRow, Cursor
  <2> QED
    BY <2>1, <2>2
<1>4. CASE UNCHANGED <<finalized, row, handled>>
  BY <1>4 DEF Cursor
<1>5. CASE Start \/ FetchHead \/ BeginChunk
  BY <1>4, <1>5 DEF Start, FetchHead, BeginChunk, chain, database
<1>6. CASE FetchNextNewBlock
  BY <1>4, <1>6 DEF FetchNextNewBlock, chain, database
<1>7. CASE PostProcess
  BY <1>4, <1>7 DEF PostProcess, chain, database
<1>8. CASE Forget
  BY <1>4, <1>8 DEF Forget, chain, database
<1>9. CASE UNCHANGED vars
  BY <1>4, <1>9 DEF vars
<1>f. CASE Fail
  BY <1>4, <1>f DEF Fail, chain, database
<1> QED
  BY <1>f, <1>1, <1>2, <1>3, <1>5, <1>6, <1>7, <1>8, <1>9
     DEF Next, Process, Stop, Exit, InsertFails

LEMMA StepSafety == SafetyInv /\ [Next]_vars => SafetyInv'
  BY StepTypeOK, StepPosition, StepLedger DEF SafetyInv

LEMMA ShapeOfBounds == SafetyInv => ChunkShape
  BY CrawlerAssumption
     DEF SafetyInv, TypeOK, NoRow, ChunkBounds, ChunkShape, Cursor

-----------------------------------------------------------------------------
(* The blocks of an open chunk lie above everything committed.  *)
LEMMA BatchIsFresh == SafetyInv => NeverTwice
<1> SUFFICES ASSUME SafetyInv, NEW b \in Batch, b \in handled PROVE FALSE
  BY DEF NeverTwice
<1>1. Cursor \in Nat /\ chunkStart \in Nat /\ lastFetched \in Nat
  BY CrawlerAssumption DEF SafetyInv, TypeOK, Cursor, NoRow
<1>2. b \in (chunkStart + 1)..lastFetched /\ Cursor <= chunkStart
  BY DEF Batch, SafetyInv, ChunkBounds, InChunk
<1>3. b <= Cursor
  BY DEF SafetyInv, CursorCoversHandled
<1> QED
  BY <1>1, <1>2, <1>3

(* What is held, and whose turn it is.  *)
LEMMA StepPending ==
    TypeOK /\ ChunkShape /\ PendingOfChunk /\ [Next]_vars => PendingOfChunk'
<1> SUFFICES ASSUME TypeOK, ChunkShape, PendingOfChunk, [Next]_vars
             PROVE  PendingOfChunk'
  OBVIOUS
<1>t. TypeOK
  OBVIOUS
<1> USE CrawlerAssumption DEF PendingOfChunk, InChunk, Fetched
<1>1. CASE Finalize
  BY <1>1 DEF Finalize, database, memory, gathered, Batch
<1>2. CASE Start \/ FetchHead
  BY <1>2 DEF Start, FetchHead, gathered, Nothing, Batch
<1>3. CASE BeginChunk
  BY <1>3 DEF BeginChunk, gathered, Batch
<1>4. CASE FetchNextNewBlock
  <2>1. chunkStart \in Nat /\ lastFetched \in Nat /\ chunkStart <= lastFetched
    BY <1>4, <1>t DEF FetchNextNewBlock, ChunkShape, TypeOK
  <2>2. Batch \subseteq Batch' /\ lastFetched + 1 \in Batch'
    BY <1>4, <2>1 DEF FetchNextNewBlock, Batch
  <2>3. \A h \in Handlers : pending'[h] \subseteq pending[h] \cup {lastFetched + 1}
    BY <1>4, <1>t DEF FetchNextNewBlock, TypeOK
  <2>4. ASSUME NEW h \in Handlers PROVE ~(h < 1)
    BY DEF Handlers
  <2>5. turn = 1 /\ lastBlockToIndex \in Nat
    BY <1>4, <1>t DEF FetchNextNewBlock, TypeOK
  <2> QED
    BY <1>4, <2>1, <2>2, <2>3, <2>4, <2>5 DEF FetchNextNewBlock
<1>5. CASE PostProcess
  <2>1. Batch' = Batch
    BY <1>5 DEF PostProcess, memory, Batch
  <2>2. \A h \in Handlers : pending'[h] = IF h = turn THEN {} ELSE pending[h]
    BY <1>5, <1>t DEF PostProcess, TypeOK
  <2>3. turn' = turn + 1 /\ turn \in Nat /\ Handlers \subseteq Nat
    BY <1>5, <1>t DEF PostProcess, Handlers, TypeOK
  <2>4. \A h \in Handlers : h < turn' => h < turn \/ h = turn
    BY <2>3
  <2>5. lastFetched' >= lastBlockToIndex' /\ failed' = failed /\ pc' = "chunk"
    BY <1>5, <1>t DEF PostProcess, memory, TypeOK
  <2> QED
    BY <1>5, <2>1, <2>2, <2>4, <2>5 DEF PostProcess, memory
<1>6. CASE Commit
  <2>1. \A h \in Handlers : pending[h] = {}
    BY <1>6, <1>t DEF Commit, Handlers, TypeOK
  <2> QED
    BY <1>6, <2>1 DEF Commit, Batch
<1>7. CASE Forget
  BY <1>7 DEF Forget, Nothing, Batch
<1>8. CASE InsertRow
  BY <1>8 DEF InsertRow, memory, gathered, Batch
<1>9. CASE UNCHANGED vars
  BY <1>9 DEF vars, Batch
<1>f. CASE Fail
  BY <1>f DEF Fail, Nothing, Batch, Handlers
<1> QED
  BY <1>f, <1>1, <1>2, <1>3, <1>4, <1>5, <1>6, <1>7, <1>8, <1>9
     DEF Next, Process, Stop, Exit, InsertFails

(* Every block of the chunk is accounted for, and so is what is committed. *)
LEMMA StepAccounted ==
    /\ TypeOK /\ ChunkShape
    /\ PendingOfChunk /\ ChunkAccounted /\ SentBeforeCommit
    /\ [Next]_vars
    => ChunkAccounted' /\ SentBeforeCommit'
<1> SUFFICES ASSUME TypeOK, ChunkShape, PendingOfChunk, ChunkAccounted,
                    SentBeforeCommit, [Next]_vars
             PROVE  ChunkAccounted' /\ SentBeforeCommit'
  OBVIOUS
<1>t. TypeOK
  OBVIOUS
<1> USE CrawlerAssumption DEF ChunkAccounted, SentBeforeCommit, InChunk
<1>1. CASE Finalize
  BY <1>1 DEF Finalize, database, memory, gathered, Batch
<1>2. CASE Start \/ FetchHead
  BY <1>2 DEF Start, FetchHead, database, gathered
<1>3. CASE BeginChunk
  BY <1>3, <1>t DEF BeginChunk, database, Batch, TypeOK
<1>4. CASE FetchNextNewBlock
  <2>1. /\ chunkStart \in Nat /\ lastFetched \in Nat /\ chunkStart <= lastFetched
        /\ Batch' \subseteq Batch \cup {lastFetched + 1}
    BY <1>4, <1>t DEF FetchNextNewBlock, ChunkShape, TypeOK, Batch
  <2>2. /\ \A h \in Handlers : pending[h] \subseteq pending'[h] /\ failed[h] \subseteq failed'[h]
        /\ \A h \in Handlers : lastFetched + 1 \in pending'[h] \cup failed'[h]
    BY <1>4, <1>t DEF FetchNextNewBlock, TypeOK
  <2> QED
    BY <1>4, <2>1, <2>2 DEF FetchNextNewBlock, database
<1>5. CASE PostProcess
  <2>1. Batch' = Batch /\ Batch \subseteq Block
    BY <1>5, <1>t DEF PostProcess, memory, Batch, ChunkShape, TypeOK, Block
  <2>2. \A h \in Handlers : pending'[h] = IF h = turn THEN {} ELSE pending[h]
    BY <1>5, <1>t DEF PostProcess, TypeOK
  <2>3. \A h \in Handlers : \A b \in Block :
            /\ sent'[h][b] >= sent[h][b]
            /\ sent'[h][b] \in Nat
            /\ h = turn /\ b \in pending[h] => sent'[h][b] >= 1
    BY <1>5, <1>t DEF PostProcess, TypeOK
  <2>4. ASSUME NEW h \in Handlers, NEW b \in Batch
        PROVE  b \in pending'[h] \/ b \in failed'[h] \/ sent'[h][b] >= 1
    BY <1>5, <1>t, <2>1, <2>2, <2>3, <2>4 DEF PostProcess, TypeOK
  <2>5. ASSUME NEW h \in Handlers, NEW b \in handled
        PROVE  sent'[h][b] >= 1 \/ b \in lost[h]
    BY <1>t, <2>3, <2>5 DEF TypeOK
  <2> QED
    BY <1>5, <2>1, <2>4, <2>5 DEF PostProcess, database
<1>6. CASE Commit
  <2>1. \A h \in Handlers : pending[h] = {}
    BY <1>6, <1>t DEF Commit, PendingOfChunk, Handlers, TypeOK
  <2>2. \A h \in Handlers : lost'[h] = lost[h] \cup failed[h]
    BY <1>6 DEF Commit
  <2> QED
    BY <1>6, <2>1, <2>2 DEF Commit
<1>7. CASE Forget
  BY <1>7 DEF Forget, database
<1>8. CASE InsertRow
  BY <1>8 DEF InsertRow, memory, gathered, Batch
<1>9. CASE UNCHANGED vars
  BY <1>9 DEF vars, Batch
<1>f. CASE Fail
  BY <1>f DEF Fail, database
<1> QED
  BY <1>f, <1>1, <1>2, <1>3, <1>4, <1>5, <1>6, <1>7, <1>8, <1>9
     DEF Next, Process, Stop, Exit, InsertFails

(* Sending is counted once per chunk; a failure raises the bound.  *)
LEMMA StepSendBound ==
    SafetyInv /\ PendingOfChunk /\ SendBound /\ [Next]_vars => SendBound'
<1> SUFFICES ASSUME SafetyInv, PendingOfChunk, SendBound, [Next]_vars PROVE SendBound'
  OBVIOUS
<1>t. TypeOK
  BY DEF SafetyInv
<1>n. \A h \in Handlers : \A b \in Block : sent[h][b] \in Nat /\ failures \in Nat
  BY <1>t DEF TypeOK
<1> USE CrawlerAssumption DEF SendBound
<1>1. CASE Finalize
  BY <1>1 DEF Finalize, database, memory, gathered, Batch
<1>2. CASE Start \/ FetchHead
  BY <1>2 DEF Start, FetchHead, database, gathered, Batch
<1>3. CASE BeginChunk
  BY <1>3, <1>t DEF BeginChunk, database, gathered, Batch, TypeOK
<1>4. CASE FetchNextNewBlock
  <2>1. /\ chunkStart \in Nat /\ lastFetched \in Nat /\ chunkStart <= lastFetched
        /\ Cursor \in Nat /\ Cursor <= chunkStart
    BY <1>4, <1>t DEF FetchNextNewBlock, SafetyInv, ChunkBounds, InChunk, TypeOK,
                      Cursor, NoRow
  <2>2. lastFetched + 1 \notin handled \cup Batch
    BY <1>4, <2>1 DEF FetchNextNewBlock, Batch, SafetyInv, CursorCoversHandled
  <2>3. Batch \subseteq Batch'
    BY <1>4, <2>1 DEF FetchNextNewBlock, Batch
  <2>4. \A h \in Handlers : pending'[h] \subseteq pending[h] \cup {lastFetched + 1}
    BY <1>4, <1>t DEF FetchNextNewBlock, TypeOK
  <2> QED
    BY <1>4, <2>2, <2>3, <2>4 DEF FetchNextNewBlock, database
<1>5. CASE PostProcess
  <2>1. UNCHANGED <<Batch, handled, failures>>
    BY <1>5 DEF PostProcess, memory, database, Batch
  <2>2. \A h \in Handlers : pending'[h] = IF h = turn THEN {} ELSE pending[h]
    BY <1>5, <1>t DEF PostProcess, TypeOK
  <2>3. \A h \in Handlers : \A b \in Block :
            sent'[h][b] = IF h = turn /\ b \in pending[h]
                          THEN sent[h][b] + 1 ELSE sent[h][b]
    BY <1>5, <1>t DEF PostProcess, TypeOK
  <2>4. ASSUME NEW h \in Handlers, NEW b \in Block
        PROVE  /\ sent'[h][b] <= failures + 1
               /\ b \notin handled \cup Batch => sent'[h][b] <= failures
               /\ b \in pending'[h] => sent'[h][b] <= failures
    <3>1. CASE h = turn /\ b \in pending[h]
      <4>1. b \in Batch
        BY <3>1 DEF PendingOfChunk
      <4>2. sent[h][b] <= failures /\ sent'[h][b] = sent[h][b] + 1
        BY <2>3, <3>1
      <4>3. b \notin pending'[h]
        BY <2>2, <3>1
      <4> QED
        BY <1>n, <4>1, <4>2, <4>3
    <3>2. CASE ~(h = turn /\ b \in pending[h])
      <4>1. sent'[h][b] = sent[h][b] /\ (b \in pending'[h] => b \in pending[h])
        BY <2>2, <2>3, <3>2
      <4> QED
        BY <4>1
    <3> QED
      BY <3>1, <3>2
  <2> QED
    BY <2>1, <2>4
<1>6. CASE Commit
  <2>1. handled' \cup Batch' = handled \cup Batch
    BY <1>6 DEF Commit, Batch
  <2> QED
    BY <1>6, <2>1 DEF Commit
<1>7. CASE Forget /\ failures' = failures /\ Batch = {}
  BY <1>7 DEF Forget, database, Nothing, Batch
<1>8. CASE Forget /\ failures' = failures + 1
  <2>1. \A h \in Handlers : pending'[h] = {}
    BY <1>8 DEF Forget, Nothing
  <2>2. sent' = sent
    BY <1>8 DEF Forget
  <2> QED
    BY <1>8, <1>n, <2>1, <2>2
<1>9. CASE InsertRow
  BY <1>9 DEF InsertRow, memory, gathered, Batch
<1>10. CASE UNCHANGED vars
  BY <1>10 DEF vars, Batch
<1>11. CASE Stop \/ Exit
  BY <1>7, <1>11 DEF Stop, Exit, Batch
<1>f. CASE Fail
  <2>1. \A h \in Handlers : pending'[h] = {}
    BY <1>f DEF Fail, Nothing
  <2>2. sent' = sent /\ failures' = failures + 1
    BY <1>f DEF Fail
  <2> QED
    BY <1>n, <2>1, <2>2
<1> QED
  BY <1>f, <1>1, <1>2, <1>3, <1>4, <1>5, <1>6, <1>8, <1>9, <1>10, <1>11
     DEF Next, Process, InsertFails

-----------------------------------------------------------------------------
(* The inductive invariant holds of every reachable state.  *)
THEOREM Invariance == Spec => []IInv
<1>1. IInv /\ [Next]_vars => IInv'
  <2>1. SafetyInv => TypeOK /\ ChunkShape
    BY ShapeOfBounds DEF SafetyInv
  <2> QED
    BY <2>1, StepSafety, StepPending, StepAccounted, StepSendBound DEF IInv, SendInv
<1> QED
  BY InitIInv, <1>1, PTL DEF Spec

(* Type correctness of the indexer.  *)
THEOREM TypeCorrect == Spec => []TypeOK
<1>1. IInv => TypeOK
  BY DEF IInv, SafetyInv
<1> QED
  BY Invariance, <1>1, PTL

(* No block is handed to the handlers in two committed chunks.  *)
THEOREM NeverTwiceAlways == Spec => []NeverTwice
<1>1. IInv => NeverTwice
  BY BatchIsFresh DEF IInv
<1> QED
  BY Invariance, <1>1, PTL

(* The row never moves past an unhandled block that is not too old.  *)
THEOREM NoSilentGapAlways == Spec => []NoSilentGap
<1>1. IInv => NoSilentGap
  BY DEF IInv, SafetyInv
<1> QED
  BY Invariance, <1>1, PTL

(* The stored cursor has passed every block whose chunk was committed.     *)
THEOREM CursorCoversHandledAlways == Spec => []CursorCoversHandled
<1>1. IInv => CursorCoversHandled
  BY DEF IInv, SafetyInv
<1> QED
  BY Invariance, <1>1, PTL

(* What is committed was sent by every handler that did not throw on it.  *)
THEOREM SentBeforeCommitAlways == Spec => []SentBeforeCommit
<1>1. IInv => SentBeforeCommit
  BY DEF IInv, SendInv
<1> QED
  BY Invariance, <1>1, PTL

(* A notification is sent at most once more than the process failed.  *)
THEOREM RepeatNeedsFailureAlways == Spec => []RepeatNeedsFailure
<1>1. IInv => RepeatNeedsFailure
  BY DEF IInv, SendInv, SendBound, RepeatNeedsFailure
<1> QED
  BY Invariance, <1>1, PTL

(* No step sends anything of a committed block: what is held is of the     *)
(* open chunk, and that is disjoint from what is committed.                *)
THEOREM SilentOnceCommittedAlways == Spec => SilentOnceCommitted
<1>1. IInv /\ [Next]_vars
      => \A h \in Handlers : \A b \in handled : sent'[h][b] = sent[h][b]
  <2> SUFFICES ASSUME IInv, [Next]_vars, NEW h \in Handlers, NEW b \in handled
               PROVE  sent'[h][b] = sent[h][b]
    OBVIOUS
  <2>1. TypeOK /\ NeverTwice /\ PendingOfChunk
    BY BatchIsFresh DEF IInv, SafetyInv, SendInv
  <2>2. b \notin pending[h] /\ b \in Block
    BY <2>1 DEF NeverTwice, PendingOfChunk, TypeOK
  <2>3. CASE PostProcess
    BY <2>1, <2>2, <2>3 DEF PostProcess, TypeOK
  <2>4. CASE UNCHANGED sent
    BY <2>4
  <2> QED
    BY <2>3, <2>4 DEF Next, Process, Finalize, Start, FetchHead, BeginChunk,
       FetchNextNewBlock, Commit, Stop, Exit,
       Forget, InsertFails, Fail, InsertRow, vars
<1> QED
  BY Invariance, <1>1, PTL DEF Spec, SilentOnceCommitted

(* The indexer implements BlockLedger: a commit is an Advance, the chain   *)
(* finalizes, and nothing else is seen.                                    *)
THEOREM ImplementsLedger == Spec => LedgerSpec
<1>1. Init => Ledger!Init
  BY DEF Init, Ledger!Init, Cursor, NoRow
<1>2. IInv /\ [Next]_vars => [Ledger!Next]_(Ledger!vars)
  <2> SUFFICES ASSUME IInv, [Next]_vars PROVE [Ledger!Next]_(Ledger!vars)
    OBVIOUS
  <2> USE DEF Ledger!Next, Ledger!vars
  <2>1. CASE Commit
    <3>1. /\ chunkStart \in Cursor..finalized
          /\ lastFetched \in (chunkStart + 1)..finalized
          /\ chunkStart = Cursor \/ chunkStart <= finalized - BLOCK_HISTORY
          /\ lastFetched - chunkStart <= BLOCK_CHUNK
      BY <2>1, CrawlerAssumption DEF Commit, IInv, SafetyInv, TypeOK, Position,
         ChunkBounds, InChunk, Cursor, NoRow
    <3>2. Cursor' = lastFetched /\ handled' = handled \cup (chunkStart + 1)..lastFetched
      BY <2>1 DEF Commit, Cursor, Batch, NoRow, IInv, SafetyInv, TypeOK
    <3>3. finalized' = finalized
      BY <2>1 DEF Commit, chain
    <3>4. Ledger!Advance
      BY <3>1, <3>2, <3>3 DEF Ledger!Advance
    <3> QED
      BY <3>4
  <2>2. CASE Finalize
    BY <2>2 DEF Finalize, Ledger!Finalize, database, Cursor
  <2>3. CASE InsertRow
    BY <2>3 DEF InsertRow, Cursor, chain
  <2>4. CASE UNCHANGED <<finalized, row, handled>>
    BY <2>4 DEF Cursor
  <2>5. CASE Start \/ FetchHead \/ BeginChunk
    BY <2>4, <2>5 DEF Start, FetchHead, BeginChunk, chain, database
  <2>6. CASE FetchNextNewBlock
    BY <2>4, <2>6 DEF FetchNextNewBlock, chain, database
  <2>7. CASE PostProcess
    BY <2>4, <2>7 DEF PostProcess, chain, database
  <2>8. CASE Forget
    BY <2>4, <2>8 DEF Forget, chain, database
  <2>9. CASE UNCHANGED vars
    BY <2>4, <2>9 DEF vars
  <2>10. CASE Fail
    BY <2>4, <2>10 DEF Fail, chain, database
  <2> QED
    BY <2>10, <2>1, <2>2, <2>3, <2>5, <2>6, <2>7, <2>8, <2>9
       DEF Next, Process, Stop, Exit, InsertFails
<1> QED
  BY <1>1, <1>2, Invariance, PTL DEF Spec, LedgerSpec, Ledger!Spec

-----------------------------------------------------------------------------
(* With a flush of another user: the loop and the flush lie under the head *)
(* that was read, but no longer at or above the stored row.                *)
SharedPosition ==
    /\ NeverAhead
    /\ flushing \in {NoFlush} \cup FirstBlock..MaxOf(FirstBlock, finalized)
    /\ lastFetched \in FirstBlock..MaxOf(FirstBlock, finalized)
    /\ target <= finalized
    /\ ChunkShape

SharedInv ==
    TypeOK /\ SharedPosition /\ PendingOfChunk /\ ChunkAccounted /\ SentBeforeCommit

(* A step of the indexer keeps the types, wherever a flush has put the row. *)
LEMMA SharedStepTypeOK == TypeOK /\ SharedPosition /\ [Next]_vars => TypeOK'
<1> SUFFICES ASSUME TypeOK, SharedPosition, [Next]_vars PROVE TypeOK'
  OBVIOUS
<1> USE CrawlerAssumption DEF TypeOK, NoRow
<1>1. CASE Finalize
  BY <1>1 DEF Finalize, database, memory, gathered
<1>2. CASE Start
  BY <1>2 DEF Start, chain, database, gathered, Cursor, MaxOf
<1>3. CASE FetchHead
  BY <1>3 DEF FetchHead, chain, database, gathered, MaxOf
<1>4. CASE BeginChunk
  BY <1>4 DEF BeginChunk, chain, database, gathered, MinOf
<1>5. CASE FetchNextNewBlock
  <2>1. lastFetched + 1 \in Block
    BY <1>5 DEF FetchNextNewBlock, SharedPosition, ChunkShape, InChunk, Block
  <2> QED
    BY <1>5, <2>1 DEF FetchNextNewBlock, chain, database
<1>6. CASE PostProcess
  BY <1>6 DEF PostProcess, chain, database, memory, Handlers
<1>7. CASE Commit
  <2>1. Batch \subseteq Block
    BY <1>7 DEF Commit, SharedPosition, ChunkShape, InChunk, Batch, Block
  <2>2. row' \in FirstBlock..MaxOf(FirstBlock, MaxFinalized)
    BY <1>7 DEF Commit, SharedPosition, MaxOf
  <2> QED
    BY <1>7, <2>1, <2>2 DEF Commit, chain, memory, Nothing
<1>8. CASE Forget /\ failures' \in Nat
  <2>1. Nothing \in [Handlers -> SUBSET Block]
    BY DEF Nothing
  <2>2. /\ lastFetched' \in Nat /\ target' \in 0..MaxFinalized
        /\ chunkStart' \in Nat /\ lastBlockToIndex' \in Nat
        /\ turn' \in 1..(NumHandlers + 1)
        /\ pc' = "down" /\ inserting' = FALSE
    BY <1>8 DEF Forget
  <2>3. UNCHANGED <<finalized, row, handled, sent, lost>>
    BY <1>8 DEF Forget, chain, database
  <2>4. pending' = Nothing /\ failed' = Nothing
    BY <1>8 DEF Forget
  <2> QED
    BY <1>8, <2>1, <2>2, <2>3, <2>4
<1>9. CASE InsertRow
  <2>1. row' \in FirstBlock..MaxOf(FirstBlock, MaxFinalized)
    BY <1>9 DEF InsertRow, MaxOf
  <2> QED
    BY <1>9, <2>1 DEF InsertRow, chain, memory, gathered
<1>10. CASE UNCHANGED vars
  BY <1>10 DEF vars
<1>f. CASE Fail
  BY <1>f DEF Fail, chain, database, memory, Nothing
<1> QED
  BY <1>f, <1>1, <1>2, <1>3, <1>4, <1>5, <1>6, <1>7, <1>8, <1>9, <1>10
     DEF Next, Process, Stop, Exit, InsertFails

(* A step of the indexer leaves the row, the flush and the loop in bounds.  *)
LEMMA SharedStepPosition ==
    TypeOK /\ SharedPosition /\ IndexerStep => SharedPosition'
<1> SUFFICES ASSUME TypeOK, SharedPosition, IndexerStep PROVE SharedPosition'
  OBVIOUS
<1>0. flushing' \in {flushing, NoFlush} /\ Next
  BY DEF IndexerStep
<1> USE CrawlerAssumption
    DEF TypeOK, NoRow, NoFlush, SharedPosition, NeverAhead, ChunkShape, InChunk,
        Cursor, MaxOf
<1>1. CASE Finalize
  BY <1>0, <1>1 DEF Finalize, database, memory
<1>2. CASE Start
  BY <1>0, <1>2 DEF Start, chain, database
<1>3. CASE FetchHead
  BY <1>0, <1>3 DEF FetchHead, chain, database
<1>4. CASE BeginChunk
  BY <1>0, <1>4 DEF BeginChunk, chain, database, MinOf
<1>5. CASE FetchNextNewBlock
  BY <1>0, <1>5 DEF FetchNextNewBlock, chain, database
<1>6. CASE PostProcess
  BY <1>0, <1>6 DEF PostProcess, chain, database, memory
<1>7. CASE Commit
  BY <1>0, <1>7 DEF Commit, chain, memory
<1>8. CASE Forget
  BY <1>0, <1>8 DEF Forget, chain, database
<1>9. CASE InsertRow
  BY <1>0, <1>9 DEF InsertRow, chain, memory
<1>f. CASE Fail
  BY <1>0, <1>f DEF Fail, chain, database, memory
<1> QED
  BY <1>0, <1>f, <1>1, <1>2, <1>3, <1>4, <1>5, <1>6, <1>7, <1>8, <1>9
     DEF Next, Process, Stop, Exit, InsertFails

(* A flush moves nothing but the row and itself.  *)
LEMMA FlushKeeps == SharedInv /\ (ComputeFlush \/ WriteFlush) => SharedInv'
<1> SUFFICES ASSUME SharedInv, ComputeFlush \/ WriteFlush PROVE SharedInv'
  OBVIOUS
<1>1. UNCHANGED <<finalized, handled, pc, inserting, memory, gathered, sent,
                  lost, failures>>
  BY DEF ComputeFlush, WriteFlush, vars, memory, gathered
<1>2. /\ row' \in {row, flushing} /\ (row' # row => flushing # NoFlush)
      /\ flushing' \in {lastFetched, NoFlush}
  BY DEF ComputeFlush, WriteFlush, vars
<1>3. TypeOK'
  BY <1>1, <1>2, CrawlerAssumption
     DEF SharedInv, SharedPosition, TypeOK, memory, gathered, MaxOf
<1>4. SharedPosition'
  <2> USE CrawlerAssumption
      DEF SharedInv, SharedPosition, TypeOK, NeverAhead, NoRow, NoFlush, Cursor, MaxOf
  <2>1. NeverAhead'
    BY <1>1, <1>2
  <2>2. flushing' \in {NoFlush} \cup FirstBlock..MaxOf(FirstBlock, finalized')
    BY <1>1, <1>2 DEF memory
  <2>3. ChunkShape'
    BY <1>1 DEF ChunkShape, InChunk, memory
  <2> QED
    BY <1>1, <2>1, <2>2, <2>3 DEF memory
<1>5. PendingOfChunk' /\ ChunkAccounted' /\ SentBeforeCommit'
  BY <1>1 DEF SharedInv, PendingOfChunk, ChunkAccounted, SentBeforeCommit,
              InChunk, Fetched, Batch, memory, gathered
<1> QED
  BY <1>3, <1>4, <1>5 DEF SharedInv

THEOREM SharedInvariance == SharedSpec => []SharedInv
<1>1. SharedInit => SharedInv
  <2> SUFFICES ASSUME SharedInit PROVE SharedInv
    OBVIOUS
  <2>1. IInv
    BY InitIInv DEF SharedInit
  <2>2. SharedPosition
    BY CrawlerAssumption
       DEF SharedInit, Init, SharedPosition, NeverAhead, ChunkShape, InChunk,
           Cursor, NoFlush, MaxOf
  <2> QED
    BY <2>1, <2>2 DEF IInv, SafetyInv, SendInv, SharedInv
<1>2. SharedInv /\ [SharedNext]_sharedVars => SharedInv'
  <2> SUFFICES ASSUME SharedInv, [SharedNext]_sharedVars PROVE SharedInv'
    OBVIOUS
  <2>1. CASE IndexerStep
    BY <2>1, SharedStepTypeOK, SharedStepPosition, StepPending, StepAccounted
       DEF IndexerStep, SharedInv, SharedPosition
  <2>2. CASE ComputeFlush \/ WriteFlush
    BY <2>2, FlushKeeps
  <2>3. CASE UNCHANGED sharedVars
    BY <2>3 DEF sharedVars, vars, SharedInv, TypeOK, SharedPosition, NeverAhead,
                ChunkShape, PendingOfChunk, ChunkAccounted, SentBeforeCommit,
                InChunk, Fetched, Batch, Cursor
  <2> QED
    BY <2>1, <2>2, <2>3 DEF SharedNext
<1> QED
  BY <1>1, <1>2, PTL DEF SharedSpec

(* Other users of the manager can not make a chunk commit what a handler   *)
(* has neither sent nor thrown on.                                         *)
THEOREM SharedSentBeforeCommit == SharedSpec => []SentBeforeCommit
<1>1. SharedInv => SentBeforeCommit
  BY DEF SharedInv
<1> QED
  BY SharedInvariance, <1>1, PTL

(* However flushes and the indexer's transactions overwrite each other,    *)
(* the stored cursor stays under the finalized head: what a shared manager *)
(* repeats or loses are finalized blocks.                                  *)
THEOREM SharedNeverAhead == SharedSpec => []NeverAhead
<1>1. SharedInv => NeverAhead
  BY DEF SharedInv, SharedPosition
<1> QED
  BY SharedInvariance, <1>1, PTL
=============================================================================
