-------------------------- MODULE CommonEntityManager --------------------------
(***************************************************************************)
(* The block indexer together with the other user of the process's common  *)
(* entity manager.  CrawlerService loads AppState through                  *)
(* getCommonEntityManager() and moves value.lastFetchedBlock in memory     *)
(* while a chunk is open; StakePoolsCrawler, in the same process, stores   *)
(* new pools and accounts through PhalaEntityFetcher, which flushes the    *)
(* same manager.  Such a flush writes every managed entity that changed,   *)
(* the AppState row included, outside the chunk's transaction.             *)
(***************************************************************************)
EXTENDS CrawlerService

VARIABLE flushing       \* the position a flush of the manager will write

NoFlush == -1

sharedVars == <<vars, flushing>>

SharedInit == Init /\ flushing = NoFlush

(* A step of the indexer; a flush under way dies with the process.  *)
IndexerStep ==
    /\ Next
    /\ flushing' = IF pc' = "down" THEN NoFlush ELSE flushing

(* persistAndFlush of a new pool or account computes its change set: the   *)
(* AppState entity is part of it if its value differs from the stored one. *)
ComputeFlush ==
    /\ pc # "down"
    /\ row # NoRow
    /\ flushing = NoFlush
    /\ lastFetched # row
    /\ flushing' = lastFetched
    /\ UNCHANGED vars

(* The update reaches the database.  *)
WriteFlush ==
    /\ flushing # NoFlush
    /\ row' = flushing
    /\ flushing' = NoFlush
    /\ UNCHANGED <<finalized, handled, pc, inserting, memory, gathered, sent,
                   lost, failures>>

SharedNext == IndexerStep \/ ComputeFlush \/ WriteFlush

SharedSpec == SharedInit /\ [][SharedNext]_sharedVars

-----------------------------------------------------------------------------
(* "Fetching new blocks" (CrawlerService.ts:124): a chunk takes blocks     *)
(* that no committed chunk has taken.                                      *)
FetchesNewBlocks == NeverTwice

(* Whatever a flush stores, and whenever it reaches the database, the      *)
(* stored cursor claims no block that is not finalized yet.                *)
NeverAhead == Cursor <= MaxOf(FirstBlock, finalized)
=============================================================================
