----------------------------- MODULE BlockLedger -----------------------------
(***************************************************************************)
(* What CrawlerService promises of the finalized chain: a durable cursor,  *)
(* and the set of blocks whose events were handed to the event crawlers in *)
(* a committed transaction.  A chunk of blocks is recorded at once with    *)
(* the cursor, it starts at the cursor, and only blocks buried under       *)
(* BLOCK_HISTORY finalized ones may be stepped over.                       *)
(***************************************************************************)
EXTENDS Integers

CONSTANTS
    BLOCK_HISTORY,      \* how far back of the finalized head indexing starts
    BLOCK_CHUNK,        \* the most blocks one transaction takes
    FirstBlock,         \* CrawlerState's default lastFetchedBlock
    MaxFinalized        \* bound: the highest block the chain finalizes

VARIABLES
    finalized,          \* number of the finalized head of the chain
    cursor,             \* the last block taken, as the database has it
    handled             \* blocks handed to the handlers and committed

vars == <<finalized, cursor, handled>>

Init ==
    /\ finalized \in 0..MaxFinalized
    /\ cursor = FirstBlock
    /\ handled = {}

Finalize ==
    /\ \E n \in (finalized + 1)..MaxFinalized : finalized' = n
    /\ UNCHANGED <<cursor, handled>>

(* One committed chunk: blocks from+1..to.  *)
Advance ==
    /\ \E from \in cursor..finalized :
         \E to \in (from + 1)..finalized :
           /\ from = cursor \/ from <= finalized - BLOCK_HISTORY
           /\ to - from <= BLOCK_CHUNK
           /\ cursor' = to
           /\ handled' = handled \cup (from + 1)..to
    /\ UNCHANGED finalized

Next == Finalize \/ Advance

Spec == Init /\ [][Next]_vars
=============================================================================
