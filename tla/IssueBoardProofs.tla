---------------------------- MODULE IssueBoardProofs ----------------------------
(***************************************************************************)
(* For any workers, keys, pools, observations and events:                  *)
(* UnresponsiveWorkers implements IssueBoard.  Every step of the chain, of *)
(* the event crawlers and of the reminder is, seen from the database, a    *)
(* step of the board or none.                                              *)
(***************************************************************************)
EXTENDS UnresponsiveWorkersProofs

(* The open chunk takes an event at least; each row it is going to add is  *)
(* of an Enter event of the row's worker, and of one row only; and each it *)
(* is going to remove is of a worker with an Exit event, or that strayed.  *)
RowsOfEvents ==
    \A i \in inserted \cup fresh : events[i.since] = [kind |-> "enter", worker |-> i.worker]

OneRowPerEvent ==
    \A i, j \in inserted \cup fresh : i.since = j.since => i = j

RemovedOfEvents ==
    \A i \in removed : i.worker \in strayed \/ Board!Exits(i.worker, position + 1, at)

BoardInv ==
    /\ open => chunkEnd > position
    /\ RowsOfEvents
    /\ OneRowPerEvent
    /\ RemovedOfEvents

LEMMA InitBoardInv == Init => BoardInv
  BY DEF Init, BoardInv, RowsOfEvents, OneRowPerEvent, RemovedOfEvents

(* Numbers and rows of the chunk, as the types and RowsInTurn have them.   *)
LEMMA ChunkNumbers ==
    ASSUME WorkersInv
    PROVE  /\ position \in Nat /\ at \in Nat /\ chunkEnd \in Nat /\ Len(events) \in Nat
           /\ position <= at /\ at <= chunkEnd /\ chunkEnd <= Len(events)
           /\ \A i \in inserted \cup fresh : i.since \in (position + 1)..at
           /\ events \in Seq(Event)
<1>1. TypeOK /\ RowsInTurn
  BY DEF WorkersInv
<1>2. /\ Len(events) \in Nat /\ events \in Seq(Event)
      /\ position \in 0..at /\ at \in 0..chunkEnd /\ chunkEnd \in 0..Len(events)
  BY <1>1 DEF TypeOK
<1>3. \A i \in inserted \cup fresh : i.since \in Int
  BY <1>1 DEF TypeOK, Issue
<1> QED
  BY <1>1, <1>2, <1>3 DEF RowsInTurn

(* What keeps BoardInv in an open chunk: it goes on by an event at most,   *)
(* and what it adds and removes is of that event.                          *)
LEMMA ChunkGoesOn ==
    ASSUME WorkersInv, BoardInv, position' = position, at' \in {at, at + 1},
           strayed \subseteq strayed', events' \in Seq(Event),
           \A n \in 1..Len(events) : events'[n] = events[n],
           open' => chunkEnd' > position,
           \A i \in inserted' \cup fresh' :
              \/ i \in inserted \cup fresh
              \/ /\ i.since = at + 1
                 /\ events'[at + 1] = [kind |-> "enter", worker |-> i.worker],
           \A i, j \in inserted' \cup fresh' : i.since = at + 1 /\ j.since = at + 1 => i = j,
           \A i \in removed' :
              \/ i \in removed
              \/ i.worker \in strayed'
              \/ at' = at + 1 /\ events'[at + 1] = [kind |-> "exit", worker |-> i.worker]
    PROVE  BoardInv'
<1>1. /\ position \in Nat /\ at \in Nat /\ position <= at /\ at <= Len(events)
      /\ Len(events) \in Nat
      /\ \A i \in inserted \cup fresh : i.since \in (position + 1)..at
  BY ChunkNumbers
<1>2. RowsOfEvents'
  <2> SUFFICES ASSUME NEW i \in inserted' \cup fresh'
               PROVE  events'[i.since] = [kind |-> "enter", worker |-> i.worker]
    BY DEF RowsOfEvents
  <2>1. CASE i \in inserted \cup fresh
    BY <1>1, <2>1 DEF BoardInv, RowsOfEvents
  <2> QED
    BY <2>1
<1>3. OneRowPerEvent'
  <2> SUFFICES ASSUME NEW i \in inserted' \cup fresh', NEW j \in inserted' \cup fresh',
                      i.since = j.since
               PROVE  i = j
    BY DEF OneRowPerEvent
  <2>1. CASE i.since = at + 1
    BY <2>1
  <2>2. CASE i.since # at + 1
    BY <2>2 DEF BoardInv, OneRowPerEvent
  <2> QED
    BY <2>1, <2>2
<1>4. RemovedOfEvents'
  <2> SUFFICES ASSUME NEW i \in removed', i.worker \notin strayed'
               PROVE  \E e \in (position + 1)..at' :
                         events'[e] = [kind |-> "exit", worker |-> i.worker]
    BY DEF RemovedOfEvents, Board!Exits
  <2>1. CASE i \in removed
    <3>1. PICK e \in (position + 1)..at : events[e] = [kind |-> "exit", worker |-> i.worker]
      BY <2>1 DEF BoardInv, RemovedOfEvents, Board!Exits
    <3>2. e \in 1..Len(events) /\ e \in (position + 1)..at'
      BY <1>1
    <3> QED
      BY <3>1, <3>2
  <2>2. CASE i \notin removed
    <3>1. at' = at + 1 /\ events'[at + 1] = [kind |-> "exit", worker |-> i.worker]
      BY <2>2
    <3>2. at + 1 \in (position + 1)..at'
      BY <1>1, <3>1
    <3> QED
      BY <3>1, <3>2
  <2> QED
    BY <2>1, <2>2
<1> QED
  BY <1>2, <1>3, <1>4 DEF BoardInv

(* No row of the chunk is of the event that comes next.                    *)
LEMMA NextHasNoRow == WorkersInv => \A i \in inserted \cup fresh : i.since # at + 1
  BY ChunkNumbers

(* A step that leaves the chunk as it is.  *)
LEMMA ChunkStays ==
    ASSUME WorkersInv, BoardInv, UNCHANGED <<position, chunk>>, strayed \subseteq strayed',
           events' \in Seq(Event), \A n \in 1..Len(events) : events'[n] = events[n]
    PROVE  BoardInv'
<1>1. /\ open' = open /\ at' = at /\ chunkEnd' = chunkEnd /\ position' = position
      /\ inserted' = inserted /\ fresh' = fresh /\ removed' = removed
  BY DEF chunk
<1> QED
  BY <1>1, NextHasNoRow, ChunkGoesOn DEF BoardInv

LEMMA HandlersKeepBoard ==
    ASSUME WorkersInv, BoardInv, NEW w \in Workers,
           IndexEvent(w) \/ HandlerThrows(w)
    PROVE  BoardInv'
<1> DEFINE Is(kind) == events[at + 1] = [kind |-> kind, worker |-> w]
<1>1. /\ events \in Seq(Event) /\ at + 1 # at /\ NoKey \notin Keys
      /\ \A i \in inserted \cup fresh : i.since # at + 1
  BY ChunkNumbers, NextHasNoRow, UnresponsiveAssumption
<1>2. CASE HandleEnter(w)
  <2>1. /\ Is("enter") /\ at' = at + 1 /\ removed' = removed /\ events' = events
        /\ position' = position /\ strayed' = strayed /\ open' = open
        /\ chunkEnd' = chunkEnd /\ inserted' = inserted \cup fresh
        /\ fresh' \subseteq {[worker |-> w, key |-> key[w], since |-> at + 1]}
    BY <1>2 DEF HandleEnter, Next1, chain, history
  <2>2. \A i \in inserted' \cup fresh' :
          \/ i \in inserted \cup fresh
          \/ i.since = at + 1 /\ events'[at + 1] = [kind |-> "enter", worker |-> i.worker]
    BY <2>1
  <2>3. \A i, j \in inserted' \cup fresh' : i.since = at + 1 /\ j.since = at + 1 => i = j
    BY <1>1, <2>1
  <2> HIDE DEF Is
  <2> QED
    BY <1>1, <2>1, <2>2, <2>3, ChunkGoesOn DEF BoardInv
<1>3. CASE IgnoreEnter(w)
  <2>1. /\ at' = at + 1 /\ removed' = removed /\ events' = events /\ fresh' = fresh
        /\ position' = position /\ strayed' = strayed /\ open' = open
        /\ chunkEnd' = chunkEnd /\ inserted' = inserted
    BY <1>3 DEF IgnoreEnter, Next1, chain, history
  <2> QED
    BY <1>1, <2>1, ChunkGoesOn DEF BoardInv
<1>4. CASE HandleExit(w)
  <2>1. /\ Is("exit") /\ at' = at + 1 /\ events' = events /\ fresh' = fresh
        /\ position' = position /\ strayed' = strayed /\ open' = open
        /\ chunkEnd' = chunkEnd /\ inserted' \subseteq inserted
        /\ removed' = removed \cup (DeletedBy(w) \cap issues)
    BY <1>4 DEF HandleExit, Next1, chain, history
  <2>2. ASSUME NEW i \in removed', i \notin removed, i.worker \notin strayed
        PROVE  i.worker = w
    <3>1. i \in issues /\ i.key = key[w]
      BY <2>1, <2>2 DEF DeletedBy
    <3>2. i.worker \in Workers /\ i.key \in Keys
      BY <3>1 DEF WorkersInv, TypeOK, Issue
    <3>3. i.key = key[i.worker]
      BY <2>2, <3>1 DEF WorkersInv, KeysKept
    <3> QED
      BY <1>1, <3>1, <3>2, <3>3 DEF WorkersInv, KeysBound
  <2>3. \A i \in removed' :
          \/ i \in removed
          \/ i.worker \in strayed'
          \/ at' = at + 1 /\ events'[at + 1] = [kind |-> "exit", worker |-> i.worker]
    BY <2>1, <2>2
  <2> HIDE DEF Is
  <2> QED
    BY <1>1, <2>1, <2>3, ChunkGoesOn DEF BoardInv
<1>5. CASE HandlerThrows(w)
  <2>1. /\ at' = at + 1 /\ removed' = removed /\ events' = events /\ fresh' = fresh
        /\ position' = position /\ strayed' = strayed \cup {w} /\ open' = open
        /\ chunkEnd' = chunkEnd /\ inserted' = inserted
    BY <1>5 DEF HandlerThrows, Next1, chain
  <2> QED
    BY <1>1, <2>1, ChunkGoesOn DEF BoardInv
<1> QED
  BY <1>2, <1>3, <1>4, <1>5 DEF IndexEvent

LEMMA StepBoardInv == WorkersInv /\ BoardInv /\ [Next]_vars => BoardInv'
<1> SUFFICES ASSUME WorkersInv, BoardInv, [Next]_vars PROVE BoardInv'
  OBVIOUS
<1>1. /\ events \in Seq(Event) /\ position \in Nat /\ Len(events) \in Nat
      /\ \A n \in 1..Len(events) : events[n] = events[n]
  BY ChunkNumbers
<1>2. ASSUME UNCHANGED <<position, chunk, events>>, strayed \subseteq strayed' PROVE BoardInv'
  BY <1>1, <1>2, ChunkStays
<1>3. CASE Chain
  <2>1. PICK w \in Workers :
          \/ EnterUnresponsive(w) \/ ExitUnresponsive(w) \/ StopComputing(w)
          \/ CloseSession(w) \/ OpenSession(w)
    BY <1>3 DEF Chain
  <2>2. ASSUME NEW kind \in {"enter", "exit"}, NEW state, Emit(kind, w, state) PROVE BoardInv'
    <3> DEFINE e == [kind |-> kind, worker |-> w]
    <3>1. /\ events' = Append(events, e) /\ e \in Event
          /\ UNCHANGED <<position, chunk>> /\ strayed' = strayed
      BY <2>2 DEF Emit, Event, history
    <3>2. events' \in Seq(Event) /\ \A n \in 1..Len(events) : events'[n] = events[n]
      BY <1>1, <3>1
    <3> QED
      BY <3>1, <3>2, ChunkStays
  <2>3. CASE StopComputing(w) \/ CloseSession(w) \/ OpenSession(w)
    BY <1>2, <2>3 DEF StopComputing, CloseSession, OpenSession, history
  <2> QED
    BY <2>1, <2>2, <2>3 DEF EnterUnresponsive, ExitUnresponsive
<1>4. CASE BeginChunk
  <2>1. /\ position' = position /\ at' = at /\ strayed' = strayed /\ events' = events
        /\ inserted' = inserted /\ fresh' = fresh /\ removed' = removed
        /\ chunkEnd' > position
    BY <1>1, <1>4 DEF BeginChunk, chain, history
  <2> QED
    BY <1>1, <2>1, NextHasNoRow, ChunkGoesOn
<1>5. CASE CommitChunk \/ Crash
  BY <1>5 DEF CommitChunk, Crash, EndChunk, BoardInv, RowsOfEvents, OneRowPerEvent,
     RemovedOfEvents
<1>6. ASSUME NEW w \in Workers, IndexEvent(w) \/ HandlerThrows(w) PROVE BoardInv'
  BY <1>6, HandlersKeepBoard
<1>7. CASE StartReminder \/ GoOn \/ ReminderFails
  <2>1. UNCHANGED <<position, chunk, events>> /\ strayed' = strayed
    BY <1>7 DEF StartReminder, GoOn, ReminderFails, LookUp, LookUpAgain, AutoFlush, QueryStates,
       QueryThrows, SendReminder, FlushReminder, chain, history
  <2> QED
    BY <1>2, <2>1
<1>8. CASE UNCHANGED vars
  BY <1>2, <1>8 DEF vars, chunk
<1> QED
  BY <1>3, <1>4, <1>5, <1>6, <1>7, <1>8 DEF Next

-----------------------------------------------------------------------------
(* Seen from the database, a commit is the step in which the events of the *)
(* chunk take effect.                                                      *)
LEMMA CommitTakes ==
    ASSUME WorkersInv, BoardInv, CommitChunk
    PROVE  \E n \in (position + 1)..Len(events) : Board!Take(n)
<1> DEFINE new == inserted \cup fresh
           batch == (position + 1)..at
           opening == {i.since : i \in new}
           RowOf(e) == CHOOSE i \in new : i.since = e
           k == [e \in opening |-> RowOf(e).key]
           gone == removed \cap issues
<1>1. /\ position \in Nat /\ at \in Nat /\ Len(events) \in Nat /\ at <= Len(events)
      /\ at > position /\ at \in (position + 1)..Len(events)
  BY ChunkNumbers DEF CommitChunk, BoardInv
<1>2. /\ issues' = (issues \ gone) \cup new /\ position' = at
      /\ events' = events /\ strayed' = strayed
  BY DEF CommitChunk, chain, history
<1>3. new \subseteq Issue
  BY DEF WorkersInv, TypeOK
<1>4. ASSUME NEW i \in new
      PROVE  /\ i.since \in batch
             /\ events[i.since].kind = "enter" /\ events[i.since].worker = i.worker
  <2>1. events[i.since] = [kind |-> "enter", worker |-> i.worker]
    BY DEF BoardInv, RowsOfEvents
  <2> QED
    BY <2>1, ChunkNumbers
<1>5. opening \in SUBSET {e \in batch : Board!Entered(e)}
  <2> SUFFICES ASSUME NEW i \in new PROVE i.since \in batch /\ Board!Entered(i.since)
    OBVIOUS
  <2> QED
    BY <1>4 DEF Board!Entered
<1>6. \A i \in new : RowOf(i.since) = i
  <2> SUFFICES ASSUME NEW i \in new PROVE RowOf(i.since) = i
    OBVIOUS
  <2>1. RowOf(i.since) \in new /\ RowOf(i.since).since = i.since
    OBVIOUS
  <2> QED
    BY <2>1 DEF BoardInv, OneRowPerEvent
<1>7. k \in [opening -> Keys]
  <2> SUFFICES ASSUME NEW e \in opening PROVE RowOf(e).key \in Keys
    OBVIOUS
  <2>1. PICK i \in new : e = i.since
    OBVIOUS
  <2> QED
    BY <1>3, <1>6, <2>1 DEF Issue
<1>8. gone \in SUBSET {i \in issues : i.worker \in strayed
                                    \/ Board!Exits(i.worker, position + 1, at)}
  BY DEF BoardInv, RemovedOfEvents
<1>9. \A i \in new : i = Board!Opened(i.since, k[i.since])
  <2> SUFFICES ASSUME NEW i \in new PROVE i = Board!Opened(i.since, k[i.since])
    OBVIOUS
  <2>1. i.since \in opening /\ k[i.since] = i.key
    BY <1>6
  <2>2. events[i.since].worker = i.worker
    BY <1>4
  <2> QED
    BY <1>3, <2>1, <2>2 DEF Issue, Board!Opened
<1>10. new = {Board!Opened(e, k[e]) : e \in opening}
  <2>1. ASSUME NEW e \in opening PROVE Board!Opened(e, k[e]) \in new
    <3>1. PICK i \in new : e = i.since
      OBVIOUS
    <3> QED
      BY <1>9, <3>1
  <2>2. ASSUME NEW i \in new PROVE i \in {Board!Opened(e, k[e]) : e \in opening}
    <3>1. i.since \in opening
      OBVIOUS
    <3> QED
      BY <1>9, <3>1
  <2> HIDE DEF new, opening, k
  <2> QED
    BY <2>1, <2>2
<1> HIDE DEF new, opening, k, gone
<1>11. Board!Take(at)
  BY <1>2, <1>5, <1>7, <1>8, <1>10 DEF Board!Take
<1> QED
  BY <1>1, <1>11

LEMMA StepBoard == WorkersInv /\ BoardInv /\ [Next]_vars => [Board!Next]_(Board!vars)
<1> SUFFICES ASSUME WorkersInv, BoardInv, [Next]_vars PROVE [Board!Next]_(Board!vars)
  OBVIOUS
<1>1. ASSUME UNCHANGED <<events, position, issues>>,
             strayed' = strayed \/ \E w \in Workers : strayed' = strayed \cup {w}
      PROVE  [Board!Next]_(Board!vars)
  BY <1>1 DEF Board!Next, Board!Stray, Board!vars
<1>2. ASSUME UNCHANGED <<events, position, strayed>>, issues' \subseteq issues
      PROVE  [Board!Next]_(Board!vars)
  BY <1>2 DEF Board!Next, Board!Remove, Board!vars
<1>3. CASE Chain
  <2>1. PICK w \in Workers :
          \/ EnterUnresponsive(w) \/ ExitUnresponsive(w) \/ StopComputing(w)
          \/ CloseSession(w) \/ OpenSession(w)
    BY <1>3 DEF Chain
  <2>2. ASSUME NEW kind \in {"enter", "exit"}, NEW state, Emit(kind, w, state)
        PROVE  [Board!Next]_(Board!vars)
    <3>1. [kind |-> kind, worker |-> w] \in Board!Event
      BY DEF Board!Event
    <3>2. Board!Emit
      BY <2>2, <3>1 DEF Emit, history, Board!Emit
    <3> QED
      BY <3>2 DEF Board!Next
  <2>3. CASE StopComputing(w) \/ CloseSession(w) \/ OpenSession(w)
    BY <1>1, <2>3 DEF StopComputing, CloseSession, OpenSession, history
  <2> QED
    BY <2>1, <2>2, <2>3 DEF EnterUnresponsive, ExitUnresponsive
<1>4. CASE CommitChunk
  BY <1>4, CommitTakes DEF Board!Next
<1>5. CASE BeginChunk \/ Crash
  BY <1>1, <1>5 DEF BeginChunk, Crash, chain, history
<1>6. ASSUME NEW w \in Workers, IndexEvent(w) \/ HandlerThrows(w)
      PROVE  [Board!Next]_(Board!vars)
  BY <1>1, <1>6 DEF IndexEvent, HandleEnter, IgnoreEnter, HandleExit, HandlerThrows, Next1,
     chain, history
<1>7. CASE StartReminder \/ GoOn \/ ReminderFails
  BY <1>2, <1>7 DEF StartReminder, GoOn, ReminderFails, LookUp, LookUpAgain, AutoFlush, QueryStates,
     QueryThrows, SendReminder, FlushReminder, FlushRemovals, chain, history
<1>8. CASE UNCHANGED vars
  BY <1>1, <1>8 DEF vars
<1> QED
  BY <1>3, <1>4, <1>5, <1>6, <1>7, <1>8 DEF Next

-----------------------------------------------------------------------------
(* MinerEnter- and MinerExitUnresponsiveCrawler and the reminder implement *)
(* IssueBoard: in the table of issues each event of the chain takes effect *)
(* once and with its chunk, whatever is rolled back, taken again and       *)
(* removed meanwhile.                                                      *)
THEOREM ImplementsBoard == Spec => BoardSpec
<1>1. Init => Board!Init
  BY DEF Init, Board!Init
<1> QED
  BY <1>1, InvAlways, InitBoardInv, StepBoardInv, StepBoard, PTL DEF Spec, BoardSpec, Board!Spec
=============================================================================
