----------------------- MODULE UnresponsiveWorkersProofs -----------------------
(***************************************************************************)
(* For any workers, keys, pools and observations, and any number of events *)
(* and errors: each unresponsive worker has its one issue, and no other    *)
(* has, but for the causes that UnresponsiveWorkers names.                 *)
(***************************************************************************)
EXTENDS UnresponsiveWorkers, FiniteSetTheorems, TLAPS

USE DEF MoreInChunk, Visible, Confirmed, SameIssue

(* The issues there are if the chunk commits now.  *)
Settled == (issues \ removed) \cup inserted
Effective == Settled \cup fresh

(* The worker has an event after the first n.  *)
Pending(w, n) == \E e \in (n + 1)..Len(events) : events[e].worker = w

ChunkShape ==
    /\ ~open => at = position /\ chunkEnd = position
    /\ ~open => removed = {} /\ inserted = {} /\ fresh = {}
    /\ \A p \in Pools : counter[p] <= at
    /\ IsFiniteSet(issues) /\ IsFiniteSet(inserted) /\ IsFiniteSet(fresh)
    /\ IsFiniteSet(listed)

(* A key is one worker's, and a session that is open has one.  *)
KeysBound ==
    /\ \A v, w \in Workers : key[v] = key[w] /\ key[v] # NoKey => v = w
    /\ \A w \in Workers : session[w] # "none" => key[w] # NoKey
    /\ \A w \in Workers : session[w] = "none" => w \in strayed

(* The last event of a worker agrees with its state, unless it strayed.    *)
EventsAgree ==
    \A e \in 1..Len(events) :
        LET w == events[e].worker IN
        \/ session[w] = "unresponsive" /\ events[e].kind = "enter"
        \/ session[w] # "unresponsive" /\ (events[e].kind = "exit" \/ w \in strayed)
        \/ Pending(w, e)

(* Rows of open chunks are younger than those of the database, which the   *)
(* chunk has read - but those the reminder removed.                        *)
RowsInTurn ==
    /\ \A i \in issues \cup removed : i.since <= position
    /\ \A i \in inserted \cup fresh : i.since > position /\ i.since <= at
    /\ open => issues \subseteq snapshot
    /\ open => \A i \in snapshot \ issues : i.worker \in missed

(* The rows of the database are unique, those a chunk deletes included: it *)
(* may be rolled back.                                                     *)
StoredUnique ==
    \A i, j \in issues : i.worker = j.worker /\ i.key = j.key => i = j

(* The key of a worker that did not stray is the one of its issues.        *)
KeysKept ==
    \A i \in issues \cup inserted \cup fresh : i.worker \in strayed \/ i.key = key[i.worker]

(* Every unresponsive worker of which no event is pending has an issue.    *)
Covered(rows, n) ==
    \A w \in Workers :
        \/ session[w] # "unresponsive"
        \/ w \in missed
        \/ Pending(w, n)
        \/ \E i \in rows : i.worker = w /\ i.key = key[w]

(* Whoever has an issue is unresponsive, or has an event pending.  *)
Justified(rows, n) ==
    \A i \in rows :
        \/ session[i.worker] = "unresponsive"
        \/ i.worker \in strayed
        \/ Pending(i.worker, n)

WorkersInv ==
    /\ TypeOK
    /\ ChunkShape
    /\ KeysBound
    /\ EventsAgree
    /\ RowsInTurn
    /\ KeysKept
    /\ IssuesUnique
    /\ StoredUnique
    /\ Covered(issues, position)
    /\ Covered(Effective, at)
    /\ Justified(issues, position)
    /\ Justified(Settled, at)
    /\ Justified(fresh, chunkEnd)

LEMMA InitWorkersInv == Init => WorkersInv
<1> SUFFICES ASSUME Init PROVE WorkersInv
  OBVIOUS
<1>1. TypeOK
  <2>1. session \in [Workers -> State] /\ key \in [Workers -> Keys \cup {NoKey}]
    BY DEF Init, State
  <2>2. events \in Seq(Event) /\ Len(events) <= MaxEvents /\ states \in Seq(State)
    BY UnresponsiveAssumption DEF Init
  <2>3. position \in 0..at /\ at \in 0..chunkEnd /\ chunkEnd \in 0..Len(events)
    BY DEF Init
  <2>4. counter \in [Pools -> 0..MaxEvents] /\ mishaps \in 0..MaxMishaps
    BY UnresponsiveAssumption DEF Init
  <2> QED
    BY <2>1, <2>2, <2>3, <2>4 DEF Init, TypeOK
<1>2. ChunkShape
  BY UnresponsiveAssumption, FS_EmptySet DEF Init, ChunkShape
<1>3. KeysBound
  BY UnresponsiveAssumption DEF Init, KeysBound
<1>4. EventsAgree /\ RowsInTurn /\ KeysKept /\ IssuesUnique /\ StoredUnique
  BY DEF Init, EventsAgree, RowsInTurn, KeysKept, IssuesUnique, StoredUnique
<1>5. Covered(issues, position) /\ Covered(Effective, at)
  BY DEF Init, Covered
<1>6. Justified(issues, position) /\ Justified(Settled, at) /\ Justified(fresh, chunkEnd)
  BY DEF Init, Justified, Settled
<1> QED
  BY <1>1, <1>2, <1>3, <1>4, <1>5, <1>6 DEF WorkersInv

(* The reminder only removes issues, and accounts for those that it should *)
(* not have removed.                                                       *)
LEMMA ReminderKeeps ==
    ASSUME WorkersInv, TypeOK', UNCHANGED <<chain, position, chunk, strayed>>,
           issues' \subseteq issues, missed \subseteq missed', IsFiniteSet(listed'),
           \A i \in issues \ issues' :
              open \/ session[i.worker] = "unresponsive" => i.worker \in missed'
    PROVE  WorkersInv'
<1>1. /\ session' = session /\ key' = key /\ events' = events /\ position' = position
      /\ open' = open /\ at' = at /\ chunkEnd' = chunkEnd /\ snapshot' = snapshot
      /\ removed' = removed /\ inserted' = inserted /\ fresh' = fresh
      /\ counter' = counter /\ strayed' = strayed
  BY DEF chain, chunk
<1>2. ChunkShape'
  BY <1>1, FS_Subset DEF WorkersInv, ChunkShape
<1>3. KeysBound' /\ EventsAgree'
  BY <1>1 DEF WorkersInv, KeysBound, EventsAgree, Pending
<1>4. RowsInTurn' /\ KeysKept' /\ IssuesUnique' /\ StoredUnique'
  BY <1>1 DEF WorkersInv, RowsInTurn, KeysKept, IssuesUnique, StoredUnique
<1>5. \A w, n : Pending(w, n)' <=> Pending(w, n)
  BY <1>1 DEF Pending
<1>6. Covered(issues, position)'
  <2> SUFFICES ASSUME NEW w \in Workers, session[w] = "unresponsive", w \notin missed',
                      ~Pending(w, position)
               PROVE  \E i \in issues' : i.worker = w /\ i.key = key[w]
    BY <1>1, <1>5 DEF Covered
  <2>1. PICK i \in issues : i.worker = w /\ i.key = key[w]
    BY DEF WorkersInv, Covered
  <2> QED
    BY <2>1
<1>7. Covered(Effective, at)'
  <2> SUFFICES ASSUME NEW w \in Workers, session[w] = "unresponsive", w \notin missed',
                      ~Pending(w, at)
               PROVE  \E i \in Effective' : i.worker = w /\ i.key = key[w]
    BY <1>1, <1>5 DEF Covered
  <2>1. PICK i \in Effective : i.worker = w /\ i.key = key[w]
    BY DEF WorkersInv, Covered
  <2>2. i \in Effective'
    BY <1>1, <2>1 DEF Effective, Settled
  <2> QED
    BY <2>1, <2>2
<1>8. Justified(issues, position)' /\ Justified(Settled, at)' /\ Justified(fresh, chunkEnd)'
  BY <1>1, <1>5 DEF WorkersInv, Justified, Settled
<1> QED
  BY <1>2, <1>3, <1>4, <1>6, <1>7, <1>8 DEF WorkersInv

(* What the reminder changes has its type.  *)
LEMMA ReminderTypes ==
    ASSUME TypeOK, UNCHANGED <<chain, position, chunk, strayed>>,
           issues' \subseteq Issue,
           rpc' \in {"idle", "gate", "query", "flush"}, todo' \subseteq Observations,
           current' \subseteq Observations, listed' \subseteq Issue, pool' \in Nat \cup {NoPool},
           states' \in Seq(State), resolved' \subseteq Issue, stamped' \subseteq Observations,
           silenced' \subseteq Observations, missed' \subseteq Workers,
           mishaps' \in 0..MaxMishaps
    PROVE  TypeOK'
  BY DEF TypeOK, chain, chunk

LEMMA EndReminderTypes ==
    ASSUME EndReminder
    PROVE  /\ rpc' = "idle" /\ todo' = {} /\ current' = {} /\ listed' = {}
           /\ pool' \in Nat \cup {NoPool} /\ states' \in Seq(State) /\ resolved' = {}
           /\ stamped' = {} /\ IsFiniteSet(listed')
<1>1. <<>> \in Seq(State)
  OBVIOUS
<1> QED
  BY <1>1, FS_EmptySet DEF EndReminder

LEMMA ReminderSteps ==
    ASSUME WorkersInv, StartReminder \/ GoOn \/ ReminderFails
    PROVE  WorkersInv'
<1>1. TypeOK /\ IsFiniteSet(issues) /\ IsFiniteSet(listed)
  BY DEF WorkersInv, ChunkShape
<1>2. /\ issues \subseteq Issue /\ todo \subseteq Observations /\ current \subseteq Observations
      /\ listed \subseteq Issue /\ resolved \subseteq Issue /\ stamped \subseteq Observations
      /\ silenced \subseteq Observations /\ missed \subseteq Workers /\ mishaps \in 0..MaxMishaps
      /\ states \in Seq(State) /\ pool \in Nat \cup {NoPool}
  BY <1>1 DEF TypeOK
<1>3. ASSUME UNCHANGED <<chain, issues, position, chunk, history>>,
             rpc' \in {"idle", "gate", "query", "flush"}, todo' \subseteq Observations,
             current' \subseteq Observations, listed' \subseteq Issue, pool' \in Nat \cup {NoPool},
             states' \in Seq(State), resolved' \subseteq Issue,
             stamped' \subseteq Observations, IsFiniteSet(listed')
      PROVE  WorkersInv'
  <2>1. TypeOK'
    BY <1>1, <1>2, <1>3, ReminderTypes DEF history
  <2> QED
    BY <1>3, <2>1, ReminderKeeps DEF history
<1>4. CASE StartReminder
  BY <1>1, <1>2, <1>3, <1>4 DEF StartReminder
<1>5. FlushRemovals => /\ issues' \subseteq issues /\ missed \subseteq missed'
                       /\ missed' \subseteq Workers
                       /\ \A i \in issues \ issues' :
                            open \/ session[i.worker] = "unresponsive" => i.worker \in missed'
  BY <1>2 DEF FlushRemovals, RemovedTooLate, Issue
<1>6. CASE QueryStates
  <2>1. /\ UNCHANGED <<chain, issues, position, chunk, listed, history>>
        /\ rpc' = "gate" /\ current' = {} /\ states' \in StatesOf(listed)
    BY <1>6 DEF QueryStates
  <2>2. PICK o \in current : pool' = PoolOf[o] /\ Judge(o, listed, states', resolved, stamped)
    BY <1>6 DEF QueryStates
  <2>3. Cardinality(listed) \in Nat
    BY <1>1, FS_CardinalityType
  <2>4. states' \in [1..Cardinality(listed) -> State]
    BY <2>1 DEF StatesOf
  <2>5. states' \in Seq(State)
    BY <2>3, <2>4
  <2>6. /\ resolved' \subseteq Issue /\ todo' \subseteq Observations
        /\ stamped' \subseteq Observations /\ pool' \in Nat \cup {NoPool}
    BY <1>2, <2>2, UnresponsiveAssumption DEF Judge, ResolvedIn
  <2> QED
    BY <1>1, <1>2, <1>3, <2>1, <2>5, <2>6
<1>7. CASE QueryThrows
  BY <1>2, <1>3, <1>7, EndReminderTypes DEF QueryThrows
<1>8. CASE SendReminder
  <2>1. TypeOK'
    BY <1>1, <1>2, <1>8, ReminderTypes DEF SendReminder
  <2> QED
    BY <1>1, <1>8, <2>1, ReminderKeeps DEF SendReminder
<1>9. ASSUME NEW o \in Observations, LookUp(o) PROVE WorkersInv'
  <2>1. /\ FlushRemovals /\ UNCHANGED <<chain, position, chunk, todo, strayed, mishaps>>
        /\ silenced' \subseteq Observations /\ stamped' \subseteq Observations
        /\ resolved' = {} /\ current' = {o} /\ rpc' = "query" /\ pool' = NoPool /\ states' = <<>>
    BY <1>2, <1>9 DEF LookUp, AutoFlush, Unsaved
  <2>2. listed' \subseteq issues' /\ <<>> \in Seq(State)
    BY <1>9 DEF LookUp, IssuesOf
  <2>3. listed' \subseteq Issue /\ IsFiniteSet(listed')
    BY <1>1, <1>2, <1>5, <2>1, <2>2, FS_Subset
  <2>4. TypeOK'
    BY <1>1, <1>2, <1>5, <2>1, <2>2, <2>3, ReminderTypes
  <2> QED
    BY <1>5, <2>1, <2>3, <2>4, ReminderKeeps
<1>10. CASE FlushReminder
  <2>1. TypeOK'
    BY <1>1, <1>2, <1>5, <1>10, EndReminderTypes, ReminderTypes DEF FlushReminder
  <2> QED
    BY <1>5, <1>10, <2>1, EndReminderTypes, ReminderKeeps DEF FlushReminder
<1>11. ASSUME NEW o \in Observations, LookUpAgain(o) PROVE WorkersInv'
  <2> DEFINE found == IssuesOf(PoolOf[o])'
  <2>1. FlushRemovals /\ UNCHANGED <<chain, position, chunk, strayed, mishaps>>
    BY <1>11 DEF LookUpAgain, AutoFlush
  <2>2. silenced' \subseteq Observations /\ Unsaved \subseteq Observations
    BY <1>2, <1>11 DEF LookUpAgain, AutoFlush, Unsaved
  <2>3. CASE Cardinality(found) = Len(states)
    <3>1. UNCHANGED <<rpc, current, listed, pool, states>> /\ Judge(o, found, states, {}, Unsaved)
      BY <1>11, <2>3 DEF LookUpAgain
    <3>2. found \subseteq issues'
      BY DEF IssuesOf
    <3>3. /\ resolved' \subseteq Issue /\ todo' \subseteq Observations
          /\ stamped' \subseteq Observations
      BY <1>2, <1>5, <2>1, <2>2, <3>1, <3>2 DEF Judge, ResolvedIn
    <3>4. rpc' = "gate" /\ pool' \in Nat \cup {NoPool}
      BY <1>1, <1>11, <3>1 DEF LookUpAgain, TypeOK
    <3>5. TypeOK'
      BY <1>1, <1>2, <1>5, <2>1, <2>2, <3>1, <3>3, <3>4, ReminderTypes
    <3> QED
      BY <1>1, <1>5, <2>1, <3>1, <3>5, ReminderKeeps
  <2>4. CASE Cardinality(found) # Len(states)
    <3>1. EndReminder
      BY <1>11, <2>4 DEF LookUpAgain
    <3>2. TypeOK'
      BY <1>1, <1>2, <1>5, <2>1, <2>2, <3>1, EndReminderTypes, ReminderTypes
    <3> QED
      BY <1>5, <2>1, <3>1, <3>2, EndReminderTypes, ReminderKeeps
  <2> QED
    BY <2>3, <2>4
<1>12. CASE ReminderFails
  <2>1. mishaps' \in 0..MaxMishaps
    BY <1>2, <1>12, UnresponsiveAssumption DEF ReminderFails, Mishap
  <2>2. TypeOK'
    BY <1>1, <1>2, <1>12, <2>1, EndReminderTypes, ReminderTypes DEF ReminderFails
  <2> QED
    BY <1>12, <2>2, EndReminderTypes, ReminderKeeps DEF ReminderFails
<1> QED
  BY <1>4, <1>6, <1>7, <1>8, <1>9, <1>10, <1>11, <1>12 DEF GoOn

-----------------------------------------------------------------------------
(* The chain.  An event that is emitted is pending.                        *)
LEMMA EmitKeeps ==
    ASSUME WorkersInv, NEW w \in Workers, EnterUnresponsive(w) \/ ExitUnresponsive(w)
    PROVE  WorkersInv'
<1>1. PICK kind \in {"enter", "exit"}, state \in {"unresponsive", "other"} :
         /\ Emit(kind, w, state)
         /\ kind = "enter" <=> state = "unresponsive"
         /\ session[w] # "none"
  BY DEF EnterUnresponsive, ExitUnresponsive
<1>2. /\ events' = Append(events, [kind |-> kind, worker |-> w])
      /\ session' = [session EXCEPT ![w] = state] /\ Len(events) < MaxEvents
      /\ key' = key /\ issues' = issues /\ position' = position
      /\ open' = open /\ at' = at /\ chunkEnd' = chunkEnd /\ snapshot' = snapshot
      /\ removed' = removed /\ inserted' = inserted /\ fresh' = fresh
      /\ counter' = counter /\ strayed' = strayed /\ missed' = missed /\ listed' = listed
  BY <1>1 DEF Emit, chunk, reminder, history
<1>3. /\ TypeOK /\ events \in Seq(Event) /\ Len(events) \in Nat /\ MaxEvents \in Nat
      /\ [kind |-> kind, worker |-> w] \in Event
      /\ position \in 0..at /\ at \in 0..chunkEnd /\ chunkEnd \in 0..Len(events)
      /\ session \in [Workers -> State]
  BY UnresponsiveAssumption DEF WorkersInv, TypeOK, Event
<1>4. /\ Len(events') = Len(events) + 1 /\ events' \in Seq(Event)
      /\ \A e \in 1..Len(events) : events'[e] = events[e]
      /\ events'[Len(events) + 1] = [kind |-> kind, worker |-> w]
  BY <1>2, <1>3
<1>5. /\ session' \in [Workers -> State] /\ session'[w] = state
      /\ \A v \in Workers : v # w => session'[v] = session[v]
  BY <1>2, <1>3 DEF State
<1>6. TypeOK'
  BY <1>1, <1>2, <1>3, <1>4, <1>5 DEF Emit, reminder, history, TypeOK
<1>7. ASSUME NEW n \in 0..Len(events)
      PROVE  /\ Pending(w, n)'
             /\ \A v : Pending(v, n) => Pending(v, n)'
  BY <1>3, <1>4 DEF Pending
<1>8. ChunkShape' /\ RowsInTurn' /\ KeysKept' /\ IssuesUnique' /\ StoredUnique'
  BY <1>2 DEF WorkersInv, ChunkShape, RowsInTurn, KeysKept, IssuesUnique, StoredUnique
<1>9. KeysBound'
  BY <1>1, <1>2, <1>5 DEF WorkersInv, KeysBound
<1>10. EventsAgree'
  <2> SUFFICES ASSUME NEW e \in 1..Len(events'), NEW v, v = events'[e].worker
               PROVE  \/ session'[v] = "unresponsive" /\ events'[e].kind = "enter"
                      \/ session'[v] # "unresponsive" /\ (events'[e].kind = "exit" \/ v \in strayed)
                      \/ Pending(v, e)'
    BY <1>2 DEF EventsAgree
  <2>1. CASE e = Len(events) + 1
    BY <1>1, <1>4, <1>5, <2>1
  <2>2. CASE e # Len(events) + 1
    <3>1. e \in 1..Len(events) /\ e \in 0..Len(events) /\ events[e] \in Event
      BY <1>3, <1>4, <2>2
    <3>2. events'[e] = events[e] /\ events[e].worker \in Workers
      BY <1>4, <3>1 DEF Event
    <3>3. CASE v = w
      BY <1>7, <3>1, <3>3
    <3>4. CASE v # w
      BY <1>5, <1>7, <3>1, <3>2, <3>4 DEF WorkersInv, EventsAgree
    <3> QED
      BY <3>3, <3>4
  <2> QED
    BY <2>1, <2>2
<1>11. ASSUME NEW n \in 0..Len(events), NEW rows, Covered(rows, n), rows \subseteq Issue
       PROVE  \A v \in Workers :
                 \/ session'[v] # "unresponsive"
                 \/ v \in missed
                 \/ Pending(v, n)'
                 \/ \E i \in rows : i.worker = v /\ i.key = key[v]
  BY <1>5, <1>7, <1>11 DEF Covered
<1>12. ASSUME NEW n \in 0..Len(events), NEW rows, Justified(rows, n), rows \subseteq Issue
       PROVE  \A i \in rows :
                 \/ session'[i.worker] = "unresponsive"
                 \/ i.worker \in strayed
                 \/ Pending(i.worker, n)'
  BY <1>5, <1>7, <1>12 DEF Justified, Issue
<1>13. /\ position \in 0..Len(events) /\ at \in 0..Len(events) /\ chunkEnd \in 0..Len(events)
       /\ issues \subseteq Issue /\ Effective \subseteq Issue /\ Settled \subseteq Issue
       /\ fresh \subseteq Issue
  BY <1>3 DEF TypeOK, Effective, Settled
<1>14. Effective' = Effective /\ Settled' = Settled
  BY <1>2 DEF Effective, Settled
<1>15. Covered(issues, position)' /\ Covered(Effective, at)'
  <2>1. Covered(issues, position) /\ Covered(Effective, at)
    BY DEF WorkersInv
  <2>2. Covered(issues, position)'
    BY <1>2, <1>11, <1>13, <2>1 DEF Covered
  <2>3. \A v \in Workers :
           \/ session'[v] # "unresponsive"
           \/ v \in missed
           \/ Pending(v, at)'
           \/ \E i \in Effective : i.worker = v /\ i.key = key[v]
    BY <1>2, <1>11, <1>13, <2>1
  <2> QED
    BY <1>2, <1>14, <2>2, <2>3 DEF Covered
<1>16. Justified(issues, position)' /\ Justified(Settled, at)' /\ Justified(fresh, chunkEnd)'
  BY <1>2, <1>12, <1>13, <1>14 DEF WorkersInv, Justified
<1> QED
  BY <1>6, <1>8, <1>9, <1>10, <1>15, <1>16 DEF WorkersInv

(* A session that changes without an event is of a worker that strayed.    *)
LEMMA SessionKeeps ==
    ASSUME WorkersInv, NEW w \in Workers,
           StopComputing(w) \/ CloseSession(w) \/ OpenSession(w)
    PROVE  WorkersInv'
<1>1. /\ events' = events /\ issues' = issues /\ position' = position
      /\ open' = open /\ at' = at /\ chunkEnd' = chunkEnd /\ snapshot' = snapshot
      /\ removed' = removed /\ inserted' = inserted /\ fresh' = fresh
      /\ counter' = counter /\ missed' = missed /\ silenced' = silenced /\ mishaps' = mishaps
      /\ UNCHANGED reminder
  BY DEF StopComputing, CloseSession, OpenSession, chunk, reminder, history
<1>2. TypeOK /\ session \in [Workers -> State] /\ key \in [Workers -> Keys \cup {NoKey}]
      /\ strayed \subseteq Workers
  BY DEF WorkersInv, TypeOK
<1>3. /\ strayed' \subseteq Workers /\ strayed \subseteq strayed' /\ w \in strayed'
      /\ \A v \in Workers : v # w => session'[v] = session[v] /\ key'[v] = key[v]
      /\ session' \in [Workers -> State] /\ session'[w] # "unresponsive"
      /\ key' \in [Workers -> Keys \cup {NoKey}]
  <2>1. CASE StopComputing(w)
    BY <1>2, <2>1 DEF StopComputing, State
  <2>2. CASE CloseSession(w)
    BY <1>2, <2>2 DEF CloseSession, State
  <2>3. CASE OpenSession(w)
    <3>1. PICK k \in Keys : key' = [key EXCEPT ![w] = k]
      BY <2>3 DEF OpenSession
    <3>2. w \in strayed /\ strayed' = strayed
      BY <2>3 DEF OpenSession, history, WorkersInv, KeysBound
    <3> QED
      BY <1>2, <2>3, <3>1, <3>2 DEF OpenSession, State
  <2> QED
    BY <2>1, <2>2, <2>3
<1>4. TypeOK'
  BY <1>1, <1>2, <1>3 DEF TypeOK, reminder
<1>5. ChunkShape' /\ RowsInTurn' /\ IssuesUnique' /\ StoredUnique'
  BY <1>1 DEF WorkersInv, ChunkShape, RowsInTurn, IssuesUnique, StoredUnique, reminder
<1>6. KeysBound'
  <2>1. CASE StopComputing(w)
    BY <1>2, <1>3, <2>1 DEF StopComputing, WorkersInv, KeysBound
  <2>2. CASE CloseSession(w)
    BY <1>2, <1>3, <2>2 DEF CloseSession, WorkersInv, KeysBound
  <2>3. CASE OpenSession(w)
    <3>1. PICK k \in Keys \ {key[v] : v \in Workers} : key' = [key EXCEPT ![w] = k]
      BY <2>3 DEF OpenSession
    <3>2. key'[w] = k /\ k # NoKey /\ \A v \in Workers : key[v] # k
      BY <1>2, <3>1, UnresponsiveAssumption
    <3> QED
      BY <1>2, <1>3, <2>3, <3>2 DEF OpenSession, WorkersInv, KeysBound
  <2> QED
    BY <2>1, <2>2, <2>3
<1>7. \A v, n : Pending(v, n)' <=> Pending(v, n)
  BY <1>1 DEF Pending
<1>8. EventsAgree'
  <2> SUFFICES ASSUME NEW e \in 1..Len(events), NEW v, v = events[e].worker
               PROVE  \/ session'[v] = "unresponsive" /\ events[e].kind = "enter"
                      \/ session'[v] # "unresponsive" /\ (events[e].kind = "exit" \/ v \in strayed')
                      \/ Pending(v, e)
    BY <1>1, <1>7 DEF EventsAgree
  <2>1. v \in Workers
    <3>1. events[e] \in Event
      BY <1>2 DEF TypeOK
    <3> QED
      BY <3>1 DEF Event
  <2>2. CASE v = w
    BY <1>3, <2>2
  <2>3. CASE v # w
    BY <1>3, <2>1, <2>3 DEF WorkersInv, EventsAgree
  <2> QED
    BY <2>2, <2>3
<1>9. /\ issues \cup inserted \cup fresh \subseteq Issue
      /\ \A i \in Issue : i.worker \in Workers
  BY <1>2 DEF TypeOK, Issue
<1>10. KeysKept'
  BY <1>1, <1>3, <1>9 DEF WorkersInv, KeysKept
<1>11. Effective' = Effective /\ Settled' = Settled
  BY <1>1 DEF Effective, Settled
<1>12. Covered(issues, position)' /\ Covered(Effective, at)'
  BY <1>1, <1>3, <1>7, <1>11 DEF WorkersInv, Covered
<1>13. Settled \subseteq issues \cup inserted
  BY DEF Settled
<1>14. ASSUME NEW i \in Issue, NEW n,
              session[i.worker] = "unresponsive" \/ i.worker \in strayed \/ Pending(i.worker, n)
       PROVE  session'[i.worker] = "unresponsive" \/ i.worker \in strayed' \/ Pending(i.worker, n)
  BY <1>3, <1>9, <1>14
<1>15. Justified(issues, position)' /\ Justified(Settled, at)' /\ Justified(fresh, chunkEnd)'
  BY <1>1, <1>7, <1>9, <1>11, <1>13, <1>14 DEF WorkersInv, Justified
<1> QED
  BY <1>4, <1>5, <1>6, <1>8, <1>10, <1>12, <1>15 DEF WorkersInv

-----------------------------------------------------------------------------
(* A chunk that begins has read all rows; one that rolls back leaves none. *)
LEMMA BeginKeeps == ASSUME WorkersInv, BeginChunk PROVE WorkersInv'
<1>1. /\ ~open /\ open' = TRUE /\ snapshot' = issues
      /\ session' = session /\ key' = key /\ events' = events /\ issues' = issues
      /\ position' = position /\ at' = at /\ removed' = removed /\ inserted' = inserted
      /\ fresh' = fresh /\ counter' = counter /\ strayed' = strayed /\ missed' = missed
      /\ listed' = listed /\ UNCHANGED reminder /\ UNCHANGED history
  BY DEF BeginChunk, chain, reminder, history
<1>2. PICK e \in (position + 1)..Len(events) : chunkEnd' = e
  BY DEF BeginChunk
<1>3. TypeOK /\ at = position /\ chunkEnd = position /\ position \in 0..at /\ at \in 0..Len(events)
      /\ fresh = {} /\ removed = {} /\ inserted = {}
  BY <1>1 DEF WorkersInv, ChunkShape, TypeOK
<1>4. at' \in 0..chunkEnd' /\ chunkEnd' \in 0..Len(events)
  BY <1>1, <1>2, <1>3
<1>5. TypeOK'
  BY <1>1, <1>3, <1>4 DEF TypeOK, reminder, history
<1>6. ChunkShape' /\ KeysBound' /\ KeysKept' /\ IssuesUnique' /\ StoredUnique' /\ RowsInTurn'
  BY <1>1 DEF WorkersInv, ChunkShape, KeysBound, KeysKept, IssuesUnique, StoredUnique, RowsInTurn
<1>7. EventsAgree'
  BY <1>1 DEF WorkersInv, EventsAgree, Pending
<1>8. \A v, n : Pending(v, n)' <=> Pending(v, n)
  BY <1>1 DEF Pending
<1>9. Effective' = Effective /\ Settled' = Settled
  BY <1>1 DEF Effective, Settled
<1>10. Covered(issues, position)' /\ Covered(Effective, at)'
  BY <1>1, <1>8, <1>9 DEF WorkersInv, Covered
<1>11. Justified(issues, position)' /\ Justified(Settled, at)' /\ Justified(fresh, chunkEnd)'
  BY <1>1, <1>3, <1>8, <1>9 DEF WorkersInv, Justified
<1> QED
  BY <1>5, <1>6, <1>7, <1>10, <1>11 DEF WorkersInv

(* A chunk that ends leaves nothing open.  *)
LEMMA EndKeeps ==
    ASSUME WorkersInv, EndChunk, UNCHANGED <<chain, silenced>>,
           position' \in 0..Len(events), at' = position', chunkEnd' = position',
           position <= position', mishaps' \in 0..MaxMishaps,
           UNCHANGED reminder \/ EndReminder,
           strayed' = strayed, missed' = missed,
           IsFiniteSet(issues'), issues' \subseteq issues \cup Effective,
           \A i \in issues' : i.since <= position',
           \A i, j \in issues' : i.worker = j.worker /\ i.key = j.key => i = j,
           Covered(issues', position'), Justified(issues', position')
    PROVE  WorkersInv'
<1>1. /\ session' = session /\ key' = key /\ events' = events /\ open' = FALSE
      /\ snapshot' = {} /\ removed' = {} /\ inserted' = {} /\ fresh' = {}
      /\ counter' = [p \in Pools |-> 0]
      /\ silenced' = silenced
  BY DEF EndChunk, chain
<1>2. TypeOK /\ MaxEvents \in Nat
  BY UnresponsiveAssumption DEF WorkersInv
<1>3. issues' \subseteq issues \cup inserted \cup fresh /\ issues' \subseteq Issue
  BY <1>2 DEF Effective, Settled, TypeOK
<1>4. /\ rpc' \in {"idle", "gate", "query", "flush"} /\ todo' \subseteq Observations
      /\ current' \subseteq Observations /\ listed' \subseteq Issue /\ pool' \in Nat \cup {NoPool}
      /\ states' \in Seq(State) /\ resolved' \subseteq Issue /\ stamped' \subseteq Observations
      /\ IsFiniteSet(listed')
  <2>1. CASE UNCHANGED reminder
    BY <1>2, <2>1 DEF reminder, TypeOK, WorkersInv, ChunkShape
  <2>2. CASE EndReminder
    BY <2>2, EndReminderTypes
  <2> QED
    BY <2>1, <2>2
<1>5. TypeOK'
  <2>1. /\ position' \in 0..at' /\ at' \in 0..chunkEnd' /\ chunkEnd' \in 0..Len(events)
        /\ counter' \in [Pools -> 0..MaxEvents]
    BY <1>1, <1>2
  <2> QED
    BY <1>1, <1>2, <1>3, <1>4, <2>1 DEF TypeOK
<1>6. ChunkShape'
  <2>1. \A p \in Pools : counter'[p] <= at'
    BY <1>1
  <2> QED
    BY <1>1, <1>4, <2>1, FS_EmptySet DEF ChunkShape
<1>7. KeysBound' /\ EventsAgree'
  BY <1>1 DEF WorkersInv, KeysBound, EventsAgree, Pending
<1>8. RowsInTurn' /\ IssuesUnique' /\ StoredUnique'
  BY <1>1 DEF RowsInTurn, IssuesUnique, StoredUnique
<1>9. KeysKept'
  BY <1>1, <1>3 DEF WorkersInv, KeysKept
<1>10. \A v, n : Pending(v, n)' <=> Pending(v, n)
  BY <1>1 DEF Pending
<1>11. Effective' = issues' /\ Settled' = issues'
  BY <1>1 DEF Effective, Settled
<1>12. Covered(issues, position)' /\ Covered(Effective, at)'
  BY <1>1, <1>10, <1>11 DEF Covered
<1>13. Justified(issues, position)' /\ Justified(Settled, at)' /\ Justified(fresh, chunkEnd)'
  BY <1>1, <1>10, <1>11 DEF Justified
<1> QED
  BY <1>5, <1>6, <1>7, <1>8, <1>9, <1>12, <1>13 DEF WorkersInv

LEMMA CommitKeeps == ASSUME WorkersInv, CommitChunk PROVE WorkersInv'
<1>1. /\ open /\ at = chunkEnd /\ issues' = Effective /\ position' = at /\ EndChunk
      /\ at' = at /\ chunkEnd' = chunkEnd
      /\ UNCHANGED <<chain, silenced>> /\ strayed' = strayed /\ missed' = missed
      /\ UNCHANGED reminder /\ mishaps' = mishaps
  BY DEF CommitChunk, Effective, Settled, history
<1>2. TypeOK /\ RowsInTurn /\ IssuesUnique /\ ChunkShape
  BY DEF WorkersInv
<1>3. /\ position \in 0..at /\ at \in 0..chunkEnd /\ chunkEnd \in 0..Len(events)
      /\ mishaps \in 0..MaxMishaps /\ issues \cup inserted \cup fresh \cup removed \subseteq Issue
  BY <1>2 DEF TypeOK
<1>4. position' \in 0..Len(events) /\ at' = position' /\ chunkEnd' = position'
      /\ position <= position' /\ mishaps' \in 0..MaxMishaps
  BY <1>1, <1>3
<1>5. IsFiniteSet(issues')
  BY <1>1, <1>2, FS_Union, FS_Subset DEF Effective, Settled, ChunkShape
<1>6. \A i \in inserted \cup fresh : i.since <= at
  BY <1>2 DEF RowsInTurn
<1>7. \A i \in issues' : i.since <= position'
  BY <1>1, <1>2, <1>3, <1>6 DEF Effective, Settled, RowsInTurn, Issue
<1>8. \A i \in Effective : i \notin removed
  BY <1>2, <1>3 DEF Effective, Settled, RowsInTurn, Issue
<1>9. \A i, j \in issues' : i.worker = j.worker /\ i.key = j.key => i = j
  BY <1>1, <1>2, <1>8 DEF Effective, Settled, IssuesUnique
<1>10. Covered(issues', position')
  BY <1>1 DEF WorkersInv
<1>11. Justified(issues', position')
  BY <1>1 DEF WorkersInv, Justified, Effective
<1> QED
  BY <1>1, <1>4, <1>5, <1>7, <1>9, <1>10, <1>11, EndKeeps

LEMMA CrashKeeps == ASSUME WorkersInv, Crash PROVE WorkersInv'
<1>1. /\ EndChunk /\ EndReminder /\ at' = position /\ chunkEnd' = position
      /\ issues' = issues /\ position' = position /\ UNCHANGED <<chain, silenced>>
      /\ strayed' = strayed /\ missed' = missed
  BY DEF Crash
<1>2. TypeOK /\ RowsInTurn /\ IssuesUnique /\ ChunkShape /\ mishaps' \in 0..MaxMishaps
  BY UnresponsiveAssumption DEF WorkersInv, Crash, Mishap, TypeOK
<1>3. position \in 0..Len(events)
  BY <1>2 DEF TypeOK
<1>4. \A i \in issues : i.since <= position
  BY <1>2 DEF RowsInTurn
<1>5. \A i, j \in issues : i.worker = j.worker /\ i.key = j.key => i = j
  BY DEF WorkersInv, StoredUnique
<1>6. Covered(issues', position') /\ Justified(issues', position')
  BY <1>1 DEF WorkersInv
<1>7. /\ position' \in 0..Len(events) /\ at' = position' /\ chunkEnd' = position'
      /\ position <= position' /\ IsFiniteSet(issues') /\ issues' \subseteq issues \cup Effective
      /\ \A i \in issues' : i.since <= position'
      /\ \A i, j \in issues' : i.worker = j.worker /\ i.key = j.key => i = j
  BY <1>1, <1>2, <1>3, <1>4, <1>5 DEF ChunkShape
<1> QED
  BY <1>1, <1>2, <1>6, <1>7, EndKeeps

-----------------------------------------------------------------------------
(* What a handler of an event of w leaves to show: the other workers have  *)
(* no event less pending.                                                  *)
LEMMA TakeEvent ==
    ASSUME WorkersInv, NEW w \in Workers, NEW kind \in {"enter", "exit"}, Next1(kind, w)
    PROVE  /\ open /\ at' = at + 1 /\ at + 1 \in 1..chunkEnd /\ at + 1 \in 1..Len(events)
           /\ at + 1 \in 1..MaxEvents /\ position \in 0..at /\ at \in Nat
           /\ events[at + 1].kind = kind /\ events[at + 1].worker = w
           /\ \A v \in Workers \ {w} : Pending(v, at) => Pending(v, at + 1)
           /\ \A v, n : n \in Nat /\ n > at /\ Pending(v, n) => Pending(v, at + 1)
<1>1. /\ open /\ at < chunkEnd /\ at' = at + 1
      /\ events[at + 1] = [kind |-> kind, worker |-> w]
  BY DEF Next1
<1>2. /\ at \in 0..chunkEnd /\ chunkEnd \in 0..Len(events) /\ position \in 0..at
      /\ Len(events) \in Nat /\ MaxEvents \in Nat /\ Len(events) <= MaxEvents
  BY UnresponsiveAssumption DEF WorkersInv, TypeOK
<1>3. events[at + 1].kind = kind /\ events[at + 1].worker = w
  BY <1>1
<1>4. \A v \in Workers \ {w} : Pending(v, at) => Pending(v, at + 1)
  BY <1>2, <1>3 DEF Pending
<1>5. \A v, n : n \in Nat /\ n > at /\ Pending(v, n) => Pending(v, at + 1)
  BY <1>2 DEF Pending
<1> QED
  BY <1>1, <1>2, <1>3, <1>4, <1>5

LEMMA HandlerKeeps ==
    ASSUME WorkersInv, NEW w \in Workers, NEW kind \in {"enter", "exit"}, Next1(kind, w),
           UNCHANGED <<chain, issues, position, open, chunkEnd, snapshot, reminder, silenced>>,
           counter' \in {counter, Counted(w)}, mishaps' \in 0..MaxMishaps,
           missed \subseteq missed', missed' \subseteq Workers,
           strayed \subseteq strayed', strayed' \subseteq Workers,
           removed' \subseteq Issue, inserted' \subseteq Issue, fresh' \subseteq Issue,
           IsFiniteSet(inserted'), IsFiniteSet(fresh'),
           \A i \in removed' : i.since <= position,
           \A i \in inserted' \cup fresh' : i.since > position /\ i.since <= at + 1,
           \A i \in inserted' \cup fresh' : i.worker \in strayed' \/ i.key = key[i.worker],
           IssuesUnique',
           Covered(Effective, at)', Justified(Settled, at)', Justified(fresh, chunkEnd)'
    PROVE  WorkersInv'
<1>1. /\ session' = session /\ key' = key /\ events' = events /\ issues' = issues
      /\ position' = position /\ open' = open /\ chunkEnd' = chunkEnd
      /\ snapshot' = snapshot /\ silenced' = silenced /\ UNCHANGED reminder
  BY DEF chain
<1>2. /\ at' = at + 1 /\ at + 1 \in 1..chunkEnd /\ at + 1 \in 1..MaxEvents
      /\ position \in 0..at /\ at \in Nat /\ open
  BY TakeEvent
<1>3. TypeOK /\ ChunkShape /\ RowsInTurn /\ KeysBound /\ EventsAgree /\ KeysKept /\ StoredUnique
  BY DEF WorkersInv
<1>4. counter' \in [Pools -> 0..MaxEvents] /\ \A p \in Pools : counter'[p] <= at'
  <2>1. /\ counter \in [Pools -> 0..MaxEvents] /\ \A p \in Pools : counter[p] <= at
        /\ MaxEvents \in Nat
    BY <1>3, UnresponsiveAssumption DEF TypeOK, ChunkShape
  <2>2. \A p \in Pools : counter'[p] \in {counter[p], counter[p] + 1}
    BY <2>1 DEF Counted
  <2>3. \A p \in Pools : counter'[p] \in 0..MaxEvents /\ counter'[p] <= at'
    <3> SUFFICES ASSUME NEW p \in Pools
                 PROVE  counter'[p] \in 0..MaxEvents /\ counter'[p] <= at'
      OBVIOUS
    <3>1. counter[p] \in 0..MaxEvents /\ counter[p] <= at
      BY <2>1
    <3> QED
      BY <1>2, <2>1, <2>2, <3>1
  <2>4. counter' = [p \in Pools |-> counter'[p]]
    BY <2>1 DEF Counted
  <2> QED
    BY <2>3, <2>4
<1>5. position' \in 0..at' /\ at' \in 0..chunkEnd'
  BY <1>1, <1>2
<1>6. TypeOK'
  BY <1>1, <1>3, <1>4, <1>5 DEF TypeOK, reminder
<1>7. ChunkShape'
  BY <1>1, <1>2, <1>3, <1>4 DEF ChunkShape, reminder
<1>8. EventsAgree' /\ KeysBound'
  BY <1>1, <1>3 DEF EventsAgree, KeysBound, Pending
<1>9. RowsInTurn'
  BY <1>1, <1>2, <1>3 DEF RowsInTurn
<1>10. KeysKept' /\ StoredUnique'
  BY <1>1, <1>3 DEF KeysKept, StoredUnique
<1>11. \A v, n : Pending(v, n)' <=> Pending(v, n)
  BY <1>1 DEF Pending
<1>12. Covered(issues, position)' /\ Justified(issues, position)'
  BY <1>1, <1>11 DEF WorkersInv, Covered, Justified
<1> QED
  BY <1>6, <1>7, <1>8, <1>9, <1>10, <1>12 DEF WorkersInv

LEMMA EnterKeeps == ASSUME WorkersInv, NEW w \in Workers, HandleEnter(w) PROVE WorkersInv'
<1> DEFINE new == [worker |-> w, key |-> key[w], since |-> at + 1]
<1>1. /\ Next1("enter", w) /\ session[w] = "unresponsive" /\ key[w] # NoKey
      /\ counter' = Counted(w) /\ inserted' = inserted \cup fresh
      /\ removed' = removed /\ strayed' = strayed /\ missed' = missed
      /\ UNCHANGED <<chain, issues, position, open, chunkEnd, snapshot, reminder, silenced>>
      /\ mishaps' = mishaps
  BY DEF HandleEnter, history
<1>2. TypeOK /\ ChunkShape /\ RowsInTurn /\ KeysBound /\ KeysKept /\ IssuesUnique
  BY DEF WorkersInv
<1>3. /\ open /\ at' = at + 1 /\ at + 1 \in 1..MaxEvents /\ position \in 0..at /\ at \in Nat
      /\ at + 1 \in 1..chunkEnd /\ chunkEnd \in Nat
  BY <1>1, <1>2, TakeEvent DEF TypeOK
<1>4. /\ session' = session /\ key' = key /\ events' = events /\ issues' = issues
      /\ chunkEnd' = chunkEnd
  BY <1>1 DEF chain
<1>5. /\ issues \subseteq Issue /\ removed \subseteq Issue /\ inserted \subseteq Issue
      /\ fresh \subseteq Issue /\ missed \subseteq Workers /\ strayed \subseteq Workers
      /\ mishaps \in 0..MaxMishaps /\ key[w] \in Keys /\ snapshot \subseteq Issue
  BY <1>1, <1>2 DEF TypeOK
<1>6. new \in Issue
  BY <1>3, <1>5 DEF Issue
<1>7. \/ fresh' = {} /\ \E i \in (snapshot \ removed) \cup inserted \cup fresh :
                            i.worker = w /\ i.key = key[w]
      \/ fresh' = {new} /\ ~\E i \in (snapshot \ removed) \cup inserted \cup fresh :
                               i.worker = w /\ i.key = key[w]
  BY DEF HandleEnter
<1>8. IsFiniteSet(inserted') /\ IsFiniteSet(fresh')
  <2>1. IsFiniteSet(inserted \cup fresh)
    BY <1>2, FS_Union DEF ChunkShape
  <2>2. IsFiniteSet({new}) /\ IsFiniteSet({})
    BY FS_EmptySet, FS_Singleton
  <2> QED
    BY <1>1, <1>7, <2>1, <2>2
<1>9. \A i \in inserted' \cup fresh' : i.since > position /\ i.since <= at + 1
  <2> SUFFICES ASSUME NEW i \in inserted \cup fresh PROVE i.since > position /\ i.since <= at + 1
    BY <1>1, <1>3, <1>7
  <2>1. i.since > position /\ i.since <= at /\ i.since \in Nat
    BY <1>2, <1>5 DEF RowsInTurn, Issue
  <2> QED
    BY <1>3, <2>1
<1>10. \A i \in inserted' \cup fresh' : i.worker \in strayed' \/ i.key = key[i.worker]
  BY <1>1, <1>2, <1>7 DEF KeysKept
<1>11. issues \subseteq snapshot /\ \A i \in snapshot \ issues : i.worker \in missed
  BY <1>2, <1>3 DEF RowsInTurn
<1>12. IssuesUnique'
  BY <1>1, <1>2, <1>4, <1>7, <1>11 DEF IssuesUnique
<1>13. \A v, n : Pending(v, n)' <=> Pending(v, n)
  BY <1>4 DEF Pending
<1>14. \A v \in Workers \ {w} : Pending(v, at) => Pending(v, at + 1)
  BY <1>1, TakeEvent
<1>15. Covered(Effective, at)'
  <2> SUFFICES ASSUME NEW v \in Workers, session[v] = "unresponsive", v \notin missed,
                      ~Pending(v, at + 1)
               PROVE  \E i \in Effective' : i.worker = v /\ i.key = key[v]
    BY <1>1, <1>3, <1>4, <1>13 DEF Covered
  <2>1. Effective \subseteq Effective'
    BY <1>1, <1>4 DEF Effective, Settled
  <2>2. CASE v # w
    <3>1. PICK i \in Effective : i.worker = v /\ i.key = key[v]
      BY <1>14, <2>2 DEF WorkersInv, Covered
    <3> QED
      BY <2>1, <3>1
  <2>3. CASE v = w
    <3>1. CASE fresh' = {new}
      <4>1. new \in Effective' /\ new.worker = w /\ new.key = key[w]
        BY <3>1 DEF Effective
      <4> QED
        BY <2>3, <4>1
    <3>2. CASE fresh' = {}
      <4>1. PICK i \in (snapshot \ removed) \cup inserted \cup fresh :
                i.worker = w /\ i.key = key[w]
        BY <1>7, <3>2
      <4>2. i \in Effective
        BY <1>11, <2>3, <4>1 DEF Effective, Settled
      <4> QED
        BY <2>1, <2>3, <4>1, <4>2
    <3> QED
      BY <1>7, <3>1, <3>2
  <2> QED
    BY <2>2, <2>3
<1>16. Justified(Settled, at)'
  <2> SUFFICES ASSUME NEW i \in Settled', session[i.worker] # "unresponsive",
                      i.worker \notin strayed
               PROVE  Pending(i.worker, at + 1)
    BY <1>1, <1>3, <1>4, <1>13 DEF Justified
  <2>1. i.worker # w
    BY <1>1
  <2>2. CASE i \in fresh
    <3>1. Pending(i.worker, chunkEnd) /\ chunkEnd \in Nat /\ chunkEnd > at
      BY <1>3, <2>2 DEF WorkersInv, Justified
    <3> QED
      BY <1>1, <3>1, TakeEvent
  <2>3. CASE i \in Settled
    <3>1. Pending(i.worker, at) /\ i.worker \in Workers
      BY <1>5, <2>3 DEF WorkersInv, Justified, Settled, Issue
    <3> QED
      BY <1>14, <2>1, <3>1
  <2> QED
    BY <1>1, <1>4, <2>2, <2>3 DEF Settled
<1>17. Justified(fresh, chunkEnd)'
  BY <1>1, <1>4, <1>7 DEF Justified
<1> QED
  BY <1>1, <1>2, <1>5, <1>6, <1>7, <1>8, <1>9, <1>10, <1>12, <1>15, <1>16, <1>17,
     HandlerKeeps DEF RowsInTurn

(* An event that changes no row.  Its worker is not unresponsive, and      *)
(* strayed or has another event pending; or it is written off.             *)
LEMMA PassOverKeeps ==
    ASSUME WorkersInv, NEW w \in Workers, NEW kind \in {"enter", "exit"}, Next1(kind, w),
           UNCHANGED <<chain, issues, position, open, chunkEnd, snapshot, removed, inserted,
                       fresh, reminder, silenced>>,
           counter' \in {counter, Counted(w)}, mishaps' \in 0..MaxMishaps,
           missed \subseteq missed', missed' \subseteq Workers,
           strayed \subseteq strayed', strayed' \subseteq Workers,
           session[w] # "unresponsive" \/ w \in missed',
           w \in strayed' \/ Pending(w, at + 1)
    PROVE  WorkersInv'
<1>1. /\ session' = session /\ key' = key /\ events' = events /\ issues' = issues
      /\ chunkEnd' = chunkEnd /\ removed' = removed /\ inserted' = inserted /\ fresh' = fresh
  BY DEF chain
<1>2. /\ TypeOK /\ ChunkShape /\ RowsInTurn /\ KeysKept /\ IssuesUnique
      /\ Covered(Effective, at) /\ Justified(Settled, at) /\ Justified(fresh, chunkEnd)
  BY DEF WorkersInv
<1>3. /\ removed \subseteq Issue /\ inserted \subseteq Issue /\ fresh \subseteq Issue
      /\ issues \subseteq Issue
  BY <1>2 DEF TypeOK
<1>4. /\ at' = at + 1 /\ at \in Nat
      /\ \A v \in Workers \ {w} : Pending(v, at) => Pending(v, at + 1)
  BY TakeEvent
<1>5. \A i \in inserted \cup fresh : i.since > position /\ i.since <= at + 1
  <2> SUFFICES ASSUME NEW i \in inserted \cup fresh PROVE i.since > position /\ i.since <= at + 1
    OBVIOUS
  <2>1. i.since > position /\ i.since <= at /\ i.since \in Nat
    BY <1>2, <1>3 DEF RowsInTurn, Issue
  <2> QED
    BY <1>4, <2>1
<1>6. \A i \in inserted \cup fresh : i.worker \in strayed' \/ i.key = key[i.worker]
  BY <1>2 DEF KeysKept
<1>7. \A v, n : Pending(v, n)' <=> Pending(v, n)
  BY <1>1 DEF Pending
<1>8. Effective' = Effective /\ Settled' = Settled
  BY <1>1 DEF Effective, Settled
<1>9. Covered(Effective, at)'
  BY <1>1, <1>2, <1>4, <1>7, <1>8 DEF Covered
<1>10. Justified(Settled, at)'
  <2>1. \A i \in Settled : i.worker \in Workers
    BY <1>3 DEF Settled, Issue
  <2> QED
    BY <1>1, <1>2, <1>4, <1>7, <1>8, <2>1 DEF Justified
<1>11. Justified(fresh, chunkEnd)'
  BY <1>1, <1>2, <1>7 DEF Justified
<1>12. IssuesUnique'
  BY <1>1, <1>2 DEF IssuesUnique
<1> QED
  BY <1>1, <1>2, <1>3, <1>5, <1>6, <1>9, <1>10, <1>11, <1>12, HandlerKeeps
     DEF ChunkShape, RowsInTurn

LEMMA IgnoreKeeps == ASSUME WorkersInv, NEW w \in Workers, IgnoreEnter(w) PROVE WorkersInv'
<1>1. /\ Next1("enter", w) /\ missed' = missed /\ strayed' = strayed /\ mishaps' = mishaps
      /\ UNCHANGED <<chain, issues, position, open, chunkEnd, snapshot, removed, inserted,
                     fresh, reminder, silenced>>
      /\ counter' = counter
  BY DEF IgnoreEnter, history
<1>2. session[w] # "unresponsive"
  BY DEF IgnoreEnter, WorkersInv, KeysBound
<1>3. w \in strayed \/ Pending(w, at + 1)
  <2>1. /\ at + 1 \in 1..Len(events) /\ events[at + 1].worker = w
        /\ events[at + 1].kind = "enter"
    BY <1>1, TakeEvent
  <2> QED
    BY <1>2, <2>1 DEF WorkersInv, EventsAgree
<1>4. missed \subseteq Workers /\ strayed \subseteq Workers /\ mishaps \in 0..MaxMishaps
  BY DEF WorkersInv, TypeOK
<1> QED
  BY <1>1, <1>2, <1>3, <1>4, PassOverKeeps

LEMMA ThrowKeeps == ASSUME WorkersInv, NEW w \in Workers, HandlerThrows(w) PROVE WorkersInv'
<1>1. missed \subseteq Workers /\ strayed \subseteq Workers /\ mishaps \in 0..MaxMishaps
  BY DEF WorkersInv, TypeOK
<1>2. /\ missed' = missed \cup {w} /\ strayed' = strayed \cup {w}
      /\ mishaps' \in 0..MaxMishaps
      /\ UNCHANGED <<chain, issues, position, open, chunkEnd, snapshot, removed, inserted,
                     fresh, reminder, silenced>>
  BY <1>1, UnresponsiveAssumption DEF HandlerThrows, Mishap
<1>3. PICK kind \in {"enter", "exit"} : Next1(kind, w) /\ counter' \in {counter, Counted(w)}
  BY DEF HandlerThrows
<1> QED
  BY <1>1, <1>2, <1>3, PassOverKeeps

LEMMA ExitKeeps == ASSUME WorkersInv, NEW w \in Workers, HandleExit(w) PROVE WorkersInv'
<1>1. /\ Next1("exit", w)
      /\ removed' = removed \cup (DeletedBy(w) \cap issues)
      /\ inserted' = inserted \ DeletedBy(w)
      /\ fresh' = fresh /\ counter' = counter
      /\ strayed' = strayed /\ missed' = missed /\ mishaps' = mishaps
      /\ UNCHANGED <<chain, issues, position, open, chunkEnd, snapshot, reminder, silenced>>
  BY DEF HandleExit, history
<1>2. /\ session' = session /\ key' = key /\ events' = events /\ issues' = issues
      /\ chunkEnd' = chunkEnd
  BY <1>1 DEF chain
<1>3. /\ TypeOK /\ ChunkShape /\ RowsInTurn /\ KeysBound /\ KeysKept /\ IssuesUnique
      /\ Covered(Effective, at) /\ Justified(Settled, at) /\ Justified(fresh, chunkEnd)
  BY DEF WorkersInv
<1>4. /\ issues \subseteq Issue /\ removed \subseteq Issue /\ inserted \subseteq Issue
      /\ fresh \subseteq Issue /\ missed \subseteq Workers /\ strayed \subseteq Workers
      /\ mishaps \in 0..MaxMishaps
  BY <1>3 DEF TypeOK
<1>5. /\ at' = at + 1 /\ at \in Nat /\ at + 1 \in 1..Len(events)
      /\ events[at + 1].worker = w /\ events[at + 1].kind = "exit"
      /\ \A v \in Workers \ {w} : Pending(v, at) => Pending(v, at + 1)
  BY <1>1, TakeEvent
<1>6. removed' \subseteq Issue /\ inserted' \subseteq inserted /\ IsFiniteSet(inserted')
  BY <1>1, <1>3, <1>4, FS_Subset DEF ChunkShape
<1>7. \A i \in removed' : i.since <= position
  BY <1>1, <1>3 DEF RowsInTurn
<1>8. \A i \in inserted \cup fresh : i.since > position /\ i.since <= at + 1
  <2> SUFFICES ASSUME NEW i \in inserted \cup fresh PROVE i.since > position /\ i.since <= at + 1
    OBVIOUS
  <2>1. i.since > position /\ i.since <= at /\ i.since \in Nat
    BY <1>3, <1>4 DEF RowsInTurn, Issue
  <2> QED
    BY <1>5, <2>1
<1>9. \A i \in inserted \cup fresh : i.worker \in strayed \/ i.key = key[i.worker]
  BY <1>3 DEF KeysKept
<1>10. IssuesUnique'
  BY <1>1, <1>2, <1>3, <1>6 DEF IssuesUnique
<1>11. \A v, n : Pending(v, n)' <=> Pending(v, n)
  BY <1>2 DEF Pending
<1>12. Covered(Effective, at)'
  <2> SUFFICES ASSUME NEW v \in Workers, session[v] = "unresponsive", v \notin missed,
                      ~Pending(v, at + 1)
               PROVE  \E i \in Effective' : i.worker = v /\ i.key = key[v]
    BY <1>1, <1>2, <1>5, <1>11 DEF Covered
  <2>1. v # w
    BY <1>5 DEF WorkersInv, EventsAgree
  <2>2. PICK i \in Effective : i.worker = v /\ i.key = key[v]
    BY <1>3, <1>5, <2>1 DEF Covered
  <2>3. i.key \in Keys /\ i.key # NoKey
    BY <1>4, <2>2, UnresponsiveAssumption DEF Effective, Settled, Issue
  <2>4. i.key # key[w]
    BY <1>3, <2>1, <2>2, <2>3 DEF KeysBound
  <2>5. i \in Effective'
    BY <1>1, <1>2, <2>2, <2>4 DEF Effective, Settled, DeletedBy
  <2> QED
    BY <2>2, <2>5
<1>13. Justified(Settled, at)'
  <2> SUFFICES ASSUME NEW i \in Settled', session[i.worker] # "unresponsive",
                      i.worker \notin strayed
               PROVE  Pending(i.worker, at + 1)
    BY <1>1, <1>2, <1>5, <1>11 DEF Justified
  <2>1. i \in Settled /\ i.key # key[w]
    BY <1>1, <1>2 DEF Settled, DeletedBy
  <2>2. i.key = key[i.worker] /\ i.worker \in Workers
    BY <1>3, <1>4, <2>1 DEF KeysKept, Settled, Issue
  <2>3. i.worker # w
    BY <2>1, <2>2
  <2> QED
    BY <1>3, <1>5, <2>1, <2>2, <2>3 DEF Justified
<1>14. Justified(fresh, chunkEnd)'
  BY <1>1, <1>2, <1>3, <1>11 DEF Justified
<1> QED
  BY <1>1, <1>3, <1>4, <1>6, <1>7, <1>8, <1>9, <1>10, <1>12, <1>13, <1>14, HandlerKeeps
     DEF ChunkShape

-----------------------------------------------------------------------------
LEMMA StepWorkersInv == WorkersInv /\ [Next]_vars => WorkersInv'
<1> SUFFICES ASSUME WorkersInv, [Next]_vars PROVE WorkersInv'
  OBVIOUS
<1>1. CASE Chain
  BY <1>1, EmitKeeps, SessionKeeps DEF Chain
<1>2. CASE BeginChunk \/ CommitChunk \/ Crash
  BY <1>2, BeginKeeps, CommitKeeps, CrashKeeps
<1>3. ASSUME NEW w \in Workers, IndexEvent(w) \/ HandlerThrows(w) PROVE WorkersInv'
  BY <1>3, EnterKeeps, IgnoreKeeps, ExitKeeps, ThrowKeeps DEF IndexEvent
<1>4. CASE StartReminder \/ GoOn \/ ReminderFails
  BY <1>4, ReminderSteps
<1>5. CASE UNCHANGED vars
  <2>1. TypeOK'
    BY <1>5 DEF vars, WorkersInv, TypeOK
  <2> QED
    BY <1>5, <2>1, ReminderKeeps DEF vars, chain, chunk, WorkersInv, ChunkShape
<1> QED
  BY <1>1, <1>2, <1>3, <1>4, <1>5 DEF Next

LEMMA InvAlways == Spec => []WorkersInv
  BY InitWorkersInv, StepWorkersInv, PTL DEF Spec

(* The variables of the crawlers, the reminder and the chain keep their    *)
(* types.                                                                  *)
THEOREM TypeCorrect == Spec => []TypeOK
<1>1. WorkersInv => TypeOK
  BY DEF WorkersInv
<1> QED
  BY <1>1, InvAlways, PTL

(* The event crawlers leave no unresponsive worker without an issue, save  *)
(* by an error or an ill-timed removal of the reminder.                    *)
THEOREM IssueOrCauseAlways == Spec => []IssueOrCause
<1>1. ASSUME WorkersInv, CaughtUp, NEW w \in Workers, session[w] = "unresponsive",
             w \notin missed
      PROVE  \E i \in issues : i.worker = w /\ i.key = key[w]
  <2>1. ~Pending(w, position)
    BY <1>1 DEF CaughtUp, Pending, WorkersInv, TypeOK
  <2> QED
    BY <1>1, <2>1 DEF WorkersInv, Covered
<1>2. WorkersInv => IssueOrCause
  BY <1>1 DEF IssueOrCause
<1> QED
  BY <1>2, InvAlways, PTL

(* They leave no issue of a worker that responds, save of one that stopped *)
(* being unresponsive without an event, or by an error.                    *)
THEOREM NoOrphanAlways == Spec => []NoOrphan
<1>1. ASSUME WorkersInv, CaughtUp, NEW i \in issues
      PROVE  session[i.worker] = "unresponsive" \/ i.worker \in strayed
  <2>1. ~Pending(i.worker, position)
    BY <1>1 DEF CaughtUp, Pending, WorkersInv, TypeOK
  <2> QED
    BY <1>1, <2>1 DEF WorkersInv, Justified
<1>2. WorkersInv => NoOrphan
  BY <1>1 DEF NoOrphan
<1> QED
  BY <1>2, InvAlways, PTL

(* No chunk fails on the unique index of UnresponsiveWorker.               *)
THEOREM IssuesUniqueAlways == Spec => []IssuesUnique
<1>1. WorkersInv => IssuesUnique
  BY DEF WorkersInv
<1> QED
  BY <1>1, InvAlways, PTL
=============================================================================
