-------------------------- MODULE UnresponsiveWorkers --------------------------
(***************************************************************************)
(* The workers of the stake pools that the database knows, and the issues  *)
(* the watchdog keeps of those that do not respond.  Two parts of the      *)
(* crawler process work on the issues: the event crawlers, which follow    *)
(* the chain's events inside the transaction of a chunk                    *)
(* (MinerEnterUnresponsiveCrawler, MinerExitUnresponsiveCrawler), and the  *)
(* reminder, a run of UnresponsiveWorkerReminderCrawler with a manager of  *)
(* its own, which goes through the pools one by one.  Both ask the chain   *)
(* for the state of a worker at its head, which is ahead of the events.    *)
(***************************************************************************)
EXTENDS Integers, Sequences, FiniteSets

CONSTANTS
    Workers,            \* the accounts of the workers (sessions)
    Keys,               \* the public keys a session can be bound to
    Assigned,           \* workerAssignments: the pool of each key
    Closable,           \* workers whose session may end
    Observations,       \* observations of pools, for unresponsive workers
    PoolOf,             \* stakePool.onChainId of each observation
    MaxEvents,          \* bound: how many events the chain emits
    MaxMishaps          \* bound: RPC and database errors

NoKey == "none"         \* sessionBindings of a worker that is not bound
NoPool == -1            \* no onChainId

ASSUME UnresponsiveAssumption ==
    /\ Closable \subseteq Workers
    /\ NoKey \notin Keys
    /\ Assigned \in [Keys -> Nat]
    /\ PoolOf \in [Observations -> Nat]
    /\ MaxEvents \in Nat
    /\ MaxMishaps \in Nat

VARIABLES
    session,            \* chain: state of each worker's session at the head
    key,                \* chain: sessionBindings at the head
    events,             \* chain: the finalized events of these workers
    issues,             \* database: committed rows of UnresponsiveWorker
    position,           \* database: how many events committed chunks took
    open,               \* a chunk's transaction is open
    at,                 \* chunk: the event handled last
    chunkEnd,           \* chunk: its last event
    snapshot,           \* chunk: issues when the transaction began to read
    removed,            \* chunk: rows it has deleted
    inserted,           \* chunk: rows it has inserted
    fresh,              \* chunk: persisted entities that are not yet flushed
    counter,            \* chunk: _unresponsiveWorkersCounter
    rpc,                \* where the reminder's run is
    todo,               \* reminder: observations still to look at
    current,            \* reminder: the observation it asks the chain for
    listed,             \* reminder: the pool's issues, whose states it asks for
    pool,               \* reminder: the pool it uses _stakePoolWorkers of
    states,             \* reminder: those states, by position in the list
    resolved,           \* reminder: issues it is going to remove
    stamped,            \* reminder: observations stamped and not yet flushed
    silenced,           \* history: flushed stamps without a message
    strayed,            \* history: workers that left unresponsiveness silently
    missed,             \* history: workers of which an error lost an issue
    mishaps             \* history: errors so far

chain == <<session, key, events>>
chunk == <<open, at, chunkEnd, snapshot, removed, inserted, fresh, counter>>
reminder == <<rpc, todo, current, listed, pool, states, resolved, stamped>>
history == <<silenced, strayed, missed, mishaps>>
vars == <<session, key, events, issues, position, open, at, chunkEnd, snapshot,
          removed, inserted, fresh, counter, rpc, todo, current, listed, pool,
          states, resolved, stamped, silenced, strayed, missed, mishaps>>

State == {"none", "other", "unresponsive"}
Pools == {Assigned[k] : k \in Keys}
Event == [kind : {"enter", "exit"}, worker : Workers]

(* since is the event that opened the issue: its occurrenceDate, and its   *)
(* place in the order of the rows.                                         *)
Issue == [worker : Workers, key : Keys, since : 1..MaxEvents]

TypeOK ==
    /\ session \in [Workers -> State]
    /\ key \in [Workers -> Keys \cup {NoKey}]
    /\ events \in Seq(Event) /\ Len(events) <= MaxEvents
    /\ issues \subseteq Issue
    /\ open \in BOOLEAN
    /\ position \in 0..at
    /\ at \in 0..chunkEnd
    /\ chunkEnd \in 0..Len(events)
    /\ snapshot \subseteq Issue
    /\ removed \subseteq Issue
    /\ inserted \subseteq Issue
    /\ fresh \subseteq Issue
    /\ counter \in [Pools -> 0..MaxEvents]
    /\ rpc \in {"idle", "gate", "query", "flush"}
    /\ todo \subseteq Observations
    /\ current \subseteq Observations
    /\ listed \subseteq Issue
    /\ pool \in Nat \cup {NoPool}
    /\ states \in Seq(State)
    /\ resolved \subseteq Issue
    /\ stamped \subseteq Observations
    /\ silenced \subseteq Observations
    /\ strayed \subseteq Workers
    /\ missed \subseteq Workers
    /\ mishaps \in 0..MaxMishaps

Init ==
    /\ session = [w \in Workers |-> "other"]
    /\ key \in {k \in [Workers -> Keys] : \A v, w \in Workers : k[v] = k[w] => v = w}
    /\ events = <<>>
    /\ issues = {}
    /\ position = 0
    /\ open = FALSE
    /\ at = 0
    /\ chunkEnd = 0
    /\ snapshot = {}
    /\ removed = {}
    /\ inserted = {}
    /\ fresh = {}
    /\ counter = [p \in Pools |-> 0]
    /\ rpc = "idle"
    /\ todo = {}
    /\ current = {}
    /\ listed = {}
    /\ pool = NoPool
    /\ states = <<>>
    /\ resolved = {}
    /\ stamped = {}
    /\ silenced = {}
    /\ strayed = {}
    /\ missed = {}
    /\ mishaps = 0

Mishap ==
    /\ mishaps < MaxMishaps
    /\ mishaps' = mishaps + 1

-----------------------------------------------------------------------------
(* The chain.  A worker stops responding, and responds again.  *)
Emit(kind, w, state) ==
    /\ Len(events) < MaxEvents
    /\ events' = Append(events, [kind |-> kind, worker |-> w])
    /\ session' = [session EXCEPT ![w] = state]
    /\ UNCHANGED <<key, issues, position, chunk, reminder, history>>

EnterUnresponsive(w) == session[w] = "other" /\ Emit("enter", w, "unresponsive")
ExitUnresponsive(w) == session[w] = "unresponsive" /\ Emit("exit", w, "other")

(* An unresponsive worker is stopped: its state changes without the event. *)
StopComputing(w) ==
    /\ session[w] = "unresponsive"
    /\ session' = [session EXCEPT ![w] = "other"]
    /\ strayed' = strayed \cup {w}
    /\ UNCHANGED <<key, events, issues, position, chunk, reminder, silenced,
                   missed, mishaps>>

(* A session ends, and a new one may begin on another key.  *)
CloseSession(w) ==
    /\ w \in Closable
    /\ session[w] # "none"
    /\ session' = [session EXCEPT ![w] = "none"]
    /\ key' = [key EXCEPT ![w] = NoKey]
    /\ strayed' = strayed \cup {w}
    /\ UNCHANGED <<events, issues, position, chunk, reminder, silenced, missed,
                   mishaps>>

OpenSession(w) ==
    /\ session[w] = "none"
    /\ \E k \in Keys \ {key[v] : v \in Workers} : key' = [key EXCEPT ![w] = k]
    /\ session' = [session EXCEPT ![w] = "other"]
    /\ UNCHANGED <<events, issues, position, chunk, reminder, history>>

Chain ==
    \E w \in Workers :
        \/ EnterUnresponsive(w) \/ ExitUnresponsive(w) \/ StopComputing(w)
        \/ CloseSession(w) \/ OpenSession(w)

-----------------------------------------------------------------------------
(* The event crawlers.  A chunk takes some of the finalized events.  *)
BeginChunk ==
    /\ ~open
    /\ \E e \in (position + 1)..Len(events) : chunkEnd' = e
    /\ open' = TRUE
    /\ snapshot' = issues
    /\ UNCHANGED <<chain, issues, position, at, removed, inserted, fresh, counter,
                   reminder, history>>

(* The chunk goes up to its last event.  As a mistake: up to the last one  *)
(* there is.                                                               *)
MoreInChunkUnlimited == at < Len(events)
MoreInChunk == at < chunkEnd

(* The next event of the chunk is of this kind and worker.  *)
Next1(kind, w) ==
    /\ open
    /\ MoreInChunk
    /\ events[at + 1] = [kind |-> kind, worker |-> w]
    /\ at' = at + 1

(* The rows the transaction reads: those it began with and its own.  As a  *)
(* mistake: not its own, as a manager outside of it would read.            *)
VisibleOutside == snapshot \ removed
Visible == (snapshot \ removed) \cup inserted

(* An Enter event counts if the worker is unresponsive at the head.  As a  *)
(* mistake: it always does.                                                *)
ConfirmedAlways(w) == TRUE
Confirmed(w) == session[w] = "unresponsive"

(* An issue is the worker's if account and key agree.  As a mistake:       *)
(* whatever the key.                                                       *)
SameIssueByAccount(i, w) == i.worker = w
SameIssue(i, w) == i.worker = w /\ i.key = key[w]

(* The worker is one more of its pool.  *)
Counted(w) == [counter EXCEPT ![Assigned[key[w]]] = @ + 1]

(* The worker is confirmed and bound: it is counted, and its issue is      *)
(* persisted unless the database has it.  Looking for it flushes what was  *)
(* persisted before.                                                       *)
HandleEnter(w) ==
    /\ Next1("enter", w)
    /\ Confirmed(w)
    /\ key[w] # NoKey
    /\ counter' = Counted(w)
    /\ inserted' = inserted \cup fresh
    /\ fresh' = IF \E i \in Visible \cup fresh : SameIssue(i, w)
                THEN {}
                ELSE {[worker |-> w, key |-> key[w], since |-> at + 1]}
    /\ UNCHANGED <<chain, issues, position, open, chunkEnd, snapshot, removed,
                   reminder, history>>

(* Otherwise nothing happens: unwrap of no session throws, and tryHandle   *)
(* swallows it; no pool is found of no key.                                *)
IgnoreEnter(w) ==
    /\ Next1("enter", w)
    /\ ~Confirmed(w) \/ key[w] = NoKey
    /\ UNCHANGED <<chain, issues, position, open, chunkEnd, snapshot, removed,
                   inserted, fresh, counter, reminder, history>>

(* The rows an Exit event deletes.  As a mistake: if the worker is not     *)
(* bound, its key is no condition.                                         *)
DeletedByUnbound(w) == {i \in issues \cup inserted : key[w] \in {i.key, NoKey}}
DeletedBy(w) == {i \in issues \cup inserted : i.key = key[w]}

(* The database deletes the rows of the worker's present key; an entity    *)
(* that is only persisted is not there yet.                                *)
HandleExit(w) ==
    /\ Next1("exit", w)
    /\ removed' = removed \cup (DeletedBy(w) \cap issues)
    /\ inserted' = inserted \ DeletedBy(w)
    /\ UNCHANGED <<chain, issues, position, open, chunkEnd, snapshot, fresh,
                   counter, reminder, history>>

(* A query of the handler fails, for an Enter event before or after the    *)
(* worker is counted: tryHandle swallows the exception.                    *)
HandlerThrows(w) ==
    /\ \/ \E kind \in {"enter", "exit"} : Next1(kind, w) /\ counter' = counter
       \/ Next1("enter", w) /\ Confirmed(w) /\ key[w] # NoKey /\ counter' = Counted(w)
    /\ Mishap
    /\ missed' = missed \cup {w}
    /\ strayed' = strayed \cup {w}
    /\ UNCHANGED <<chain, issues, position, open, chunkEnd, snapshot, removed,
                   inserted, fresh, reminder, silenced>>

EndChunk ==
    /\ open' = FALSE
    /\ snapshot' = {}
    /\ removed' = {}
    /\ inserted' = {}
    /\ fresh' = {}
    /\ counter' = [p \in Pools |-> 0]

(* The handlers post-process and the transaction commits.  *)
CommitChunk ==
    /\ open
    /\ at = chunkEnd
    /\ issues' = (issues \ removed) \cup inserted \cup fresh
    /\ position' = at
    /\ EndChunk
    /\ UNCHANGED <<chain, at, chunkEnd, reminder, history>>

EndReminder ==
    /\ rpc' = "idle"
    /\ todo' = {}
    /\ current' = {}
    /\ listed' = {}
    /\ pool' = NoPool
    /\ states' = <<>>
    /\ resolved' = {}
    /\ stamped' = {}

(* The process ends, after an error or on its own: the chunk is rolled     *)
(* back and the reminder's run is gone.  A new process takes the events    *)
(* again.                                                                  *)
Crash ==
    /\ Mishap
    /\ EndChunk
    /\ at' = position
    /\ chunkEnd' = position
    /\ EndReminder
    /\ UNCHANGED <<chain, issues, position, silenced, strayed, missed>>

IndexEvent(w) == HandleEnter(w) \/ IgnoreEnter(w) \/ HandleExit(w)

-----------------------------------------------------------------------------
(* The reminder.  A run takes the observations of which enough time has    *)
(* passed since they were told.                                            *)
StartReminder ==
    /\ rpc = "idle"
    /\ rpc' = "gate"
    /\ todo' \in SUBSET Observations \ {{}}
    /\ UNCHANGED <<chain, issues, position, chunk, current, listed, pool, states,
                   resolved, stamped, history>>

(* Where an issue is in a list of issues, which is ordered by age.  *)
Place(i, list) == Cardinality({j \in list : j.since <= i.since})

(* What the chain may answer when it is asked of a list.  *)
StatesOf(list) ==
    {st \in [1..Cardinality(list) -> State] :
        \A i \in list : st[Place(i, list)] = session[i.worker]}

(* The issues of a list whose worker, by the states of that list, is not   *)
(* unresponsive.  As a mistake: none.                                      *)
ResolvedInNone(list, st) == {}
ResolvedIn(list, st) == {i \in list : st[Place(i, list)] # "unresponsive"}

(* A removal is one too many if the worker is unresponsive by now, or if   *)
(* an open chunk may have seen the row.                                    *)
RemovedTooLate ==
    {i.worker : i \in {j \in resolved \cap issues :
                          open \/ session[j.worker] = "unresponsive"}}

(* A flush of the reminder removes what it found resolved.  *)
FlushRemovals ==
    /\ issues' = issues \ resolved
    /\ missed' = missed \cup RemovedTooLate

(* Looking for issues flushes what the run has changed, if it is going to  *)
(* remove any; Unsaved are the stamps that are left.                       *)
AutoFlush ==
    /\ FlushRemovals
    /\ silenced' = IF resolved = {} THEN silenced ELSE silenced \cup stamped

Unsaved == IF resolved = {} THEN stamped ELSE {}

(* Observations are grouped by pool, and pools come by their numbers.  *)
InTurn(o) == o \in todo /\ \A p \in todo : PoolOf[o] <= PoolOf[p]

(* The states are kept by pool.  As a mistake: once for all of them.  *)
UnaskedOnce(o) == pool = NoPool
Unasked(o) == pool # PoolOf[o]

IssuesOf(p) == {i \in issues : Assigned[i.key] = p}

(* The first observation of a pool: its issues are looked up; what is kept *)
(* of pools before is not used again ...                                   *)
LookUp(o) ==
    /\ rpc = "gate"
    /\ InTurn(o)
    /\ Unasked(o)
    /\ AutoFlush
    /\ listed' = IssuesOf(PoolOf[o])'
    /\ resolved' = {}
    /\ stamped' = Unsaved
    /\ current' = {o}
    /\ pool' = NoPool
    /\ states' = <<>>
    /\ rpc' = "query"
    /\ UNCHANGED <<chain, position, chunk, todo, strayed, mishaps>>

(* The observation is done.  If its value reaches the threshold, which is  *)
(* at least one, a message is aggregated and it is stamped.                *)
Judge(o, list, st, unremoved, unsaved) ==
    /\ resolved' = unremoved \cup ResolvedIn(list, st)
    /\ todo' = todo \ {o}
    /\ \/ stamped' = unsaved
       \/ ResolvedIn(list, st) # list /\ stamped' = unsaved \cup {o}

(* ... and the chain is asked for their states.  *)
QueryStates ==
    /\ rpc = "query"
    /\ "none" \notin {session[i.worker] : i \in listed}
    /\ rpc' = "gate"
    /\ states' \in StatesOf(listed)
    /\ \E o \in current :
        /\ pool' = PoolOf[o]
        /\ Judge(o, listed, states', resolved, stamped)
    /\ current' = {}
    /\ UNCHANGED <<chain, issues, position, chunk, listed, history>>

(* unwrap throws if one of them has no session: the run is over.  *)
QueryThrows ==
    /\ rpc = "query"
    /\ "none" \in {session[i.worker] : i \in listed}
    /\ EndReminder
    /\ UNCHANGED <<chain, issues, position, chunk, history>>

(* Another observation of the pool: the states are the ones asked for      *)
(* before.                                                                 *)
LookUpAgain(o) ==
    /\ rpc = "gate"
    /\ InTurn(o)
    /\ ~Unasked(o)
    /\ AutoFlush
    /\ LET found == IssuesOf(PoolOf[o])' IN
       IF Cardinality(found) = Len(states)
       THEN /\ Judge(o, found, states, {}, Unsaved)
            /\ UNCHANGED <<rpc, current, listed, pool, states>>
       ELSE EndReminder
    /\ UNCHANGED <<chain, position, chunk, strayed, mishaps>>

(* The messages are sent, and the run ends with a flush.  *)
SendReminder ==
    /\ rpc = "gate"
    /\ todo = {}
    /\ rpc' = "flush"
    /\ silenced' = {}
    /\ UNCHANGED <<chain, issues, position, chunk, todo, current, listed, pool,
                   states, resolved, stamped, strayed, missed, mishaps>>

FlushReminder ==
    /\ rpc = "flush"
    /\ FlushRemovals
    /\ EndReminder
    /\ UNCHANGED <<chain, position, chunk, silenced, strayed, mishaps>>

(* A query, a channel or the flush fails: the run is over, nothing of it    *)
(* is stored that was not flushed before.                                  *)
ReminderFails ==
    /\ rpc # "idle"
    /\ Mishap
    /\ EndReminder
    /\ UNCHANGED <<chain, issues, position, chunk, silenced, strayed, missed>>

GoOn ==
    \/ \E o \in Observations : LookUp(o) \/ LookUpAgain(o)
    \/ QueryStates \/ QueryThrows \/ SendReminder \/ FlushReminder

Next ==
    \/ Chain
    \/ BeginChunk \/ CommitChunk \/ Crash
    \/ \E w \in Workers : IndexEvent(w) \/ HandlerThrows(w)
    \/ StartReminder \/ GoOn \/ ReminderFails

Spec == Init /\ [][Next]_vars

(* The indexer takes the events, cron starts the reminder, each            *)
(* observation passes its gate again and again as time goes by, and a run  *)
(* that is under way goes on.                                              *)
FairSpec ==
    /\ Spec
    /\ WF_vars(BeginChunk)
    /\ WF_vars(CommitChunk)
    /\ WF_vars(\E w \in Workers : IndexEvent(w))
    /\ \A o \in Observations : SF_vars(StartReminder /\ o \in todo')
    /\ WF_vars(GoOn)

-----------------------------------------------------------------------------
CaughtUp == ~open /\ position = Len(events)

(* Once every event is taken, a worker that is unresponsive has an issue - *)
(* unless its handler threw or the reminder removed the issue when it had  *)
(* come back: no order of deferred inserts, immediate deletes, rollbacks   *)
(* and removals loses it.                                                  *)
IssueOrCause ==
    CaughtUp => \A w \in Workers :
        session[w] = "unresponsive" =>
            (\E i \in issues : i.worker = w /\ i.key = key[w]) \/ w \in missed

(* Once every event is taken, a worker that has an issue is unresponsive,  *)
(* unless it left that state without an event or its handler threw: an     *)
(* Exit event is never overtaken by the insert of the Enter event before.  *)
NoOrphan ==
    CaughtUp => \A i \in issues :
        session[i.worker] = "unresponsive" \/ i.worker \in strayed

(* A row is inserted once: no commit fails on the unique index.  *)
IssuesUnique ==
    \A i, j \in issues \cup inserted \cup fresh :
        (i.worker = j.worker /\ i.key = j.key /\ i \notin removed /\ j \notin removed)
            => i = j

(* Whatever chunks are rolled back and taken again, and whatever the       *)
(* reminder removes meanwhile, in the database each event takes effect     *)
(* once, in the step that moves the position past it.                      *)
Board == INSTANCE IssueBoard
BoardSpec == Board!Spec

(* "update last notification time" (AbstractPeriodicCrawler.ts:132): when  *)
(* a run has ended, a stamp it stored stands for a message.                *)
StampMeansMessage == rpc = "idle" => silenced = {}

(* "issue already resolved" (UnresponsiveWorkerReminderCrawler.ts:69):     *)
(* what the reminder is going to remove is what the chain, when it was     *)
(* asked, said of that very issue.                                         *)
RemovesWhatItAsked == pool # NoPool => resolved \subseteq ResolvedIn(listed, states)

(* "issue already resolved" (UnresponsiveWorkerReminderCrawler.ts:69): the *)
(* issue of a worker that is not unresponsive any more goes away, if       *)
(* somebody observes the pool.                                             *)
HasIssue(w) == \E i \in issues : i.worker = w /\ Assigned[i.key] \in {PoolOf[o] : o \in Observations}

ResolvedGoesAway ==
    \A w \in Workers :
        (session[w] # "unresponsive" /\ HasIssue(w))
            ~> (session[w] = "unresponsive" \/ ~HasIssue(w))
=============================================================================
