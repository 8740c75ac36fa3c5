----------------------------- MODULE ReminderProofs -----------------------------
(***************************************************************************)
(* What the reminder of UnresponsiveWorkers gets right.  It matches states *)
(* with issues by their places in a list: the places of a list that was    *)
(* asked for are good for that.  If no pool has a second observation, only *)
(* issues found resolved are removed; and if besides no session ends and   *)
(* no error comes, no stamp is stored without a message.                   *)
(***************************************************************************)
EXTENDS IssueBoardProofs

OnePerEvent(list) == \A i, j \in list : i.since = j.since => i = j

ListInv == OnePerEvent(issues) /\ OnePerEvent(listed)

LEMMA StepListInv == WorkersInv /\ BoardInv /\ ListInv /\ [Next]_vars => ListInv'
<1> SUFFICES ASSUME WorkersInv, BoardInv, ListInv, [Next]_vars PROVE ListInv'
  OBVIOUS
<1>1. ASSUME issues' \subseteq issues, listed' \subseteq listed \/ listed' \subseteq issues
      PROVE  ListInv'
  BY <1>1 DEF ListInv, OnePerEvent
<1>2. CASE CommitChunk
  <2>1. /\ issues' \subseteq issues \cup inserted \cup fresh /\ listed' = listed
    BY <1>2 DEF CommitChunk, reminder
  <2>2. /\ \A i \in issues : i.since <= position
        /\ \A i \in inserted \cup fresh : i.since \in (position + 1)..at
        /\ issues \subseteq Issue /\ position \in Nat
    BY ChunkNumbers DEF WorkersInv, RowsInTurn, TypeOK
  <2>3. OnePerEvent(issues')
    <3> SUFFICES ASSUME NEW i \in issues', NEW j \in issues', i.since = j.since PROVE i = j
      BY DEF OnePerEvent
    <3>1. CASE i \in issues /\ j \in issues
      BY <3>1 DEF ListInv, OnePerEvent
    <3>2. CASE i \in inserted \cup fresh /\ j \in inserted \cup fresh
      BY <3>2 DEF BoardInv, OneRowPerEvent
    <3>3. ~(i \in issues /\ j \in inserted \cup fresh)
      BY <2>2 DEF Issue
    <3>4. ~(j \in issues /\ i \in inserted \cup fresh)
      BY <2>2 DEF Issue
    <3> QED
      BY <2>1, <3>1, <3>2, <3>3, <3>4
  <2> QED
    BY <2>1, <2>3 DEF ListInv
<1>3. CASE Chain
  BY <1>1, <1>3 DEF Chain, EnterUnresponsive, ExitUnresponsive, Emit, StopComputing,
     CloseSession, OpenSession, reminder
<1>4. CASE BeginChunk \/ Crash
  BY <1>1, <1>4 DEF BeginChunk, Crash, EndReminder, reminder
<1>5. ASSUME NEW w \in Workers, IndexEvent(w) \/ HandlerThrows(w) PROVE ListInv'
  BY <1>1, <1>5 DEF IndexEvent, HandleEnter, IgnoreEnter, HandleExit, HandlerThrows, reminder
<1>6. CASE StartReminder \/ GoOn \/ ReminderFails
  <2>1. ASSUME NEW o \in Observations, LookUp(o) PROVE ListInv'
    BY <1>1, <2>1 DEF LookUp, AutoFlush, FlushRemovals, IssuesOf
  <2>2. ASSUME NEW o \in Observations, LookUpAgain(o) PROVE ListInv'
    BY <1>1, <2>2 DEF LookUpAgain, AutoFlush, FlushRemovals, EndReminder
  <2> QED
    BY <1>1, <1>6, <2>1, <2>2 DEF StartReminder, GoOn, ReminderFails, QueryStates,
       QueryThrows, SendReminder, FlushReminder, FlushRemovals, EndReminder
<1>7. CASE UNCHANGED vars
  BY <1>1, <1>7 DEF vars
<1> QED
  BY <1>2, <1>3, <1>4, <1>5, <1>6, <1>7 DEF Next

-----------------------------------------------------------------------------
(* In a list of issues no two of which are of the same event, each has a   *)
(* place of its own, and the places are those of a list of that length.    *)
LEMMA PlacesFit ==
    ASSUME NEW list, IsFiniteSet(list), list \subseteq Issue, OnePerEvent(list)
    PROVE  /\ Cardinality(list) \in Nat
           /\ \A i \in list : Place(i, list) \in 1..Cardinality(list)
           /\ \A i, j \in list : Place(i, list) = Place(j, list) => i = j
<1> DEFINE UpTo(i) == {j \in list : j.since <= i.since}
<1>1. \A i \in list : i.since \in Int
  BY UnresponsiveAssumption DEF Issue
<1>2. ASSUME NEW i \in list
      PROVE  /\ IsFiniteSet(UpTo(i)) /\ Cardinality(UpTo(i)) \in 1..Cardinality(list)
             /\ Place(i, list) = Cardinality(UpTo(i))
  <2>1. UpTo(i) \subseteq list /\ i \in UpTo(i)
    BY <1>1
  <2>2. /\ IsFiniteSet(UpTo(i)) /\ Cardinality(UpTo(i)) <= Cardinality(list)
        /\ Cardinality(UpTo(i)) \in Nat /\ Cardinality(list) \in Nat
    BY <2>1, FS_Subset, FS_CardinalityType
  <2>3. Cardinality(UpTo(i)) # 0
    BY <2>1, <2>2, FS_EmptySet
  <2> QED
    BY <2>2, <2>3 DEF Place
<1>3. ASSUME NEW i \in list, NEW j \in list, i.since < j.since
      PROVE  Cardinality(UpTo(i)) < Cardinality(UpTo(j))
  <2>1. UpTo(i) \subseteq UpTo(j) /\ j \in UpTo(j) /\ j \notin UpTo(i)
    BY <1>1, <1>3
  <2>2. /\ IsFiniteSet(UpTo(i)) /\ Cardinality(UpTo(i)) \in Nat
        /\ IsFiniteSet(UpTo(j)) /\ Cardinality(UpTo(j)) \in Nat
    BY <1>2, FS_CardinalityType
  <2> HIDE DEF UpTo
  <2>3. /\ Cardinality(UpTo(i)) <= Cardinality(UpTo(j))
        /\ Cardinality(UpTo(i)) = Cardinality(UpTo(j)) => UpTo(i) = UpTo(j)
    BY <2>1, <2>2, FS_Subset
  <2> QED
    BY <2>1, <2>2, <2>3
<1>4. ASSUME NEW i \in list, NEW j \in list, Place(i, list) = Place(j, list) PROVE i = j
  <2> SUFFICES ASSUME i # j PROVE FALSE
    OBVIOUS
  <2>1. i.since < j.since \/ j.since < i.since
    BY <1>1 DEF OnePerEvent
  <2>2. Cardinality(UpTo(i)) = Cardinality(UpTo(j)) /\ Cardinality(UpTo(i)) \in Nat
    BY <1>2, <1>4
  <2> QED
    BY <1>3, <2>1, <2>2
<1>5. Cardinality(list) \in Nat
  BY FS_CardinalityType
<1> QED
  BY <1>2, <1>4, <1>5

(* So the chain has an answer to what the reminder asks of such a list.    *)
LEMMA AnswerExists ==
    ASSUME NEW list, IsFiniteSet(list), list \subseteq Issue, OnePerEvent(list),
           session \in [Workers -> State]
    PROVE  StatesOf(list) # {}
<1> DEFINE At(n) == CHOOSE i \in list : Place(i, list) = n
           Taken(n) == \E i \in list : Place(i, list) = n
           st == [n \in 1..Cardinality(list) |->
                    IF Taken(n) THEN session[At(n).worker] ELSE "other"]
<1>1. /\ \A i \in list : Place(i, list) \in 1..Cardinality(list)
      /\ \A i, j \in list : Place(i, list) = Place(j, list) => i = j
  BY PlacesFit
<1>2. ASSUME NEW n, Taken(n) PROVE At(n) \in list /\ At(n).worker \in Workers
  <2>1. At(n) \in list
    BY <1>2
  <2> QED
    BY <2>1 DEF Issue
<1>3. st \in [1..Cardinality(list) -> State]
  BY <1>2 DEF State
<1>4. ASSUME NEW i \in list PROVE st[Place(i, list)] = session[i.worker]
  <2>1. Taken(Place(i, list)) /\ At(Place(i, list)) = i
    BY <1>1
  <2> QED
    BY <1>1, <2>1
<1> HIDE DEF st
<1> QED
  BY <1>3, <1>4 DEF StatesOf

(* UnresponsiveWorkerReminderCrawler.ts:39-49: whatever the event crawlers *)
(* stored, rolled back and stored again, the issues of which the reminder  *)
(* asks the states can be told apart by their places, so that each state   *)
(* of the answer is that of one issue's worker.                            *)
THEOREM AskedInOrder ==
    Spec => [](/\ \A i, j \in listed : Place(i, listed) = Place(j, listed) => i = j
               /\ StatesOf(listed) # {})
<1> DEFINE Fits == /\ \A i, j \in listed : Place(i, listed) = Place(j, listed) => i = j
                   /\ StatesOf(listed) # {}
<1>1. Init => ListInv
  BY DEF Init, ListInv, OnePerEvent
<1>2. WorkersInv /\ ListInv => Fits
  BY PlacesFit, AnswerExists DEF WorkersInv, TypeOK, ChunkShape, ListInv
<1> QED
  BY <1>1, <1>2, InvAlways, InitBoardInv, StepBoardInv, StepListInv, PTL DEF Spec

-----------------------------------------------------------------------------
(* The one observation of a pool is the first one that a run looks at: the *)
(* states are asked for then, and not used again.                          *)
OneOfEach == \A o, p \in Observations : PoolOf[o] = PoolOf[p] => o = p

FirstOnly ==
    /\ rpc \in {"idle", "query"} => pool = NoPool
    /\ pool = NoPool => resolved = {}
    /\ pool # NoPool => \A o \in todo : PoolOf[o] # pool
    /\ todo \subseteq Observations /\ current \subseteq Observations

OnceInv == FirstOnly /\ RemovesWhatItAsked

LEMMA InitOnceInv == Init => OnceInv
  BY DEF Init, OnceInv, FirstOnly, RemovesWhatItAsked

LEMMA NotAgain ==
    ASSUME OnceInv, NEW o \in Observations
    PROVE  ~LookUpAgain(o) /\ PoolOf[o] # NoPool
<1>1. PoolOf[o] # NoPool
  BY UnresponsiveAssumption DEF NoPool
<1> QED
  BY <1>1 DEF OnceInv, FirstOnly, LookUpAgain, InTurn, Unasked

LEMMA StepOnceInv ==
    ASSUME OneOfEach, OnceInv, [Next]_vars
    PROVE  OnceInv'
<1>1. ASSUME UNCHANGED reminder PROVE OnceInv'
  BY <1>1 DEF reminder, OnceInv, FirstOnly, RemovesWhatItAsked, ResolvedIn, Place
<1>2. ASSUME EndReminder PROVE OnceInv'
  BY <1>2 DEF EndReminder, OnceInv, FirstOnly, RemovesWhatItAsked
<1>3. CASE StartReminder
  BY <1>3 DEF StartReminder, OnceInv, FirstOnly, RemovesWhatItAsked
<1>4. ASSUME NEW o \in Observations, LookUp(o) PROVE OnceInv'
  BY <1>4 DEF LookUp, OnceInv, FirstOnly, RemovesWhatItAsked
<1>5. CASE QueryStates
  <2>1. PICK o \in current : pool' = PoolOf[o] /\ Judge(o, listed, states', resolved, stamped)
    BY <1>5 DEF QueryStates
  <2>2. /\ todo' = todo \ {o} /\ resolved' = resolved \cup ResolvedIn(listed, states')
        /\ current' = {} /\ listed' = listed /\ rpc' = "gate"
    BY <1>5, <2>1 DEF QueryStates, Judge
  <2>3. o \in Observations /\ PoolOf[o] # NoPool
    BY <2>1, NotAgain DEF OnceInv, FirstOnly
  <2>4. \A p \in todo' : PoolOf[p] # PoolOf[o]
    BY <2>2, <2>3 DEF OnceInv, FirstOnly, OneOfEach
  <2>5. resolved = {}
    BY <1>5 DEF QueryStates, OnceInv, FirstOnly
  <2>6. RemovesWhatItAsked'
    BY <2>2, <2>5 DEF RemovesWhatItAsked, ResolvedIn, Place
  <2> QED
    BY <2>1, <2>2, <2>3, <2>4, <2>6 DEF OnceInv, FirstOnly
<1>6. CASE SendReminder
  <2>1. UNCHANGED <<todo, current, listed, pool, states, resolved>> /\ rpc' = "flush"
    BY <1>6 DEF SendReminder
  <2> QED
    BY <2>1 DEF OnceInv, FirstOnly, RemovesWhatItAsked, ResolvedIn, Place
<1>7. CASE QueryThrows \/ FlushReminder \/ ReminderFails \/ Crash
  BY <1>2, <1>7 DEF QueryThrows, FlushReminder, ReminderFails, Crash
<1>8. CASE Chain
  BY <1>1, <1>8 DEF Chain, EnterUnresponsive, ExitUnresponsive, Emit, StopComputing,
     CloseSession, OpenSession
<1>9. CASE BeginChunk \/ CommitChunk
  BY <1>1, <1>9 DEF BeginChunk, CommitChunk
<1>10. ASSUME NEW w \in Workers, IndexEvent(w) \/ HandlerThrows(w) PROVE OnceInv'
  BY <1>1, <1>10 DEF IndexEvent, HandleEnter, IgnoreEnter, HandleExit, HandlerThrows
<1>11. CASE UNCHANGED vars
  BY <1>1, <1>11 DEF vars, reminder
<1> QED
  BY <1>3, <1>4, <1>5, <1>6, <1>7, <1>8, <1>9, <1>10, <1>11, NotAgain DEF Next, GoOn

(* UnresponsiveWorkerReminderCrawler.ts:69: whatever the other pools and   *)
(* the event crawlers do meanwhile, the reminder removes only issues whose *)
(* worker it asked for and found resolved, if no pool has two              *)
(* observations.                                                           *)
THEOREM OneObservationAsked == ASSUME OneOfEach PROVE Spec => []RemovesWhatItAsked
<1>1. OnceInv /\ [Next]_vars => OnceInv'
  BY StepOnceInv
<1>2. OnceInv => RemovesWhatItAsked
  BY DEF OnceInv
<1> QED
  BY <1>1, <1>2, InitOnceInv, PTL DEF Spec

-----------------------------------------------------------------------------
(* What throws after a look-up has stored a stamp: states that do not      *)
(* match, an ended session, an error.                                      *)
ToldInv ==
    /\ rpc \in {"idle", "flush"} => silenced = {}
    /\ \A w \in Workers : session[w] # "none"

LEMMA StepToldInv ==
    ASSUME OneOfEach, Closable = {}, MaxMishaps = 0, TypeOK, OnceInv, ToldInv, [Next]_vars
    PROVE  ToldInv'
<1>1. ~Mishap
  BY DEF Mishap, TypeOK
<1>2. ~QueryThrows
  BY DEF QueryThrows, TypeOK, Issue, ToldInv
<1>3. \A o \in Observations : ~LookUpAgain(o)
  BY NotAgain
<1>4. ASSUME UNCHANGED <<session, rpc, silenced>> PROVE ToldInv'
  BY <1>4 DEF ToldInv
<1>5. CASE Chain
  <2>1. PICK w \in Workers :
          \/ EnterUnresponsive(w) \/ ExitUnresponsive(w) \/ StopComputing(w)
          \/ CloseSession(w) \/ OpenSession(w)
    BY <1>5 DEF Chain
  <2>2. ~CloseSession(w) /\ ~OpenSession(w)
    BY DEF CloseSession, OpenSession, ToldInv
  <2>3. \E s \in {"other", "unresponsive"} : session' = [session EXCEPT ![w] = s]
    BY <2>1, <2>2 DEF EnterUnresponsive, ExitUnresponsive, Emit, StopComputing
  <2>4. rpc' = rpc /\ silenced' = silenced
    BY <2>1, <2>2 DEF EnterUnresponsive, ExitUnresponsive, Emit, StopComputing, reminder, history
  <2>5. \A v \in Workers : session'[v] # "none"
    BY <2>3 DEF TypeOK, ToldInv
  <2> QED
    BY <2>4, <2>5 DEF ToldInv
<1>6. CASE StartReminder \/ GoOn \/ ReminderFails
  <2>1. session' = session
    BY <1>6 DEF StartReminder, GoOn, LookUp, LookUpAgain, QueryStates, QueryThrows,
       SendReminder, FlushReminder, ReminderFails, chain
  <2>2. rpc' \in {"idle", "flush"} => silenced' = {}
    BY <1>1, <1>2, <1>3, <1>6 DEF StartReminder, GoOn, LookUp, QueryStates, SendReminder,
       FlushReminder, EndReminder, ReminderFails, ToldInv
  <2> QED
    BY <2>1, <2>2 DEF ToldInv
<1>7. CASE BeginChunk \/ CommitChunk \/ Crash
  BY <1>1, <1>4, <1>7 DEF BeginChunk, CommitChunk, Crash, chain, reminder, history
<1>8. ASSUME NEW w \in Workers, IndexEvent(w) \/ HandlerThrows(w) PROVE ToldInv'
  BY <1>1, <1>4, <1>8 DEF IndexEvent, HandleEnter, IgnoreEnter, HandleExit, HandlerThrows,
     chain, reminder, history
<1>9. CASE UNCHANGED vars
  BY <1>4, <1>9 DEF vars
<1> QED
  BY <1>5, <1>6, <1>7, <1>8, <1>9 DEF Next

(* AbstractPeriodicCrawler.ts:132: a stamp of the reminder that is stored  *)
(* stands for a message, if no pool has two observations, no session ends  *)
(* and nothing fails.  The look-up of a later pool stores the stamps of    *)
(* earlier ones all the same; it is one of these three that ends the run   *)
(* before the messages leave.                                              *)
THEOREM UndisturbedTold ==
    ASSUME OneOfEach, Closable = {}, MaxMishaps = 0
    PROVE  Spec => []StampMeansMessage
<1>1. Init => ToldInv
  BY DEF Init, ToldInv
<1>2. OnceInv /\ [Next]_vars => OnceInv'
  BY StepOnceInv
<1>3. WorkersInv /\ OnceInv /\ ToldInv /\ [Next]_vars => ToldInv'
  BY StepToldInv DEF WorkersInv
<1>4. ToldInv => StampMeansMessage
  BY DEF ToldInv, StampMeansMessage
<1> QED
  BY <1>1, <1>2, <1>3, <1>4, InitOnceInv, InvAlways, PTL DEF Spec
=============================================================================
