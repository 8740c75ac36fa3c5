------------------------------- MODULE StakePools -------------------------------
(***************************************************************************)
(* The stake pools and accounts of the chain, copied into the database.    *)
(* Each hour the tasker runs StakePoolsCrawler: it counts the chain's      *)
(* pools, looks for the last one stored and has PhalaEntityFetcher create  *)
(* those after it, each with its owner's account.  The timeout of a run    *)
(* does not stop it, so runs may overlap; meanwhile the API, in a process  *)
(* of its own, creates accounts it is asked for.  A process has one        *)
(* fetcher, with caches, and one connection, which ApiProvider opens once. *)
(*                                                                         *)
(* Everything is read at the chain's head, which is not final: blocks, and *)
(* the pools they created, may be taken back.  persistAndFlush is one      *)
(* step, which inserts the row or is rejected by the unique index.         *)
(***************************************************************************)
EXTENDS Integers, Sequences

CONSTANTS
    Runs,               \* runs of the crawler that may be under way at once
    Requests,           \* the same of requests for an account
    Accounts,           \* addresses
    Asked,              \* bound: those that requests ask for
    MaxPools,           \* bound: pools of the chain
    MaxMishaps          \* bound: reorganisations, timeouts, failures, restarts

Tasker == "tasker"
ApiApp == "api"
Processes == {Tasker, ApiApp}
Actors == Runs \cup Requests
ProcessOf(x) == IF x \in Runs THEN Tasker ELSE ApiApp

Pools == 0..MaxPools - 1
NoAccount == "none"

ASSUME PoolsAssumption ==
    /\ MaxPools \in Nat /\ MaxMishaps \in Nat
    /\ Runs \cap Requests = {}
    /\ Asked \subseteq Accounts
    /\ NoAccount \notin Accounts

VARIABLES
    chain,              \* the owners of the chain's pools, in order
    takenBack,          \* pools a reorganisation of the chain removed
    accounts,           \* database: addresses of the rows of phala_account
    owner,              \* database: the owner of each row of phala_stakepool
    cachedAccounts,     \* _accounts of each process's fetcher
    cachedPools,        \* _stakePools of the tasker's fetcher
    connection,         \* each process's connection
    opened,             \* connections the process has opened
    pc,                 \* what each run or request does next
    count,              \* stakePoolCount of the run
    pid,                \* the pool the run is at
    address,            \* the account it is at
    mishaps

database == <<accounts, owner>>
cache == <<cachedAccounts, cachedPools>>
network == <<connection, opened>>
local == <<pc, count, pid, address>>
outside == <<chain, takenBack>>
vars == <<database, cache, network, local, outside, mishaps>>

Steps == {"idle", "count", "last", "findPool", "queryPool",
          "findAccount", "insertAccount", "insertPool"}

TypeOK ==
    /\ chain \in Seq(Accounts) /\ Len(chain) <= MaxPools
    /\ takenBack \subseteq Pools
    /\ accounts \subseteq Accounts
    /\ owner \in [Pools -> Accounts \cup {NoAccount}]
    /\ cachedAccounts \in [Processes -> SUBSET Accounts]
    /\ cachedPools \subseteq Pools
    /\ connection \in [Processes -> {"none", "connecting", "up"}]
    /\ opened \in [Processes -> Nat]
    /\ pc \in [Actors -> Steps]
    /\ count \in [Actors -> 0..MaxPools]
    /\ pid \in [Actors -> 0..MaxPools]
    /\ address \in [Actors -> Accounts \cup {NoAccount}]
    /\ mishaps \in 0..MaxMishaps

Init ==
    /\ chain = <<>> /\ takenBack = {}
    /\ accounts = {} /\ owner = [p \in Pools |-> NoAccount]
    /\ cachedAccounts = [q \in Processes |-> {}] /\ cachedPools = {}
    /\ connection = [q \in Processes |-> "none"]
    /\ opened = [q \in Processes |-> 0]
    /\ pc = [x \in Actors |-> "idle"]
    /\ count = [x \in Actors |-> 0]
    /\ pid = [x \in Actors |-> 0]
    /\ address = [x \in Actors |-> NoAccount]
    /\ mishaps = 0

Stored(p) == owner[p] # NoAccount

GoesOn(x, step, n, p, a) ==
    /\ pc' = [pc EXCEPT ![x] = step]
    /\ count' = [count EXCEPT ![x] = n]
    /\ pid' = [pid EXCEPT ![x] = p]
    /\ address' = [address EXCEPT ![x] = a]

Ends(x) == GoesOn(x, "idle", 0, 0, NoAccount)

-----------------------------------------------------------------------------
(* getApi: who finds no promise makes one, all others wait for the same.   *)
(* As a mistake: who finds no connection makes one.                        *)
UnopenedYet(q) == connection[q] # "up"
Unopened(q) == connection[q] = "none"

GetApi(q) ==
    /\ connection' = [connection EXCEPT ![q] = IF @ = "up" THEN @ ELSE "connecting"]
    /\ opened' = [opened EXCEPT ![q] = IF Unopened(q) THEN @ + 1 ELSE @]

Connect(q) ==
    /\ connection[q] = "connecting"
    /\ connection' = [connection EXCEPT ![q] = "up"]
    /\ UNCHANGED <<database, cache, opened, local, outside, mishaps>>

-----------------------------------------------------------------------------
(* StakePoolsCrawler.  As mistakes: it takes the last pool's id for their  *)
(* count, or their count for the last pool's id.                           *)
StartRun(r) ==
    /\ pc[r] = "idle"
    /\ GetApi(Tasker)
    /\ GoesOn(r, "count", 0, 0, NoAccount)
    /\ UNCHANGED <<database, cache, outside, mishaps>>

CountPoolsLast(r) ==
    /\ pc[r] = "count"
    /\ connection[Tasker] = "up"
    /\ GoesOn(r, "last", IF chain = <<>> THEN 0 ELSE Len(chain) - 1, 0, NoAccount)
    /\ UNCHANGED <<database, cache, network, outside, mishaps>>

CountPoolsAsLast(r) ==
    /\ pc[r] = "count"
    /\ connection[Tasker] = "up"
    /\ GoesOn(r, "last", Len(chain) + 1, 0, NoAccount)
    /\ UNCHANGED <<database, cache, network, outside, mishaps>>

CountPools(r) ==
    /\ pc[r] = "count"
    /\ connection[Tasker] = "up"
    /\ GoesOn(r, "last", Len(chain), 0, NoAccount)
    /\ UNCHANGED <<database, cache, network, outside, mishaps>>

(* n is the first pool after the last one that is stored.  *)
AfterLast(n) ==
    /\ \A p \in Pools : Stored(p) => p < n
    /\ n > 0 => Stored(n - 1)

FindLast(r) ==
    /\ pc[r] = "last"
    /\ \E n \in 0..MaxPools : AfterLast(n) /\ GoesOn(r, "findPool", count[r], n, NoAccount)
    /\ UNCHANGED <<database, cache, network, outside, mishaps>>

(* The loop's next pool.  *)
NextPool(r) == GoesOn(r, "findPool", count[r], pid[r] + 1, NoAccount)

EndRun(r) ==
    /\ pc[r] = "findPool"
    /\ pid[r] >= count[r]
    /\ Ends(r)
    /\ UNCHANGED <<database, cache, network, outside, mishaps>>

(* getOrCreateStakePool: a pool the cache or the database has is left.     *)
FindPool(r) ==
    LET p == pid[r] IN
    /\ pc[r] = "findPool"
    /\ p < count[r]
    /\ p \in cachedPools \/ Stored(p)
    /\ cachedPools' = cachedPools \cup {p}
    /\ NextPool(r)
    /\ UNCHANGED <<database, cachedAccounts, network, outside, mishaps>>

MissPool(r) ==
    LET p == pid[r] IN
    /\ pc[r] = "findPool"
    /\ p < count[r]
    /\ p \notin cachedPools
    /\ ~Stored(p)
    /\ GoesOn(r, "queryPool", count[r], p, NoAccount)
    /\ UNCHANGED <<database, cache, network, outside, mishaps>>

(* A pool the chain does not have any more is passed over.  *)
QueryPool(r) ==
    LET p == pid[r] IN
    /\ pc[r] = "queryPool"
    /\ IF p < Len(chain)
       THEN GoesOn(r, "findAccount", count[r], p, chain[p + 1])
       ELSE NextPool(r)
    /\ UNCHANGED <<database, cache, network, outside, mishaps>>

(* As mistakes: a rejected insert does not end the run; the owner is kept  *)
(* in the fetcher, where another run changes it; the row another run       *)
(* stored is replaced.                                                     *)
InsertPoolLenient(r) ==
    LET p == pid[r] IN
    /\ pc[r] = "insertPool"
    /\ ~Stored(p)
    /\ \/ owner' = [owner EXCEPT ![p] = address[r]] /\ mishaps' = mishaps
       \/ mishaps < MaxMishaps /\ mishaps' = mishaps + 1 /\ owner' = owner
    /\ NextPool(r)
    /\ UNCHANGED <<accounts, cache, network, outside>>

InsertPoolShared(r) ==
    LET p == pid[r] IN
    /\ pc[r] = "insertPool"
    /\ ~Stored(p)
    /\ \E s \in Runs : address[s] \in accounts /\ owner' = [owner EXCEPT ![p] = address[s]]
    /\ cachedPools' = cachedPools \cup {p}
    /\ NextPool(r)
    /\ UNCHANGED <<accounts, cachedAccounts, network, outside, mishaps>>

InsertPoolUpsert(r) ==
    /\ pc[r] = "insertPool"
    /\ owner' = [owner EXCEPT ![pid[r]] = address[r]]
    /\ cachedPools' = cachedPools \cup {pid[r]}
    /\ NextPool(r)
    /\ UNCHANGED <<accounts, cachedAccounts, network, outside, mishaps>>

InsertPool(r) ==
    LET p == pid[r] IN
    /\ pc[r] = "insertPool"
    /\ ~Stored(p)
    /\ owner' = [owner EXCEPT ![p] = address[r]]
    /\ cachedPools' = cachedPools \cup {p}
    /\ NextPool(r)
    /\ UNCHANGED <<accounts, cachedAccounts, network, outside, mishaps>>

(* The unique index on onChainId rejects a pool another run stored.  *)
RejectPool(r) ==
    /\ pc[r] = "insertPool"
    /\ Stored(pid[r])
    /\ Ends(r)
    /\ UNCHANGED <<database, cache, network, outside, mishaps>>

-----------------------------------------------------------------------------
(* getOrCreateAccount, for the owner of a pool or for a request.           *)
Cache(q, a) == cachedAccounts' = [cachedAccounts EXCEPT ![q] = @ \cup {a}]

(* What the caller does with the account.  *)
HasAccount(x) ==
    IF x \in Runs THEN GoesOn(x, "insertPool", count[x], pid[x], address[x]) ELSE Ends(x)

FindAccount(x) ==
    LET a == address[x]
        q == ProcessOf(x)
    IN
    /\ pc[x] = "findAccount"
    /\ a \in cachedAccounts[q] \cup accounts
    /\ Cache(q, a)
    /\ HasAccount(x)
    /\ UNCHANGED <<database, cachedPools, network, outside, mishaps>>

(* The account's identity is asked of the chain, so it takes a connection. *)
(* As mistakes: the account is cached when it is made; a connection that   *)
(* is there is counted upon.                                               *)
MissAccountCached(x) ==
    LET a == address[x]
        q == ProcessOf(x)
    IN
    /\ pc[x] = "findAccount"
    /\ a \notin cachedAccounts[q] \cup accounts
    /\ GetApi(q)
    /\ Cache(q, a)
    /\ GoesOn(x, "insertAccount", count[x], pid[x], a)
    /\ UNCHANGED <<database, cachedPools, outside, mishaps>>

MissAccountUnasked(x) ==
    /\ pc[x] = "findAccount"
    /\ address[x] \notin cachedAccounts[ProcessOf(x)] \cup accounts
    /\ GoesOn(x, "insertAccount", count[x], pid[x], address[x])
    /\ UNCHANGED <<database, cache, network, outside, mishaps>>

MissAccount(x) ==
    LET a == address[x]
        q == ProcessOf(x)
    IN
    /\ pc[x] = "findAccount"
    /\ a \notin cachedAccounts[q] \cup accounts
    /\ GetApi(q)
    /\ GoesOn(x, "insertAccount", count[x], pid[x], a)
    /\ UNCHANGED <<database, cache, outside, mishaps>>

InsertAccount(x) ==
    LET a == address[x] IN
    /\ pc[x] = "insertAccount"
    /\ connection[ProcessOf(x)] = "up"
    /\ a \notin accounts
    /\ accounts' = accounts \cup {a}
    /\ Cache(ProcessOf(x), a)
    /\ HasAccount(x)
    /\ UNCHANGED <<owner, cachedPools, network, outside, mishaps>>

(* The unique index on address: the run, or the request, fails.  *)
RejectAccount(x) ==
    /\ pc[x] = "insertAccount"
    /\ connection[ProcessOf(x)] = "up"
    /\ address[x] \in accounts
    /\ Ends(x)
    /\ UNCHANGED <<database, cache, network, outside, mishaps>>

(* AccountController.findAccountByAddress.  *)
AskAccount(x) ==
    /\ pc[x] = "idle"
    /\ \E a \in Asked : GoesOn(x, "findAccount", 0, 0, a)
    /\ UNCHANGED <<database, cache, network, outside, mishaps>>

-----------------------------------------------------------------------------
(* The chain makes a pool, and may take back the last ones.  *)
NewPool ==
    /\ Len(chain) < MaxPools
    /\ \E a \in Accounts : chain' = Append(chain, a)
    /\ UNCHANGED <<database, cache, network, local, takenBack, mishaps>>

Reorganise ==
    /\ mishaps < MaxMishaps
    /\ mishaps' = mishaps + 1
    /\ \E n \in 0..Len(chain) - 1 :
         /\ chain' = SubSeq(chain, 1, n)
         /\ takenBack' = takenBack \cup n..Len(chain) - 1
    /\ UNCHANGED <<database, cache, network, local>>

(* A call of the chain or the database fails, or getApi's timeout does not *)
(* wait for the connection - which is made all the same.                   *)
Fail(x) ==
    /\ pc[x] # "idle"
    /\ mishaps < MaxMishaps
    /\ mishaps' = mishaps + 1
    /\ Ends(x)
    /\ UNCHANGED <<database, cache, network, outside>>

Restart(q) ==
    LET Ended(x) == ProcessOf(x) = q IN
    /\ mishaps < MaxMishaps
    /\ mishaps' = mishaps + 1
    /\ cachedAccounts' = [cachedAccounts EXCEPT ![q] = {}]
    /\ cachedPools' = IF q = Tasker THEN {} ELSE cachedPools
    /\ connection' = [connection EXCEPT ![q] = "none"]
    /\ opened' = [opened EXCEPT ![q] = 0]
    /\ pc' = [x \in Actors |-> IF Ended(x) THEN "idle" ELSE pc[x]]
    /\ count' = [x \in Actors |-> IF Ended(x) THEN 0 ELSE count[x]]
    /\ pid' = [x \in Actors |-> IF Ended(x) THEN 0 ELSE pid[x]]
    /\ address' = [x \in Actors |-> IF Ended(x) THEN NoAccount ELSE address[x]]
    /\ UNCHANGED <<database, outside>>

AccountStep(x) ==
    FindAccount(x) \/ MissAccount(x) \/ InsertAccount(x) \/ RejectAccount(x)

RunStep(r) ==
    \/ CountPools(r) \/ FindLast(r) \/ EndRun(r)
    \/ FindPool(r) \/ MissPool(r) \/ QueryPool(r) \/ InsertPool(r) \/ RejectPool(r)
    \/ AccountStep(r)

Next ==
    \/ \E r \in Runs : StartRun(r) \/ RunStep(r)
    \/ \E x \in Requests : AskAccount(x) \/ AccountStep(x)
    \/ \E q \in Processes : Connect(q) \/ Restart(q)
    \/ \E x \in Actors : Fail(x)
    \/ NewPool
    \/ Reorganise

Spec == Init /\ [][Next]_vars

(* Cron starts the crawler each hour, awaited calls return, and the        *)
(* connection is made.                                                     *)
FairSpec ==
    /\ Spec
    /\ \A r \in Runs : WF_vars(StartRun(r)) /\ WF_vars(RunStep(r))
    /\ \A x \in Requests : WF_vars(AccountStep(x))
    /\ \A q \in Processes : WF_vars(Connect(q))

-----------------------------------------------------------------------------
(* The crawler never looks behind the last pool it stored, so no run may   *)
(* store a pool before those below it - whoever else stores pools, and     *)
(* whichever runs fail - unless the chain took such a pool back.           *)
NoGap ==
    \A p, q \in Pools : p < q /\ Stored(q) => Stored(p) \/ p \in takenBack

(* A stored pool, which is never read again, has the owner the chain says  *)
(* it has, unless it was taken back.                                       *)
OwnerOfChain ==
    \A p \in Pools : Stored(p) /\ p \notin takenBack =>
        p < Len(chain) /\ owner[p] = chain[p + 1]

(* Nobody is given an account or a pool whose row was never inserted: not  *)
(* by a fetcher whose insert failed or has not come back.                  *)
CachedAreStored ==
    /\ \A q \in Processes : cachedAccounts[q] \subseteq accounts
    /\ \A p \in cachedPools : Stored(p)
    /\ \A p \in Pools : Stored(p) => owner[p] \in accounts

(* However many callers wait for it, and give up waiting, a process opens  *)
(* one connection.                                                         *)
OneConnection == \A q \in Processes : opened[q] <= 1

(* Who waits for the connection waits for one that is made or being made,  *)
(* and a run that has counted the pools has one up, so that none waits for *)
(* ever - though a process that restarts loses it.                         *)
WaitersConnected ==
    /\ \A x \in Actors :
         pc[x] \in {"count", "insertAccount"} => connection[ProcessOf(x)] # "none"
    /\ \A r \in Runs : pc[r] \notin {"idle", "count"} => connection[Tasker] = "up"

(* The rows are a registry of the chain's pools: written once each, in     *)
(* order, with the chain's owner, by however many runs, and never again.   *)
Registry == INSTANCE PoolRegistry
PoolRegistrySpec == Registry!Spec

(* Each pool of the chain gets stored, or is taken back.  *)
StoresPools ==
    \A p \in Pools : (p < Len(chain)) ~> (Stored(p) \/ p \in takenBack)
=============================================================================
