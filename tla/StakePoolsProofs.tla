--------------------------- MODULE StakePoolsProofs ----------------------------
(***************************************************************************)
(* For any number of overlapping runs and requests, accounts, pools and    *)
(* mishaps: what the crawler stores has no gap and the chain's owners, a   *)
(* fetcher hands out nothing that is not stored, and a process opens one   *)
(* connection.                                                             *)
(***************************************************************************)
EXTENDS StakePools, TLAPS

USE DEF Unopened

(* What a run knows: it counted pools that the chain had, all below the    *)
(* one it is at are stored, and the account it has is the owner's - unless *)
(* pools were taken back.                                                  *)
InLoop == {"findPool", "queryPool", "findAccount", "insertAccount", "insertPool"}
HasOwner == {"findAccount", "insertAccount", "insertPool"}

RunAims(r) ==
    /\ pc[r] \in InLoop \cup {"last"} =>
         \A p \in Pools : p < count[r] => p < Len(chain) \/ p \in takenBack
    /\ pc[r] \in InLoop => \A p \in Pools : p < pid[r] => Stored(p) \/ p \in takenBack
    /\ pc[r] \in InLoop \ {"findPool"} => pid[r] < count[r]
    /\ pc[r] \in HasOwner =>
         pid[r] \in takenBack \/ (pid[r] < Len(chain) /\ chain[pid[r] + 1] = address[r])

Aims(x) ==
    /\ x \in Requests => pc[x] \in {"idle", "findAccount", "insertAccount"}
    /\ pc[x] \in HasOwner => address[x] \in Accounts
    /\ pc[x] = "insertPool" => address[x] \in accounts
    /\ x \in Runs => RunAims(x)

ConnectionsCounted ==
    \A q \in Processes : opened[q] <= 1 /\ (connection[q] = "none" => opened[q] = 0)

PoolsInv ==
    /\ TypeOK
    /\ NoGap
    /\ OwnerOfChain
    /\ CachedAreStored
    /\ ConnectionsCounted
    /\ \A x \in Actors : Aims(x)

(* What no step undoes.  *)
Grows ==
    /\ takenBack \subseteq takenBack'
    /\ accounts \subseteq accounts'
    /\ \A p \in Pools : Stored(p) => owner'[p] = owner[p]
    /\ \A p \in Pools : p < Len(chain) =>
         \/ p \in takenBack'
         \/ p < Len(chain') /\ chain'[p + 1] = chain[p + 1]

LEMMA InitPoolsInv == Init => PoolsInv
<1> SUFFICES ASSUME Init PROVE PoolsInv
  OBVIOUS
<1>1. TypeOK
  BY PoolsAssumption DEF Init, TypeOK, Steps
<1>2. NoGap /\ OwnerOfChain /\ CachedAreStored /\ ConnectionsCounted
  BY DEF Init, NoGap, OwnerOfChain, CachedAreStored, ConnectionsCounted, Stored
<1>3. ASSUME NEW x \in Actors PROVE Aims(x)
  BY DEF Init, Aims, RunAims, InLoop, HasOwner
<1> QED
  BY <1>1, <1>2, <1>3 DEF PoolsInv

LEMMA GoesOnTypes ==
    ASSUME TypeOK, NEW x \in Actors, NEW step \in Steps, NEW n \in 0..MaxPools,
           NEW p \in 0..MaxPools, NEW a \in Accounts \cup {NoAccount},
           GoesOn(x, step, n, p, a)
    PROVE  /\ pc' \in [Actors -> Steps]
           /\ count' \in [Actors -> 0..MaxPools]
           /\ pid' \in [Actors -> 0..MaxPools]
           /\ address' \in [Actors -> Accounts \cup {NoAccount}]
           /\ pc'[x] = step /\ count'[x] = n /\ pid'[x] = p /\ address'[x] = a
           /\ \A y \in Actors \ {x} :
                /\ pc'[y] = pc[y] /\ count'[y] = count[y]
                /\ pid'[y] = pid[y] /\ address'[y] = address[y]
  BY DEF TypeOK, GoesOn

(* Whoever does not take a step still knows what it knew.  *)
LEMMA AimsKept ==
    ASSUME PoolsInv, Grows, NEW x \in Actors,
           pc'[x] = pc[x], count'[x] = count[x], pid'[x] = pid[x], address'[x] = address[x]
    PROVE  Aims(x)'
<1>1. TypeOK /\ Aims(x)
  BY DEF PoolsInv
<1>2. count[x] \in 0..MaxPools /\ pid[x] \in 0..MaxPools
  BY <1>1 DEF TypeOK
<1>3. /\ x \in Requests => pc'[x] \in {"idle", "findAccount", "insertAccount"}
      /\ pc'[x] \in HasOwner => address'[x] \in Accounts
      /\ pc'[x] = "insertPool" => address'[x] \in accounts'
  BY <1>1 DEF Aims, Grows
<1>4. ASSUME x \in Runs PROVE RunAims(x)'
  <2>1. RunAims(x)
    BY <1>1, <1>4 DEF Aims
  <2>2. pc'[x] \in InLoop \cup {"last"} =>
          \A p \in Pools : p < count'[x] => p < Len(chain') \/ p \in takenBack'
    BY <2>1 DEF RunAims, Grows
  <2>3. pc'[x] \in InLoop => \A p \in Pools : p < pid'[x] => Stored(p)' \/ p \in takenBack'
    BY <2>1 DEF RunAims, Grows, Stored
  <2>4. pc'[x] \in InLoop \ {"findPool"} => pid'[x] < count'[x]
    BY <2>1 DEF RunAims
  <2>5. pc'[x] \in HasOwner =>
          \/ pid'[x] \in takenBack'
          \/ pid'[x] < Len(chain') /\ chain'[pid'[x] + 1] = address'[x]
    <3> SUFFICES ASSUME pc[x] \in HasOwner
                 PROVE  \/ pid[x] \in takenBack'
                        \/ pid[x] < Len(chain') /\ chain'[pid[x] + 1] = address[x]
      OBVIOUS
    <3>1. pid[x] \in Pools
      BY <1>2, <2>1, PoolsAssumption DEF RunAims, HasOwner, InLoop, Pools
    <3> QED
      BY <2>1, <3>1 DEF RunAims, Grows
  <2> QED
    BY <2>2, <2>3, <2>4, <2>5 DEF RunAims
<1> QED
  BY <1>3, <1>4 DEF Aims

LEMMA OthersKept ==
    ASSUME PoolsInv, Grows, NEW x \in Actors, Aims(x)',
           \A y \in Actors \ {x} : /\ pc'[y] = pc[y] /\ count'[y] = count[y]
                                   /\ pid'[y] = pid[y] /\ address'[y] = address[y]
    PROVE  \A y \in Actors : Aims(y)'
  BY AimsKept

(* What a step of x leaves to show.  *)
LEMMA ActorStep ==
    ASSUME PoolsInv, NEW x \in Actors, NEW step \in Steps, NEW n \in 0..MaxPools,
           NEW p \in 0..MaxPools, NEW a \in Accounts \cup {NoAccount},
           GoesOn(x, step, n, p, a), Grows, Aims(x)',
           accounts' \subseteq Accounts, owner' \in [Pools -> Accounts \cup {NoAccount}],
           cachedAccounts' \in [Processes -> SUBSET Accounts], cachedPools' \subseteq Pools,
           connection' \in [Processes -> {"none", "connecting", "up"}],
           opened' \in [Processes -> Nat], mishaps' \in 0..MaxMishaps, UNCHANGED outside,
           NoGap', OwnerOfChain', CachedAreStored', ConnectionsCounted'
    PROVE  PoolsInv'
<1>1. \A y \in Actors : Aims(y)'
  BY GoesOnTypes, OthersKept DEF PoolsInv
<1>2. TypeOK'
  BY GoesOnTypes DEF PoolsInv, TypeOK, outside
<1> QED
  BY <1>1, <1>2 DEF PoolsInv

(* A step that changes no row, no cache and nothing of the chain, and at   *)
(* most asks for the connection.                                           *)
LEMMA LocalStep ==
    ASSUME PoolsInv, NEW x \in Actors, NEW step \in Steps, NEW n \in 0..MaxPools,
           NEW p \in 0..MaxPools, NEW a \in Accounts \cup {NoAccount},
           GoesOn(x, step, n, p, a), UNCHANGED <<database, cache, outside>>,
           mishaps' \in 0..MaxMishaps,
           UNCHANGED network \/ \E q \in Processes : GetApi(q),
           Aims(x)'
    PROVE  PoolsInv'
<1>1. Grows
  BY DEF Grows, Stored, database, outside
<1>2. TypeOK /\ ConnectionsCounted
  BY DEF PoolsInv
<1>3. /\ connection' \in [Processes -> {"none", "connecting", "up"}]
      /\ opened' \in [Processes -> Nat] /\ ConnectionsCounted'
  <2>1. CASE UNCHANGED network
    BY <1>2, <2>1 DEF network, TypeOK, ConnectionsCounted
  <2>2. ASSUME NEW q \in Processes, GetApi(q)
        PROVE  /\ connection' \in [Processes -> {"none", "connecting", "up"}]
               /\ opened' \in [Processes -> Nat] /\ ConnectionsCounted'
    BY <1>2, <2>2 DEF GetApi, TypeOK, ConnectionsCounted
  <2> QED
    BY <2>1, <2>2
<1>4. NoGap' /\ OwnerOfChain' /\ CachedAreStored'
  BY DEF PoolsInv, NoGap, OwnerOfChain, CachedAreStored, Stored, database, cache, outside
<1>5. /\ accounts' \subseteq Accounts /\ owner' \in [Pools -> Accounts \cup {NoAccount}]
      /\ cachedAccounts' \in [Processes -> SUBSET Accounts] /\ cachedPools' \subseteq Pools
  BY <1>2 DEF TypeOK, database, cache
<1> QED
  BY <1>1, <1>3, <1>4, <1>5, ActorStep

(* A step that only caches what is stored.  *)
LEMMA CacheStep ==
    ASSUME PoolsInv, NEW x \in Actors, NEW step \in Steps, NEW n \in 0..MaxPools,
           NEW p \in 0..MaxPools, NEW a \in Accounts \cup {NoAccount},
           GoesOn(x, step, n, p, a), UNCHANGED <<database, network, outside, mishaps>>,
           cachedAccounts' \in [Processes -> SUBSET accounts],
           cachedPools' \subseteq {q \in Pools : Stored(q)},
           Aims(x)'
    PROVE  PoolsInv'
<1>1. Grows
  BY DEF Grows, Stored, database, outside
<1>2. TypeOK /\ CachedAreStored
  BY DEF PoolsInv
<1>3. CachedAreStored'
  BY <1>2 DEF CachedAreStored, Stored, database
<1>4. NoGap' /\ OwnerOfChain' /\ ConnectionsCounted'
  BY DEF PoolsInv, NoGap, OwnerOfChain, ConnectionsCounted, Stored, database, network, outside
<1>5. /\ accounts' \subseteq Accounts /\ owner' \in [Pools -> Accounts \cup {NoAccount}]
      /\ cachedAccounts' \in [Processes -> SUBSET Accounts] /\ cachedPools' \subseteq Pools
      /\ connection' \in [Processes -> {"none", "connecting", "up"}]
      /\ opened' \in [Processes -> Nat] /\ mishaps' \in 0..MaxMishaps
  BY <1>2 DEF TypeOK, database, network
<1> QED
  BY <1>1, <1>3, <1>4, <1>5, ActorStep

(* An actor that is idle knows nothing.  *)
LEMMA IdleAims ==
    ASSUME NEW x \in Actors, pc'[x] = "idle" PROVE Aims(x)'
  BY DEF Aims, RunAims, InLoop, HasOwner

LEMMA LocalTypes ==
    ASSUME PoolsInv, NEW x \in Actors
    PROVE  /\ pc[x] \in Steps /\ count[x] \in 0..MaxPools /\ pid[x] \in 0..MaxPools
           /\ address[x] \in Accounts \cup {NoAccount} /\ MaxPools \in Nat
           /\ (x \in Runs /\ pid[x] < count[x]) => pid[x] \in Pools /\ pid[x] + 1 \in 0..MaxPools
  BY PoolsAssumption DEF PoolsInv, TypeOK, Pools

LEMMA EndsKeeps ==
    ASSUME PoolsInv, NEW x \in Actors, Ends(x), UNCHANGED <<database, cache, network, outside>>,
           mishaps' \in 0..MaxMishaps
    PROVE  PoolsInv'
<1>1. /\ "idle" \in Steps /\ 0 \in 0..MaxPools /\ NoAccount \in Accounts \cup {NoAccount}
      /\ GoesOn(x, "idle", 0, 0, NoAccount)
  BY PoolsAssumption DEF Ends, Steps
<1>2. pc'[x] = "idle"
  BY <1>1, GoesOnTypes DEF PoolsInv
<1> QED
  BY <1>1, <1>2, IdleAims, LocalStep

(* The steps of a run that only change what it knows.  *)
LEMMA RunKnowsMore ==
    ASSUME PoolsInv, NEW r \in Runs,
           CountPools(r) \/ FindLast(r) \/ MissPool(r) \/ QueryPool(r)
    PROVE  PoolsInv'
<1> DEFINE n0 == count[r]
           p0 == pid[r]
<1>1. /\ TypeOK /\ NoGap /\ OwnerOfChain /\ RunAims(r) /\ r \in Actors /\ r \notin Requests
      /\ Len(chain) \in 0..MaxPools /\ MaxPools \in Nat
  BY PoolsAssumption DEF PoolsInv, Aims, Actors, TypeOK
<1>2. /\ count[r] \in 0..MaxPools /\ pid[r] \in 0..MaxPools
      /\ {"last", "findPool", "queryPool", "findAccount"} \subseteq Steps
      /\ NoAccount \in Accounts \cup {NoAccount} /\ 0 \in 0..MaxPools
  BY <1>1, LocalTypes DEF Steps
<1>3. UNCHANGED <<database, cache, network, outside, mishaps>> /\ mishaps' \in 0..MaxMishaps
  BY <1>1 DEF CountPools, FindLast, MissPool, QueryPool, TypeOK
<1>4. chain' = chain /\ takenBack' = takenBack /\ owner' = owner /\ accounts' = accounts
  BY <1>3 DEF outside, database
<1>5. CASE CountPools(r)
  <2>1. GoesOn(r, "last", Len(chain), 0, NoAccount)
    BY <1>5 DEF CountPools
  <2>2. pc'[r] = "last" /\ count'[r] = Len(chain)
    BY <1>1, <1>2, <2>1, GoesOnTypes
  <2>3. Aims(r)'
    BY <1>1, <1>4, <2>2 DEF Aims, RunAims, InLoop, HasOwner
  <2> QED
    BY <1>1, <1>2, <1>3, <2>1, <2>3, LocalStep
<1>6. CASE FindLast(r)
  <2>1. PICK n \in 0..MaxPools : AfterLast(n) /\ GoesOn(r, "findPool", n0, n, NoAccount)
    BY <1>6 DEF FindLast
  <2>2. pc'[r] = "findPool" /\ count'[r] = count[r] /\ pid'[r] = n
    BY <1>1, <1>2, <2>1, GoesOnTypes
  <2>3. \A p \in Pools : p < n => Stored(p) \/ p \in takenBack
    BY <1>1, <2>1 DEF AfterLast, NoGap, Pools
  <2>4. pc[r] = "last"
    BY <1>6 DEF FindLast
  <2>5. Aims(r)'
    BY <1>1, <1>4, <2>2, <2>3, <2>4 DEF Aims, RunAims, InLoop, HasOwner, Stored
  <2> QED
    BY <1>1, <1>2, <1>3, <2>1, <2>5, LocalStep
<1>7. CASE MissPool(r)
  <2>1. /\ GoesOn(r, "queryPool", n0, p0, NoAccount)
        /\ pc[r] = "findPool" /\ pid[r] < count[r]
    BY <1>7 DEF MissPool
  <2>2. pc'[r] = "queryPool" /\ count'[r] = count[r] /\ pid'[r] = pid[r]
    BY <1>1, <1>2, <2>1, GoesOnTypes
  <2>3. Aims(r)'
    BY <1>1, <1>4, <2>1, <2>2 DEF Aims, RunAims, InLoop, HasOwner, Stored
  <2> QED
    BY <1>1, <1>2, <1>3, <2>1, <2>3, LocalStep
<1>8. CASE QueryPool(r)
  <2>1. pc[r] = "queryPool" /\ pid[r] < count[r] /\ pid[r] \in Pools /\ pid[r] + 1 \in 0..MaxPools
    BY <1>1, <1>8, LocalTypes DEF QueryPool, RunAims, InLoop
  <2>2. CASE pid[r] < Len(chain)
    <3> DEFINE a0 == chain[p0 + 1]
    <3>1. GoesOn(r, "findAccount", n0, p0, a0) /\ a0 \in Accounts
      BY <1>1, <1>2, <1>8, <2>2 DEF QueryPool, TypeOK
    <3>2. /\ pc'[r] = "findAccount" /\ count'[r] = count[r]
          /\ pid'[r] = pid[r] /\ address'[r] = a0
      BY <1>1, <1>2, <3>1, GoesOnTypes
    <3>3. Aims(r)'
      BY <1>1, <1>4, <2>1, <2>2, <3>1, <3>2 DEF Aims, RunAims, InLoop, HasOwner, Stored
    <3> QED
      BY <1>1, <1>2, <1>3, <3>1, <3>3, LocalStep
  <2>3. CASE ~(pid[r] < Len(chain))
    <3> DEFINE p1 == p0 + 1
    <3>1. GoesOn(r, "findPool", n0, p1, NoAccount)
      BY <1>8, <2>3 DEF QueryPool, NextPool
    <3>2. pc'[r] = "findPool" /\ count'[r] = count[r] /\ pid'[r] = p1
      BY <1>1, <1>2, <2>1, <3>1, GoesOnTypes
    <3>3. pid[r] \in takenBack
      BY <1>1, <2>1, <2>3 DEF RunAims, InLoop
    <3>4. \A p \in Pools : p < p1 => Stored(p) \/ p \in takenBack
      BY <1>1, <1>2, <2>1, <3>3 DEF RunAims, InLoop, Pools
    <3>5. Aims(r)'
      BY <1>1, <1>4, <2>1, <3>2, <3>4 DEF Aims, RunAims, InLoop, HasOwner, Stored
    <3> QED
      BY <1>1, <1>2, <1>3, <2>1, <3>1, <3>5, LocalStep
  <2> QED
    BY <2>2, <2>3
<1> QED
  BY <1>5, <1>6, <1>7, <1>8

(* A run that is done with its pool goes on to the next one.  *)
LEMMA NextPoolAims ==
    ASSUME PoolsInv, NEW r \in Runs, pid[r] < count[r], pc[r] \in InLoop,
           NextPool(r), UNCHANGED outside, owner' \in [Pools -> Accounts \cup {NoAccount}],
           \A p \in Pools : Stored(p) => Stored(p)', owner'[pid[r]] # NoAccount
    PROVE  /\ GoesOn(r, "findPool", count[r], pid[r] + 1, NoAccount)
           /\ Aims(r)'
<1> DEFINE n0 == count[r]
           p1 == pid[r] + 1
<1>1. /\ TypeOK /\ RunAims(r) /\ r \in Actors /\ r \notin Requests
  BY PoolsAssumption DEF PoolsInv, Aims, Actors
<1>2. /\ n0 \in 0..MaxPools /\ p1 \in 0..MaxPools /\ pid[r] \in Pools /\ MaxPools \in Nat
      /\ "findPool" \in Steps /\ NoAccount \in Accounts \cup {NoAccount}
  BY <1>1, LocalTypes DEF Steps
<1>3. GoesOn(r, "findPool", n0, p1, NoAccount)
  BY DEF NextPool
<1>4. pc'[r] = "findPool" /\ count'[r] = count[r] /\ pid'[r] = p1
  BY <1>1, <1>2, <1>3, GoesOnTypes
<1>5. \A p \in Pools : p < p1 => Stored(p)' \/ p \in takenBack
  BY <1>1, <1>2 DEF RunAims, InLoop, Pools, Stored
<1>6. chain' = chain /\ takenBack' = takenBack
  BY DEF outside
<1>7. Aims(r)'
  BY <1>1, <1>4, <1>5, <1>6 DEF Aims, RunAims, InLoop, HasOwner
<1> QED
  BY <1>3, <1>7

LEMMA FindPoolKeeps == ASSUME PoolsInv, NEW r \in Runs, FindPool(r) PROVE PoolsInv'
<1> DEFINE n0 == count[r]
           p1 == pid[r] + 1
<1>1. /\ TypeOK /\ CachedAreStored /\ r \in Actors
  BY DEF PoolsInv, Actors
<1>2. /\ n0 \in 0..MaxPools /\ p1 \in 0..MaxPools /\ pid[r] \in Pools
      /\ "findPool" \in Steps /\ NoAccount \in Accounts \cup {NoAccount}
  BY <1>1, LocalTypes DEF FindPool, Steps
<1>3. /\ UNCHANGED <<database, network, outside, mishaps>>
      /\ pc[r] \in InLoop /\ pid[r] < count[r] /\ Stored(pid[r]) /\ NextPool(r)
  BY <1>1 DEF FindPool, CachedAreStored, InLoop
<1>4. owner' = owner
  BY <1>3 DEF database
<1>5. owner' \in [Pools -> Accounts \cup {NoAccount}]
  BY <1>1, <1>4 DEF TypeOK
<1>6. (\A p \in Pools : Stored(p) => Stored(p)') /\ owner'[pid[r]] # NoAccount
  BY <1>3, <1>4 DEF Stored
<1>7. GoesOn(r, "findPool", n0, p1, NoAccount) /\ Aims(r)'
  BY <1>3, <1>5, <1>6, NextPoolAims
<1>8. /\ cachedAccounts' \in [Processes -> SUBSET accounts]
      /\ cachedPools' \subseteq {q \in Pools : Stored(q)}
  BY <1>1, <1>2, <1>3 DEF FindPool, TypeOK, CachedAreStored
<1> QED
  BY <1>1, <1>2, <1>3, <1>7, <1>8, CacheStep

LEMMA InsertPoolKeeps == ASSUME PoolsInv, NEW r \in Runs, InsertPool(r) PROVE PoolsInv'
<1> DEFINE n0 == count[r]
           p0 == pid[r]
           p1 == pid[r] + 1
<1>1. /\ TypeOK /\ CachedAreStored /\ NoGap /\ OwnerOfChain /\ ConnectionsCounted
      /\ RunAims(r) /\ Aims(r) /\ r \in Actors
  BY DEF PoolsInv, Actors, Aims
<1>2. pc[r] = "insertPool" /\ ~Stored(p0) /\ NextPool(r)
      /\ owner' = [owner EXCEPT ![p0] = address[r]]
      /\ cachedPools' = cachedPools \cup {p0}
      /\ accounts' = accounts /\ cachedAccounts' = cachedAccounts
      /\ UNCHANGED <<network, outside, mishaps>>
  BY DEF InsertPool
<1>3. pid[r] < count[r] /\ pc[r] \in InLoop /\ address[r] \in accounts
      /\ address[r] \in Accounts /\ address[r] # NoAccount
  BY <1>1, <1>2, PoolsAssumption DEF RunAims, InLoop, Aims, HasOwner
<1>4. /\ n0 \in 0..MaxPools /\ p1 \in 0..MaxPools /\ p0 \in Pools
      /\ "findPool" \in Steps /\ NoAccount \in Accounts \cup {NoAccount}
  BY <1>1, <1>3, LocalTypes DEF Steps
<1>5. owner' \in [Pools -> Accounts \cup {NoAccount}]
      /\ owner'[p0] = address[r] /\ \A p \in Pools : p # p0 => owner'[p] = owner[p]
  BY <1>1, <1>2, <1>3, <1>4 DEF TypeOK
<1>6. (\A p \in Pools : Stored(p) => owner'[p] = owner[p] /\ Stored(p)') /\ owner'[p0] # NoAccount
  BY <1>2, <1>3, <1>5 DEF Stored
<1>7. GoesOn(r, "findPool", n0, p1, NoAccount) /\ Aims(r)'
  BY <1>2, <1>3, <1>5, <1>6, NextPoolAims
<1>8. chain' = chain /\ takenBack' = takenBack
  BY <1>2 DEF outside
<1>9. Grows
  BY <1>2, <1>6, <1>8 DEF Grows
<1>10. NoGap'
  <2> SUFFICES ASSUME NEW p \in Pools, NEW q \in Pools, p < q, Stored(q)'
               PROVE  Stored(p)' \/ p \in takenBack
    BY <1>8 DEF NoGap
  <2>1. CASE q = p0
    BY <1>1, <1>3, <1>6, <2>1 DEF RunAims
  <2>2. CASE q # p0
    BY <1>1, <1>5, <1>6, <2>2 DEF NoGap, Stored
  <2> QED
    BY <2>1, <2>2
<1>11. OwnerOfChain'
  <2> SUFFICES ASSUME NEW p \in Pools, Stored(p)', p \notin takenBack
               PROVE  p < Len(chain) /\ owner'[p] = chain[p + 1]
    BY <1>8 DEF OwnerOfChain
  <2>1. CASE p = p0
    BY <1>1, <1>2, <1>5, <2>1 DEF RunAims, HasOwner
  <2>2. CASE p # p0
    BY <1>1, <1>5, <2>2 DEF OwnerOfChain, Stored
  <2> QED
    BY <2>1, <2>2
<1>12. CachedAreStored'
  <2>1. \A q \in Processes : cachedAccounts'[q] \subseteq accounts'
    BY <1>1, <1>2 DEF CachedAreStored
  <2>2. \A p \in cachedPools' : Stored(p)'
    BY <1>1, <1>2, <1>6 DEF CachedAreStored, TypeOK, Stored
  <2>3. \A p \in Pools : Stored(p)' => owner'[p] \in accounts'
    BY <1>1, <1>2, <1>3, <1>5 DEF CachedAreStored, Stored
  <2> QED
    BY <2>1, <2>2, <2>3 DEF CachedAreStored
<1>13. ConnectionsCounted'
  BY <1>1, <1>2 DEF ConnectionsCounted, network
<1>14. /\ accounts' \subseteq Accounts
       /\ cachedAccounts' \in [Processes -> SUBSET Accounts] /\ cachedPools' \subseteq Pools
       /\ connection' \in [Processes -> {"none", "connecting", "up"}]
       /\ opened' \in [Processes -> Nat] /\ mishaps' \in 0..MaxMishaps
  BY <1>1, <1>2, <1>4 DEF TypeOK, network
<1> QED
  BY <1>1, <1>2, <1>4, <1>5, <1>7, <1>9, <1>10, <1>11, <1>12, <1>13, <1>14, ActorStep

(* An account that is there takes its caller on.  *)
LEMMA HasAccountAims ==
    ASSUME PoolsInv, NEW x \in Actors, pc[x] \in {"findAccount", "insertAccount"},
           HasAccount(x), UNCHANGED <<outside, owner>>,
           address[x] \in accounts', accounts \subseteq accounts'
    PROVE  /\ Aims(x)'
           /\ \E step \in Steps, n, p \in 0..MaxPools, a \in Accounts \cup {NoAccount} :
                 GoesOn(x, step, n, p, a)
<1>1. TypeOK /\ Aims(x)
  BY DEF PoolsInv
<1>2. chain' = chain /\ takenBack' = takenBack /\ owner' = owner
  BY DEF outside
<1> DEFINE n0 == count[x]
           p0 == pid[x]
           a0 == address[x]
<1>3. /\ n0 \in 0..MaxPools /\ p0 \in 0..MaxPools /\ a0 \in Accounts \cup {NoAccount}
      /\ "insertPool" \in Steps
  BY LocalTypes DEF Steps
<1>4. CASE x \in Runs
  <2>1. GoesOn(x, "insertPool", n0, p0, a0)
    BY <1>4 DEF HasAccount
  <2>2. pc'[x] = "insertPool" /\ count'[x] = n0 /\ pid'[x] = p0 /\ address'[x] = a0
    BY <1>1, <1>3, <2>1, GoesOnTypes
  <2>3. RunAims(x)' /\ x \notin Requests
    BY <1>1, <1>2, <1>4, <2>2, PoolsAssumption DEF Aims, RunAims, InLoop, HasOwner, Stored
  <2>4. Aims(x)'
    BY <1>1, <2>2, <2>3 DEF Aims, HasOwner
  <2> QED
    BY <1>3, <2>1, <2>4
<1>5. CASE x \notin Runs
  <2>1. GoesOn(x, "idle", 0, 0, NoAccount) /\ "idle" \in Steps /\ 0 \in 0..MaxPools
    BY <1>5, PoolsAssumption DEF HasAccount, Ends, Steps
  <2>2. pc'[x] = "idle"
    BY <1>1, <2>1, GoesOnTypes
  <2> QED
    BY <2>1, <2>2, IdleAims
<1> QED
  BY <1>4, <1>5

LEMMA AccountStepKeeps == ASSUME PoolsInv, NEW x \in Actors, AccountStep(x) PROVE PoolsInv'
<1>1. TypeOK /\ CachedAreStored /\ NoGap /\ OwnerOfChain /\ ConnectionsCounted /\ Aims(x)
  BY DEF PoolsInv
<1> DEFINE a0 == address[x]
           n0 == count[x]
           p0 == pid[x]
<1>2. ProcessOf(x) \in Processes /\ mishaps \in 0..MaxMishaps
  BY <1>1 DEF ProcessOf, Processes, TypeOK
<1>3. CASE FindAccount(x)
  <2>1. /\ pc[x] = "findAccount" /\ HasAccount(x) /\ Cache(ProcessOf(x), a0)
        /\ UNCHANGED <<database, cachedPools, network, outside, mishaps>>
        /\ a0 \in accounts
    BY <1>1, <1>2, <1>3 DEF FindAccount, CachedAreStored
  <2>2. Aims(x)' /\ \E step \in Steps, n, p \in 0..MaxPools, a \in Accounts \cup {NoAccount} :
                        GoesOn(x, step, n, p, a)
    BY <2>1, HasAccountAims DEF database
  <2>3. /\ cachedAccounts' \in [Processes -> SUBSET accounts]
        /\ cachedPools' \subseteq {q \in Pools : Stored(q)}
    BY <1>1, <2>1 DEF Cache, TypeOK, CachedAreStored
  <2> QED
    BY <2>1, <2>2, <2>3, CacheStep
<1>4. CASE MissAccount(x)
  <2>1. /\ pc[x] = "findAccount" /\ GetApi(ProcessOf(x))
        /\ GoesOn(x, "insertAccount", n0, p0, a0)
        /\ UNCHANGED <<database, cache, outside, mishaps>>
    BY <1>4 DEF MissAccount
  <2>2. /\ n0 \in 0..MaxPools /\ p0 \in 0..MaxPools /\ a0 \in Accounts \cup {NoAccount}
        /\ "insertAccount" \in Steps /\ mishaps' \in 0..MaxMishaps
    BY <1>2, <2>1, LocalTypes DEF Steps
  <2>3. pc'[x] = "insertAccount" /\ count'[x] = n0 /\ pid'[x] = p0 /\ address'[x] = a0
    BY <1>1, <2>1, <2>2, GoesOnTypes
  <2>4. chain' = chain /\ takenBack' = takenBack /\ owner' = owner
    BY <2>1 DEF outside, database
  <2>5. x \in Runs => RunAims(x)'
    BY <1>1, <2>1, <2>3, <2>4 DEF Aims, RunAims, InLoop, HasOwner, Stored
  <2>6. Aims(x)'
    BY <1>1, <2>1, <2>3, <2>5 DEF Aims, HasOwner
  <2> QED
    BY <1>2, <2>1, <2>2, <2>6, LocalStep
<1>5. CASE InsertAccount(x)
  <2>1. /\ pc[x] = "insertAccount" /\ HasAccount(x) /\ Cache(ProcessOf(x), a0)
        /\ accounts' = accounts \cup {a0} /\ owner' = owner /\ cachedPools' = cachedPools
        /\ UNCHANGED <<network, outside, mishaps>>
    BY <1>5 DEF InsertAccount
  <2>2. a0 \in Accounts
    BY <1>1, <2>1 DEF Aims, HasOwner
  <2>3. Aims(x)' /\ \E step \in Steps, n, p \in 0..MaxPools, a \in Accounts \cup {NoAccount} :
                        GoesOn(x, step, n, p, a)
    BY <2>1, HasAccountAims
  <2>4. Grows
    BY <2>1 DEF Grows, outside
  <2>5. /\ accounts' \subseteq Accounts /\ owner' \in [Pools -> Accounts \cup {NoAccount}]
        /\ cachedAccounts' \in [Processes -> SUBSET Accounts] /\ cachedPools' \subseteq Pools
        /\ connection' \in [Processes -> {"none", "connecting", "up"}]
        /\ opened' \in [Processes -> Nat] /\ mishaps' \in 0..MaxMishaps
    BY <1>1, <2>1, <2>2 DEF TypeOK, Cache, network
  <2>6. CachedAreStored'
    BY <1>1, <2>1 DEF CachedAreStored, Cache, Stored, TypeOK
  <2>7. NoGap' /\ OwnerOfChain' /\ ConnectionsCounted'
    BY <1>1, <2>1 DEF NoGap, OwnerOfChain, ConnectionsCounted, Stored, outside, network
  <2> QED
    BY <2>1, <2>3, <2>4, <2>5, <2>6, <2>7, ActorStep
<1>6. CASE RejectAccount(x)
  BY <1>2, <1>6, EndsKeeps DEF RejectAccount
<1> QED
  BY <1>3, <1>4, <1>5, <1>6 DEF AccountStep

LEMMA StartsKeep ==
    ASSUME PoolsInv, NEW x \in Actors,
           (x \in Runs /\ StartRun(x)) \/ (x \in Requests /\ AskAccount(x))
    PROVE  PoolsInv'
<1>1. TypeOK /\ Aims(x) /\ mishaps \in 0..MaxMishaps
  BY DEF PoolsInv, TypeOK
<1>2. /\ 0 \in 0..MaxPools /\ {"count", "findAccount"} \subseteq Steps
      /\ NoAccount \in Accounts \cup {NoAccount}
  BY PoolsAssumption DEF Steps
<1>3. CASE x \in Runs /\ StartRun(x)
  <2>1. /\ GoesOn(x, "count", 0, 0, NoAccount) /\ GetApi(Tasker) /\ Tasker \in Processes
        /\ UNCHANGED <<database, cache, outside, mishaps>>
    BY <1>3 DEF StartRun, Processes
  <2>2. pc'[x] = "count"
    BY <1>1, <1>2, <2>1, GoesOnTypes
  <2>3. Aims(x)'
    BY <1>3, <2>2, PoolsAssumption DEF Aims, RunAims, InLoop, HasOwner
  <2> QED
    BY <1>1, <1>2, <2>1, <2>3, LocalStep
<1>4. CASE x \in Requests /\ AskAccount(x)
  <2>1. PICK a \in Asked : GoesOn(x, "findAccount", 0, 0, a)
    BY <1>4 DEF AskAccount
  <2>2. UNCHANGED <<database, cache, network, outside, mishaps>>
    BY <1>4 DEF AskAccount
  <2>3. a \in Accounts /\ a \in Accounts \cup {NoAccount}
    BY PoolsAssumption
  <2>4. pc'[x] = "findAccount" /\ address'[x] = a
    BY <1>1, <1>2, <2>1, <2>3, GoesOnTypes
  <2>5. Aims(x)'
    BY <1>4, <2>3, <2>4, PoolsAssumption DEF Aims
  <2> QED
    BY <1>1, <1>2, <2>1, <2>2, <2>3, <2>5, LocalStep
<1> QED
  BY <1>3, <1>4

LEMMA ConnectKeeps == ASSUME PoolsInv, NEW q \in Processes, Connect(q) PROVE PoolsInv'
<1>1. Grows
  BY DEF Connect, Grows, outside, database, Stored
<1>2. TypeOK'
  BY DEF PoolsInv, Connect, TypeOK, outside, database, cache, local
<1>3. \A x \in Actors : Aims(x)'
  BY <1>1, AimsKept DEF Connect, local
<1>4. NoGap' /\ OwnerOfChain' /\ CachedAreStored' /\ ConnectionsCounted'
  BY DEF PoolsInv, Connect, NoGap, OwnerOfChain, CachedAreStored, ConnectionsCounted,
     Stored, TypeOK, outside, database, cache
<1> QED
  BY <1>2, <1>3, <1>4 DEF PoolsInv

LEMMA RestartKeeps == ASSUME PoolsInv, NEW q \in Processes, Restart(q) PROVE PoolsInv'
<1>1. Grows
  BY DEF Restart, Grows, outside, database, Stored
<1>2. TypeOK /\ MaxMishaps \in Nat /\ MaxPools \in Nat
  BY PoolsAssumption DEF PoolsInv
<1>3. TypeOK'
  <2>1. /\ pc' \in [Actors -> Steps] /\ count' \in [Actors -> 0..MaxPools]
        /\ pid' \in [Actors -> 0..MaxPools]
        /\ address' \in [Actors -> Accounts \cup {NoAccount}]
    BY <1>2 DEF Restart, TypeOK, Steps
  <2>2. /\ cachedAccounts' \in [Processes -> SUBSET Accounts] /\ cachedPools' \subseteq Pools
        /\ connection' \in [Processes -> {"none", "connecting", "up"}]
        /\ opened' \in [Processes -> Nat] /\ mishaps' \in 0..MaxMishaps
    BY <1>2 DEF Restart, TypeOK
  <2> QED
    BY <1>2, <2>1, <2>2 DEF Restart, TypeOK, outside, database
<1>4. ASSUME NEW x \in Actors PROVE Aims(x)'
  <2>1. CASE ProcessOf(x) = q
    BY <2>1, IdleAims DEF Restart
  <2>2. CASE ProcessOf(x) # q
    BY <1>1, <2>2, AimsKept DEF Restart
  <2> QED
    BY <2>1, <2>2
<1>5. NoGap' /\ OwnerOfChain'
  BY DEF PoolsInv, Restart, NoGap, OwnerOfChain, Stored, outside, database
<1>6. CachedAreStored' /\ ConnectionsCounted'
  BY <1>2 DEF PoolsInv, Restart, CachedAreStored, ConnectionsCounted, Stored, TypeOK, database
<1> QED
  BY <1>3, <1>4, <1>5, <1>6 DEF PoolsInv

LEMMA ChainKeeps == ASSUME PoolsInv, NewPool \/ Reorganise PROVE PoolsInv'
<1>1. /\ TypeOK /\ chain \in Seq(Accounts) /\ Len(chain) \in 0..MaxPools /\ takenBack \subseteq Pools
      /\ MaxPools \in Nat /\ mishaps \in 0..MaxMishaps /\ MaxMishaps \in Nat
  BY PoolsAssumption DEF PoolsInv, TypeOK
<1>2. UNCHANGED <<database, cache, network, local>>
  BY DEF NewPool, Reorganise
<1>3. /\ chain' \in Seq(Accounts) /\ Len(chain') <= MaxPools
      /\ takenBack \subseteq takenBack' /\ takenBack' \subseteq Pools
      /\ mishaps' \in 0..MaxMishaps
      /\ \A p \in Pools : p < Len(chain) =>
           \/ p \in takenBack'
           \/ p < Len(chain') /\ chain'[p + 1] = chain[p + 1]
  <2>1. CASE NewPool
    <3>1. PICK a \in Accounts : chain' = Append(chain, a)
      BY <2>1 DEF NewPool
    <3>2. Len(chain') = Len(chain) + 1 /\ Len(chain) < MaxPools /\ chain' \in Seq(Accounts)
      BY <1>1, <2>1, <3>1 DEF NewPool
    <3>3. \A p \in Pools : p < Len(chain) => chain'[p + 1] = chain[p + 1]
      BY <1>1, <3>1 DEF Pools
    <3> QED
      BY <1>1, <2>1, <3>2, <3>3 DEF NewPool, Pools
  <2>2. CASE Reorganise
    <3>1. PICK n \in 0..Len(chain) - 1 : /\ chain' = SubSeq(chain, 1, n)
                                         /\ takenBack' = takenBack \cup n..Len(chain) - 1
      BY <2>2 DEF Reorganise
    <3>2. /\ Len(chain') = n /\ chain' \in Seq(Accounts)
          /\ \A i \in 1..n : chain'[i] = chain[i]
      BY <1>1, <3>1
    <3>3. takenBack \subseteq takenBack' /\ takenBack' \subseteq Pools
      <4>1. n..Len(chain) - 1 \subseteq Pools
        BY <1>1 DEF Pools
      <4> QED
        BY <1>1, <3>1, <4>1
    <3>4. ASSUME NEW p \in Pools, p < Len(chain)
          PROVE  p \in takenBack' \/ (p < Len(chain') /\ chain'[p + 1] = chain[p + 1])
      BY <1>1, <3>1, <3>2, <3>4 DEF Pools
    <3>5. Len(chain') <= MaxPools /\ mishaps' \in 0..MaxMishaps
      BY <1>1, <2>2, <3>2 DEF Reorganise
    <3> QED
      BY <3>2, <3>3, <3>4, <3>5
  <2> QED
    BY <2>1, <2>2
<1>4. Grows
  BY <1>2, <1>3 DEF Grows, database
<1>5. \A x \in Actors : Aims(x)'
  BY <1>2, <1>4, AimsKept DEF local
<1>6. TypeOK'
  BY <1>1, <1>2, <1>3 DEF TypeOK, database, cache, network, local
<1>7. OwnerOfChain'
  BY <1>2, <1>3 DEF PoolsInv, OwnerOfChain, Stored, database
<1>8. NoGap' /\ CachedAreStored' /\ ConnectionsCounted'
  BY <1>2, <1>3 DEF PoolsInv, NoGap, CachedAreStored, ConnectionsCounted, Stored, database,
     cache, network
<1> QED
  BY <1>5, <1>6, <1>7, <1>8 DEF PoolsInv

LEMMA StepPoolsInv == PoolsInv /\ [Next]_vars => PoolsInv'
<1> SUFFICES ASSUME PoolsInv, [Next]_vars PROVE PoolsInv'
  OBVIOUS
<1>1. ASSUME NEW r \in Runs, StartRun(r) PROVE PoolsInv'
  BY <1>1, StartsKeep DEF Actors
<1>2. ASSUME NEW r \in Runs, RunStep(r) PROVE PoolsInv'
  <2>1. r \in Actors /\ mishaps \in 0..MaxMishaps
    BY DEF Actors, PoolsInv, TypeOK
  <2>2. CASE CountPools(r) \/ FindLast(r) \/ MissPool(r) \/ QueryPool(r)
    BY <2>2, RunKnowsMore
  <2>3. CASE FindPool(r)
    BY <2>3, FindPoolKeeps
  <2>4. CASE InsertPool(r)
    BY <2>4, InsertPoolKeeps
  <2>5. CASE EndRun(r) \/ RejectPool(r)
    BY <2>1, <2>5, EndsKeeps DEF EndRun, RejectPool
  <2>6. CASE AccountStep(r)
    BY <2>1, <2>6, AccountStepKeeps
  <2> QED
    BY <1>2, <2>2, <2>3, <2>4, <2>5, <2>6 DEF RunStep
<1>3. ASSUME NEW x \in Requests, AskAccount(x) \/ AccountStep(x) PROVE PoolsInv'
  BY <1>3, StartsKeep, AccountStepKeeps DEF Actors
<1>4. ASSUME NEW q \in Processes, Connect(q) \/ Restart(q) PROVE PoolsInv'
  BY <1>4, ConnectKeeps, RestartKeeps
<1>5. ASSUME NEW x \in Actors, Fail(x) PROVE PoolsInv'
  <2>1. /\ Ends(x) /\ UNCHANGED <<database, cache, network, outside>>
        /\ mishaps' \in 0..MaxMishaps
    BY <1>5, PoolsAssumption DEF Fail, PoolsInv, TypeOK
  <2> QED
    BY <2>1, EndsKeeps
<1>6. CASE NewPool \/ Reorganise
  BY <1>6, ChainKeeps
<1>7. CASE UNCHANGED vars
  <2>1. Grows
    BY <1>7 DEF vars, Grows, outside, database
  <2>2. \A x \in Actors : Aims(x)'
    BY <1>7, <2>1, AimsKept DEF vars, local
  <2> QED
    BY <1>7, <2>2 DEF vars, database, cache, network, local, outside, PoolsInv, TypeOK,
       NoGap, OwnerOfChain, CachedAreStored, ConnectionsCounted, Stored
<1> QED
  BY <1>1, <1>2, <1>3, <1>4, <1>5, <1>6, <1>7 DEF Next

-----------------------------------------------------------------------------
(* Of who waits for a connection only the connection and the place of each *)
(* caller matter.                                                          *)
LEMMA WaitersStep ==
    ASSUME TypeOK, WaitersConnected, NEW x \in Actors, NEW step,
           pc' = [pc EXCEPT ![x] = step],
           UNCHANGED network \/ GetApi(ProcessOf(x)),
           step \in {"count", "insertAccount"} => connection'[ProcessOf(x)] # "none",
           x \in Runs /\ step \notin {"idle", "count"} => connection[Tasker] = "up"
    PROVE  WaitersConnected'
<1>1. /\ pc'[x] = step
      /\ \A y \in Actors \ {x} : pc'[y] = pc[y]
  BY DEF TypeOK
<1>2. \A q \in Processes :
        /\ connection[q] # "none" => connection'[q] # "none"
        /\ connection[q] = "up" => connection'[q] = "up"
  BY DEF TypeOK, network, GetApi
<1>3. Tasker \in Processes /\ \A y \in Actors : ProcessOf(y) \in Processes
  BY DEF Processes, ProcessOf
<1>4. ASSUME NEW y \in Actors, pc'[y] \in {"count", "insertAccount"}
      PROVE  connection'[ProcessOf(y)] # "none"
  <2>1. CASE y = x
    BY <1>1, <1>4, <2>1
  <2>2. CASE y # x
    BY <1>1, <1>2, <1>3, <1>4, <2>2 DEF WaitersConnected
  <2> QED
    BY <2>1, <2>2
<1>5. ASSUME NEW r \in Runs, pc'[r] \notin {"idle", "count"} PROVE connection'[Tasker] = "up"
  <2>1. r \in Actors
    BY DEF Actors
  <2>2. CASE r = x
    BY <1>1, <1>2, <1>3, <1>5, <2>2
  <2>3. CASE r # x
    BY <1>1, <1>2, <1>3, <1>5, <2>1, <2>3 DEF WaitersConnected
  <2> QED
    BY <2>2, <2>3
<1> QED
  BY <1>4, <1>5 DEF WaitersConnected

LEMMA WaitersAccountStep ==
    ASSUME TypeOK, WaitersConnected, NEW x \in Actors,
           AccountStep(x) \/ Fail(x) \/ (x \in Requests /\ AskAccount(x))
    PROVE  WaitersConnected'
<1>1. x \in Runs /\ pc[x] \in {"findAccount", "insertAccount"} => connection[Tasker] = "up"
  BY DEF WaitersConnected
<1>2. CASE Ends(x) /\ UNCHANGED network
  <2>1. pc' = [pc EXCEPT ![x] = "idle"]
    BY <1>2 DEF Ends, GoesOn
  <2> QED
    BY <1>2, <2>1, WaitersStep
<1>3. CASE HasAccount(x) /\ UNCHANGED network /\ pc[x] \in {"findAccount", "insertAccount"}
  <2>1. CASE x \in Runs
    <3>1. pc' = [pc EXCEPT ![x] = "insertPool"]
      BY <1>3, <2>1 DEF HasAccount, GoesOn
    <3> QED
      BY <1>1, <1>3, <2>1, <3>1, WaitersStep
  <2>2. CASE x \notin Runs
    BY <1>2, <1>3, <2>2 DEF HasAccount
  <2> QED
    BY <2>1, <2>2
<1>4. CASE MissAccount(x)
  <2>1. /\ pc' = [pc EXCEPT ![x] = "insertAccount"] /\ pc[x] = "findAccount"
        /\ GetApi(ProcessOf(x)) /\ ProcessOf(x) \in Processes
    BY <1>4 DEF MissAccount, GoesOn, ProcessOf, Processes
  <2>2. connection'[ProcessOf(x)] # "none"
    BY <2>1 DEF GetApi, TypeOK
  <2> QED
    BY <1>1, <2>1, <2>2, WaitersStep
<1>5. CASE x \in Requests /\ AskAccount(x)
  <2>1. pc' = [pc EXCEPT ![x] = "findAccount"] /\ UNCHANGED network /\ x \notin Runs
    BY <1>5, PoolsAssumption DEF AskAccount, GoesOn
  <2> QED
    BY <2>1, WaitersStep
<1> QED
  BY <1>2, <1>3, <1>4, <1>5 DEF AccountStep, FindAccount, InsertAccount, RejectAccount, Fail

LEMMA WaitersRunStep ==
    ASSUME TypeOK, WaitersConnected, NEW r \in Runs, StartRun(r) \/ RunStep(r)
    PROVE  WaitersConnected'
<1>1. r \in Actors /\ ProcessOf(r) = Tasker /\ Tasker \in Processes
  BY DEF Actors, ProcessOf, Processes
<1>2. pc[r] \notin {"idle", "count"} => connection[Tasker] = "up"
  BY DEF WaitersConnected
<1>3. CASE StartRun(r)
  <2>1. pc' = [pc EXCEPT ![r] = "count"] /\ GetApi(Tasker)
    BY <1>3 DEF StartRun, GoesOn
  <2>2. connection'[Tasker] # "none"
    BY <1>1, <2>1 DEF GetApi, TypeOK
  <2> QED
    BY <1>1, <2>1, <2>2, WaitersStep
<1>4. CASE AccountStep(r)
  BY <1>1, <1>4, WaitersAccountStep
<1>5. ASSUME RunStep(r), ~AccountStep(r)
      PROVE  /\ UNCHANGED network /\ connection[Tasker] = "up"
             /\ \E step \in {"idle", "last", "findPool", "queryPool", "findAccount"} :
                   pc' = [pc EXCEPT ![r] = step]
  <2>1. UNCHANGED network /\ connection[Tasker] = "up"
    BY <1>2, <1>5 DEF RunStep, CountPools, FindLast, EndRun, FindPool, MissPool, QueryPool,
       InsertPool, RejectPool
  <2>2. \E step \in {"idle", "last", "findPool", "queryPool", "findAccount"} :
           pc' = [pc EXCEPT ![r] = step]
    <3>1. CASE CountPools(r) \/ FindLast(r) \/ MissPool(r) \/ EndRun(r) \/ RejectPool(r)
      BY <3>1 DEF CountPools, FindLast, MissPool, EndRun, RejectPool, Ends, GoesOn
    <3>2. CASE FindPool(r) \/ QueryPool(r) \/ InsertPool(r)
      BY <3>2 DEF FindPool, QueryPool, InsertPool, NextPool, GoesOn
    <3> QED
      BY <1>5, <3>1, <3>2 DEF RunStep
  <2> QED
    BY <2>1, <2>2
<1> QED
  BY <1>1, <1>3, <1>4, <1>5, WaitersStep

LEMMA StepWaiters == TypeOK /\ WaitersConnected /\ [Next]_vars => WaitersConnected'
<1> SUFFICES ASSUME TypeOK, WaitersConnected, [Next]_vars PROVE WaitersConnected'
  OBVIOUS
<1>1. ASSUME NEW q \in Processes, Connect(q) PROVE WaitersConnected'
  <2>1. pc' = pc /\ \A p \in Processes :
            /\ connection[p] # "none" => connection'[p] # "none"
            /\ connection[p] = "up" => connection'[p] = "up"
    BY <1>1 DEF Connect, TypeOK, local
  <2> QED
    BY <2>1 DEF WaitersConnected, ProcessOf, Processes
<1>2. ASSUME NEW q \in Processes, Restart(q) PROVE WaitersConnected'
  <2>1. \A x \in Actors :
           /\ ProcessOf(x) = q => pc'[x] = "idle"
           /\ ProcessOf(x) # q => pc'[x] = pc[x]
    BY <1>2 DEF Restart
  <2>2. \A p \in Processes \ {q} : connection'[p] = connection[p]
    BY <1>2 DEF Restart, TypeOK
  <2> QED
    BY <2>1, <2>2 DEF WaitersConnected, ProcessOf, Processes, Actors
<1>3. CASE NewPool \/ Reorganise \/ UNCHANGED vars
  BY <1>3 DEF NewPool, Reorganise, vars, network, local, WaitersConnected
<1> QED
  BY <1>1, <1>2, <1>3, WaitersRunStep, WaitersAccountStep DEF Next, Actors

-----------------------------------------------------------------------------
(* A step of the crawler is one of the registry's, or changes none of it.  *)
LEMMA InitRegistry == Init => Registry!Init
  BY DEF Init, Registry!Init, Pools, Registry!Pools, NoAccount, Registry!NoAccount

LEMMA InsertPoolStores ==
    ASSUME PoolsInv, NEW r \in Runs, InsertPool(r)
    PROVE  \E p \in Registry!Pools, a \in Accounts : Registry!Store(p, a)
<1> DEFINE p0 == pid[r]
           a0 == address[r]
<1>1. /\ RunAims(r) /\ Aims(r) /\ pc[r] = "insertPool" /\ ~Stored(p0)
      /\ owner' = [owner EXCEPT ![p0] = a0] /\ UNCHANGED <<chain, takenBack>>
  BY DEF PoolsInv, Actors, Aims, InsertPool, outside
<1>2. /\ p0 \in Pools /\ a0 \in Accounts
      /\ \A q \in Pools : q < p0 => Stored(q) \/ q \in takenBack
      /\ p0 \in takenBack \/ (p0 < Len(chain) /\ chain[p0 + 1] = a0)
  BY <1>1, LocalTypes DEF RunAims, Aims, InLoop, HasOwner, Actors
<1> HIDE DEF p0, a0
<1>3. Registry!Store(p0, a0)
  BY <1>1, <1>2 DEF Registry!Store, Registry!Done, Registry!OwnerOf, Registry!Pools, Pools,
     Registry!NoAccount, NoAccount, Stored
<1> QED
  BY <1>2, <1>3 DEF Registry!Pools, Pools

LEMMA StepRegistry == PoolsInv /\ [Next]_vars => [Registry!Next]_(Registry!vars)
<1> SUFFICES ASSUME PoolsInv, [Next]_vars PROVE [Registry!Next]_(Registry!vars)
  OBVIOUS
<1>1. CASE UNCHANGED <<chain, takenBack, owner>>
  BY <1>1 DEF Registry!vars
<1>2. ASSUME NEW r \in Runs, InsertPool(r) PROVE Registry!Next
  BY <1>2, InsertPoolStores DEF Registry!Next
<1>3. CASE NewPool
  BY <1>3 DEF NewPool, Registry!Next, Registry!NewPool, database
<1>4. CASE Reorganise
  BY <1>4 DEF Reorganise, Registry!Next, Registry!TakeBack, database
<1>5. ASSUME NEW r \in Runs, StartRun(r) \/ (RunStep(r) /\ ~InsertPool(r) /\ ~AccountStep(r))
      PROVE  UNCHANGED <<chain, takenBack, owner>>
  BY <1>5 DEF StartRun, RunStep, CountPools, FindLast, EndRun, FindPool, MissPool, QueryPool,
     RejectPool, database, outside
<1>6. ASSUME NEW x \in Actors, AccountStep(x) \/ AskAccount(x) \/ Fail(x)
      PROVE  UNCHANGED <<chain, takenBack, owner>>
  BY <1>6 DEF AccountStep, FindAccount, MissAccount, InsertAccount, RejectAccount, AskAccount,
     Fail, database, outside
<1>7. ASSUME NEW q \in Processes, Connect(q) \/ Restart(q)
      PROVE  UNCHANGED <<chain, takenBack, owner>>
  BY <1>7 DEF Connect, Restart, database, outside
<1>8. CASE UNCHANGED vars
  BY <1>8 DEF vars, database, outside, Registry!vars
<1> QED
  BY <1>1, <1>2, <1>3, <1>4, <1>5, <1>6, <1>7, <1>8 DEF Next, Actors, RunStep

-----------------------------------------------------------------------------
LEMMA InvAlways == Spec => []PoolsInv
  BY InitPoolsInv, StepPoolsInv, PTL DEF Spec

(* The variables of the crawler, the fetchers and the providers keep their *)
(* types.                                                                  *)
THEOREM TypeCorrect == Spec => []TypeOK
<1>1. PoolsInv => TypeOK
  BY DEF PoolsInv
<1> QED
  BY <1>1, InvAlways, PTL

(* StakePoolsCrawler._process leaves no pool out below one it stored, save *)
(* one the chain took back, however its runs overlap and fail.             *)
THEOREM NoGapAlways == Spec => []NoGap
<1>1. PoolsInv => NoGap
  BY DEF PoolsInv
<1> QED
  BY <1>1, InvAlways, PTL

(* _createStakePool stores the owner the chain has for the pool, save for  *)
(* one it took back.                                                       *)
THEOREM OwnerOfChainAlways == Spec => []OwnerOfChain
<1>1. PoolsInv => OwnerOfChain
  BY DEF PoolsInv
<1> QED
  BY <1>1, InvAlways, PTL

(* PhalaEntityFetcher's caches hold only what has a row, and the owner of  *)
(* a stored pool has one.                                                  *)
THEOREM CachedAreStoredAlways == Spec => []CachedAreStored
<1>1. PoolsInv => CachedAreStored
  BY DEF PoolsInv
<1> QED
  BY <1>1, InvAlways, PTL

(* ApiProvider.getApi opens one connection for all its callers.            *)
THEOREM OneConnectionAlways == Spec => []OneConnection
<1>1. PoolsInv => OneConnection
  BY DEF PoolsInv, ConnectionsCounted, OneConnection
<1> QED
  BY <1>1, InvAlways, PTL

(* No caller of ApiProvider.getApi waits for a connection nobody makes,    *)
(* however calls, timeouts and restarts of either process interleave.      *)
THEOREM WaitersConnectedAlways == Spec => []WaitersConnected
<1>1. Init => WaitersConnected
  BY DEF Init, WaitersConnected, Actors
<1>2. PoolsInv => TypeOK
  BY DEF PoolsInv
<1> QED
  BY <1>1, <1>2, StepWaiters, InvAlways, PTL DEF Spec

(* StakePoolsCrawler and PhalaEntityFetcher implement the registry of the  *)
(* chain's pools: a row is written once, in order, with the owner of the   *)
(* chain, and is never replaced by a run that is behind.                   *)
THEOREM ImplementsRegistry == Spec => PoolRegistrySpec
<1>1. PoolsInv /\ [Next]_vars => [Registry!Next]_(Registry!vars)
  BY StepRegistry
<1> QED
  BY <1>1, InitRegistry, InvAlways, PTL DEF Spec, PoolRegistrySpec, Registry!Spec
=============================================================================
