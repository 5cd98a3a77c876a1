--------------------------- MODULE ViewCacheProofs ---------------------------
(* How old a view may be, for any number of replicas, any Ttl, any MaxLoad,   *)
(* with and without the shared copy.                                          *)
EXTENDS ViewCache, TLAPS

Loads == [state : {"none", "asked", "shared", "queried"}, copy : Copies, at : Nat]

\* The bound leaves room for a life and a load.
LEMMA BoundIs ==
    /\ SharedBound \in Nat /\ Bound \in Nat /\ SharedBound <= Bound
    /\ HasL2 => Bound = 2 * Ttl + 2 * MaxLoad
BY CacheAssumption DEF SharedBound, Bound

\* A view that is not left behind at a time is not left behind before.
LEMMA Earlier ==
    ASSUME CacheInv, NEW rank \in 0..2, NEW t \in Int, NEW u \in Int, t <= u, ~ Left(rank, u)
    PROVE  ~ Left(rank, t)
<1> SUFFICES ASSUME Left(rank, t) PROVE FALSE
  OBVIOUS
<1>1. rank + 1 \in {1, 2} /\ since[rank + 1] # Never /\ since[rank + 1] < t
  BY DEF Left
<1>2. since[rank + 1] \in Int
  BY <1>1 DEF CacheInv, Never
<1>3. since[rank + 1] < u
  BY <1>1, <1>2
<1> QED BY <1>1, <1>3 DEF Left

\* No view is left behind before its order has any status.
LEMMA NeverBeforeZero ==
    ASSUME CacheInv, NEW rank \in 0..2, NEW t \in Int, t <= 0 PROVE ~ Left(rank, t)
<1> SUFFICES ASSUME Left(rank, t) PROVE FALSE
  OBVIOUS
<1>1. rank + 1 \in {1, 2} /\ since[rank + 1] # Never /\ since[rank + 1] < t
  BY DEF Left
<1>2. since[rank + 1] \in Nat
  BY <1>1 DEF CacheInv
<1> QED BY <1>1, <1>2

\* NoCopy and NoLoad are worth nothing and harm nothing.
LEMMA NothingIsOK ==
    ASSUME CacheInv, NEW age \in Nat PROVE CopyOK(NoCopy, age) /\ LoadOK(NoLoad)
<1>1. NoCopy \in Copies /\ NoCopy.rank = 0 /\ NoCopy.until = 0
  BY DEF NoCopy, Copies
<1>2. ~ Left(0, 0 - age)
  BY NeverBeforeZero
<1>3. NoLoad \in Loads /\ NoLoad.state = "none"
  BY <1>1 DEF NoLoad, Loads
<1> QED BY <1>1, <1>2, <1>3, CacheAssumption DEF CopyOK, LoadOK, CacheInv, Loads

-----------------------------------------------------------------------------
(* Steps of the world keep what copies and loads are worth. *)

\* The state in which a view is left behind is entered now, not before.
LEMMA AdvanceLeaves ==
    ASSUME CacheInv, Advance, NEW rank \in 0..2, NEW t \in Int, t <= now, ~ Left(rank, t)
    PROVE  ~ Left(rank, t)'
<1> SUFFICES ASSUME Left(rank, t)' PROVE FALSE
  OBVIOUS
<1>1. rank + 1 \in {1, 2} /\ since'[rank + 1] # Never /\ since'[rank + 1] < t
  BY DEF Left
<1>2. Current \in {0, 1} /\ since' = [since EXCEPT ![Current + 1] = now] /\ now \in Nat
  BY DEF Advance, Current, CacheInv
<1>3. CASE rank = Current
  BY <1>1, <1>2, <1>3 DEF CacheInv
<1>4. CASE rank # Current
  <2>1. since'[rank + 1] = since[rank + 1]
    BY <1>1, <1>2, <1>4 DEF CacheInv
  <2> QED BY <1>1, <2>1 DEF Left
<1> QED BY <1>3, <1>4

LEMMA AdvanceKeeps == ASSUME CacheInv, Advance PROVE CacheInv'
<1>1. /\ Current \in {0, 1} /\ since' = [since EXCEPT ![Current + 1] = now]
      /\ now' = now /\ l1' = l1 /\ l2' = l2 /\ load' = load /\ shown' = shown
  BY DEF Advance, Current
<1>2. now \in Nat
  BY DEF CacheInv
<1>3. ASSUME NEW copy, NEW age \in Nat, age >= Ttl, CopyOK(copy, age)
      PROVE  CopyOK(copy, age)'
  <2>1. copy.rank \in 0..2 /\ copy.until \in Nat /\ copy.until <= now + Ttl
    BY <1>3 DEF CopyOK, Copies
  <2>2. copy.until - age <= now /\ copy.until - age \in Int
    BY <1>2, <1>3, <2>1, CacheAssumption
  <2>3. ~ Left(copy.rank, copy.until - age)'
    BY <1>3, <2>1, <2>2, AdvanceLeaves DEF CopyOK
  <2> QED BY <1>1, <1>3, <2>3 DEF CopyOK
<1>4. SharedBound >= Ttl /\ Bound >= Ttl /\ SharedBound \in Nat /\ Bound \in Nat
  BY CacheAssumption, BoundIs DEF SharedBound
<1>5. ASSUME NEW ld, LoadOK(ld) PROVE LoadOK(ld)'
  <2>1. ld \in Loads /\ ld.at \in Nat /\ ld.copy \in Copies /\ ld.copy.rank \in 0..2
    BY <1>5 DEF LoadOK, Loads, Copies
  <2>2. ld.state = "queried" => ~ Left(ld.copy.rank, ld.at)'
    <3>1. ld.state = "queried" => ~ Left(ld.copy.rank, ld.at) /\ ld.at <= now
      BY <1>5 DEF LoadOK
    <3> QED BY <2>1, <3>1, AdvanceLeaves
  <2>3. ld.state = "shared" => CopyOK(ld.copy, SharedBound)'
    <3>1. ld.state = "shared" => CopyOK(ld.copy, SharedBound)
      BY <1>5 DEF LoadOK
    <3> QED BY <2>1, <3>1, <1>3, <1>4
  <2> QED BY <1>1, <1>5, <2>2, <2>3 DEF LoadOK
<1>6. since' \in [{1, 2} -> Nat \cup {Never}] /\ \A k \in {1, 2} : since'[k] <= now'
  BY <1>1, <1>2 DEF CacheInv
<1>7. CopyOK(l2, SharedBound)' /\ \A r \in Replicas : CopyOK(l1[r], Bound)'
  BY <1>1, <1>3, <1>4 DEF CacheInv, CopyOK, Left
<1>8. \A r \in Replicas : LoadOK(load[r])'
  BY <1>1, <1>5 DEF CacheInv, LoadOK, CopyOK, Left
<1> QED BY <1>1, <1>6, <1>7, <1>8 DEF CacheInv

LEMMA TickKeeps == ASSUME CacheInv, Tick PROVE CacheInv'
<1>1. /\ now \in Nat /\ now' = now + 1 /\ since' = since
      /\ l1' = l1 /\ l2' = l2 /\ load' = load /\ shown' = shown
  BY DEF Tick, CacheInv
<1>2. ASSUME NEW copy, NEW age, CopyOK(copy, age) PROVE CopyOK(copy, age)'
  <2>1. copy.until \in Nat /\ copy.until <= now + Ttl
    BY <1>2 DEF CopyOK, Copies
  <2>2. copy.until <= now' + Ttl
    BY <1>1, <2>1, CacheAssumption
  <2> QED BY <1>1, <1>2, <2>2 DEF CopyOK, Left
<1>3. ASSUME NEW r \in Replicas PROVE LoadOK(load[r])'
  <2>1. LoadOK(load[r]) /\ load[r].at \in Nat
    BY DEF CacheInv, LoadOK
  <2>2. load[r].state # "none" => load[r].at <= now' /\ now' <= load[r].at + MaxLoad
    BY <1>1, <2>1, CacheAssumption DEF Tick, LoadOK
  <2>3. load[r].state = "shared" => CopyOK(load[r].copy, SharedBound)
    BY <2>1 DEF LoadOK
  <2>4. load[r].state = "shared" => \A copy : copy = load[r].copy => CopyOK(copy, SharedBound)'
    BY <1>2, <2>3
  <2> QED BY <1>1, <2>1, <2>2, <2>4 DEF LoadOK, CopyOK, Left
<1>4. CopyOK(l2, SharedBound)' /\ \A r \in Replicas : CopyOK(l1[r], Bound)'
  <2>1. CopyOK(l2, SharedBound) /\ \A r \in Replicas : CopyOK(l1[r], Bound)
    BY DEF CacheInv
  <2>2. /\ \A copy : copy = l2 => CopyOK(copy, SharedBound)'
        /\ \A r \in Replicas : \A copy : copy = l1[r] => CopyOK(copy, Bound)'
    BY <1>2, <2>1
  <2> QED BY <1>1, <2>2 DEF CopyOK, Left
<1>5. \A k \in {1, 2} : since'[k] <= now'
  <2>1. \A k \in {1, 2} : since[k] \in Int /\ since[k] <= now
    BY DEF CacheInv, Never
  <2> QED BY <1>1, <2>1
<1>6. shown'.at <= now'
  <2>1. shown.at \in Nat /\ shown.at <= now
    BY DEF CacheInv
  <2> QED BY <1>1, <2>1
<1> QED BY <1>1, <1>3, <1>4, <1>5, <1>6 DEF CacheInv

\* Where no time passes, it is enough to look at what is new.
LEMMA Untimed ==
    ASSUME CacheInv, now' = now, since' = since,
           DOMAIN l1' = Replicas, DOMAIN load' = Replicas, CopyOK(l2', SharedBound),
           \A r \in Replicas : CopyOK(l1'[r], Bound) /\ LoadOK(load'[r]),
           shown' \in [rank : 0..2, at : Nat], shown'.at <= now
    PROVE  CacheInv'
<1>1. now' \in Nat /\ since' \in [{1, 2} -> Nat \cup {Never}] /\ \A k \in {1, 2} : since'[k] <= now'
  BY DEF CacheInv
<1>2. CopyOK(l2, SharedBound)' /\ \A r \in Replicas : CopyOK(l1[r], Bound)'
  BY DEF CopyOK, Left
<1>3. \A r \in Replicas : LoadOK(load[r])'
  BY DEF LoadOK, CopyOK, Left
<1> QED BY <1>1, <1>2, <1>3 DEF CacheInv

LEMMA EvictKeeps == ASSUME CacheInv, Evict PROVE CacheInv'
<1>1. CopyOK(NoCopy, SharedBound) /\ CopyOK(NoCopy, Bound)
  BY BoundIs, NothingIsOK
<1>2. now' = now /\ since' = since /\ load' = load /\ shown' = shown
  BY DEF Evict
<1>3. l2' \in {l2, NoCopy}
  BY DEF Evict
<1>4. DOMAIN l1' = Replicas /\ \A r \in Replicas : l1'[r] \in {l1[r], NoCopy}
  BY DEF Evict, CacheInv
<1>5. CopyOK(l2', SharedBound)
  BY <1>1, <1>3 DEF CacheInv
<1>6. \A r \in Replicas : CopyOK(l1'[r], Bound)
  BY <1>1, <1>4 DEF CacheInv
<1>7. /\ \A r \in Replicas : LoadOK(load'[r])
      /\ DOMAIN load' = Replicas /\ shown' \in [rank : 0..2, at : Nat] /\ shown'.at <= now
  BY <1>2 DEF CacheInv
<1> QED BY <1>2, <1>4, <1>5, <1>6, <1>7, Untimed

-----------------------------------------------------------------------------
(* GetOrSetContext: what is stored is worth what copies are, and what is shown *)
(* is worth what the properties promise.                                       *)

\* What may be shown now.
Showable(rank) == /\ rank \in 0..2 /\ ~ Left(rank, now - Bound)
                  /\ rank = 0 => ~ Left(0, now - MaxLoad)

\* A copy that lives is not one of "no such order", and may be shown.
LEMMA LiveCopies ==
    ASSUME CacheInv, NEW copy, CopyOK(copy, Bound), Alive(copy) PROVE Showable(copy.rank)
<1>1. copy.rank \in 0..2 /\ copy.until \in Nat /\ now \in Nat /\ now < copy.until
  BY DEF CopyOK, Copies, Alive, CacheInv
<1>2. copy.rank # 0
  BY <1>1 DEF CopyOK
<1>3. now - Bound <= copy.until - Bound /\ now - Bound \in Int /\ copy.until - Bound \in Int
  BY <1>1, BoundIs
<1>4. ~ Left(copy.rank, now - Bound)
  BY <1>1, <1>3, Earlier DEF CopyOK
<1> QED BY <1>1, <1>2, <1>4 DEF Showable

\* A copy that is stored now.
LEMMA NewCopy ==
    ASSUME CacheInv, NEW rank \in 0..2, rank # 0, NEW age \in Nat, ~ Left(rank, now + Ttl - age)
    PROVE  CopyOK(Copy(rank), age)
<1>1. now \in Nat /\ Ttl \in Nat /\ now + Ttl \in Nat /\ now + Ttl <= now + Ttl
  BY CacheAssumption DEF CacheInv
<1>2. Copy(rank) \in Copies /\ Copy(rank).rank = rank /\ Copy(rank).until = now + Ttl
  BY <1>1 DEF Copies, Copy
<1>3. Copy(rank).until <= now + Ttl
  BY <1>1, <1>2
<1>4. ~ Left(Copy(rank).rank, Copy(rank).until - age)
  <2>1. Copy(rank).until - age = now + Ttl - age
    BY <1>1, <1>2
  <2> QED BY <1>2, <2>1, Zenon
<1> QED BY <1>2, <1>3, <1>4 DEF CopyOK

\* The result of a query, at the end of its load: it may be shown and stored.
LEMMA QueriedResult ==
    ASSUME CacheInv, NEW r \in Replicas, load[r].state = "queried"
    PROVE  LET rank == load[r].copy.rank
           IN  /\ Showable(rank)
               /\ rank # 0 => CopyOK(Copy(rank), SharedBound) /\ CopyOK(Copy(rank), Bound)
<1> DEFINE rank == load[r].copy.rank
<1>1. LoadOK(load[r]) /\ now \in Nat
  BY DEF CacheInv
<1>2. rank \in 0..2 /\ load[r].at \in Nat
  BY <1>1 DEF LoadOK, Copies
<1>3. ~ Left(rank, load[r].at) /\ now <= load[r].at + MaxLoad
  BY <1>1 DEF LoadOK
<1> HIDE DEF rank
<1>4. ~ Left(rank, now - MaxLoad)
  <2>1. now - MaxLoad \in Int /\ now - MaxLoad <= load[r].at
    BY <1>1, <1>2, <1>3, CacheAssumption
  <2> QED BY <1>2, <1>3, <2>1, Earlier
<1>5. ASSUME NEW age \in Nat, age >= SharedBound PROVE ~ Left(rank, now + Ttl - age)
  <2>1. now + Ttl - age \in Int /\ now - MaxLoad \in Int /\ now + Ttl - age <= now - MaxLoad
    BY <1>1, <1>5, CacheAssumption DEF SharedBound
  <2> QED BY <1>2, <1>4, <2>1, Earlier
<1>6. ~ Left(rank, now - Bound)
  <2>1. now - Bound \in Int /\ now - MaxLoad \in Int /\ now - Bound <= now - MaxLoad
    BY <1>1, BoundIs, CacheAssumption DEF SharedBound
  <2> QED BY <1>2, <1>4, <2>1, Earlier
<1>7. rank # 0 => \A age \in Nat : age >= SharedBound => CopyOK(Copy(rank), age)
  BY <1>2, <1>5, NewCopy
<1>8. Showable(rank)
  BY <1>2, <1>4, <1>6 DEF Showable
<1> QED BY <1>7, <1>8, BoundIs DEF rank

\* A shared copy, at the end of its load: whatever life it is given in the own
\* copy, old or new.
LEMMA SharedResult ==
    ASSUME CacheInv, NEW r \in Replicas, load[r].state = "shared",
           NEW copy \in {load[r].copy, Copy(load[r].copy.rank)}
    PROVE  Showable(load[r].copy.rank) /\ CopyOK(copy, Bound)
<1> DEFINE shared == load[r].copy
<1>1. /\ LoadOK(load[r]) /\ now \in Nat /\ HasL2
      /\ CopyOK(shared, SharedBound) /\ load[r].at < shared.until
  BY DEF CacheInv, LoadOK
<1>2. /\ shared \in Copies /\ shared.rank \in 0..2 /\ shared.until \in Nat
      /\ load[r].at \in Nat /\ now <= load[r].at + MaxLoad
  BY <1>1 DEF LoadOK, Copies
<1> HIDE DEF shared
<1>3. shared.rank # 0
  BY <1>1, <1>2 DEF CopyOK
<1>4. now - Ttl - 2 * MaxLoad <= shared.until - SharedBound
  BY <1>1, <1>2, CacheAssumption DEF SharedBound
<1>5. ASSUME NEW t \in Int, t <= now - Ttl - 2 * MaxLoad \/ t <= shared.until - SharedBound
      PROVE  ~ Left(shared.rank, t)
  <2>1. shared.until - SharedBound \in Int /\ t <= shared.until - SharedBound
    BY <1>1, <1>2, <1>4, <1>5, CacheAssumption DEF SharedBound
  <2> QED BY <1>1, <1>2, <2>1, Earlier DEF CopyOK
<1>6. ~ Left(shared.rank, now - Bound)
  <2>1. now - Bound \in Int /\ now - Bound <= now - Ttl - 2 * MaxLoad
    BY <1>1, BoundIs, CacheAssumption
  <2> QED BY <1>5, <2>1
<1>7. CopyOK(shared, Bound)
  <2>1. shared.until - Bound \in Int /\ shared.until - Bound <= shared.until - SharedBound
    BY <1>2, BoundIs
  <2>2. ~ Left(shared.rank, shared.until - Bound)
    BY <1>5, <2>1
  <2> QED BY <1>1, <2>2 DEF CopyOK
<1>8. CopyOK(Copy(shared.rank), Bound)
  <2>1. now + Ttl - Bound \in Int /\ now + Ttl - Bound <= now - Ttl - 2 * MaxLoad
    BY <1>1, BoundIs, CacheAssumption
  <2> QED BY <1>2, <1>3, <1>5, <2>1, BoundIs, NewCopy
<1>9. Showable(shared.rank)
  BY <1>2, <1>3, <1>6 DEF Showable
<1> QED BY <1>7, <1>8, <1>9 DEF shared

-----------------------------------------------------------------------------
\* What is new after a step of a replica.
LEMMA GetStep ==
    ASSUME CacheInv, NEW r \in Replicas, Get(r)
    PROVE  /\ now' = now /\ since' = since
           /\ DOMAIN l1' = Replicas /\ \A q \in Replicas : CopyOK(l1'[q], Bound)
           /\ CopyOK(l2', SharedBound)
           /\ DOMAIN load' = Replicas /\ \A q \in Replicas : LoadOK(load'[q])
           /\ \/ shown' = shown
              \/ \E rank : Showable(rank) /\ shown' = [rank |-> rank, at |-> now]
<1>1. /\ DOMAIN l1 = Replicas /\ DOMAIN load = Replicas /\ CopyOK(l2, SharedBound)
      /\ \A q \in Replicas : CopyOK(l1[q], Bound) /\ LoadOK(load[q])
      /\ now \in Nat /\ load[r] \in Loads
  BY DEF CacheInv, LoadOK, Loads
<1>2. LoadOK(NoLoad) /\ NoCopy \in Copies
  BY BoundIs, NothingIsOK DEF CopyOK
<1>3. CASE Hit(r)
  <2>1. Showable(l1[r].rank)
    BY <1>1, <1>3, LiveCopies DEF Hit
  <2> QED BY <1>1, <1>3, <2>1 DEF Hit, Show
<1>4. CASE Ask(r)
  <2> DEFINE ld == [state |-> "asked", copy |-> NoCopy, at |-> now]
  <2>1. ld \in Loads
    BY <1>1, <1>2 DEF Loads
  <2>2. now <= now + MaxLoad
    BY <1>1, CacheAssumption
  <2>3. LoadOK(ld)
    BY <1>1, <2>1, <2>2 DEF LoadOK, Loads
  <2> HIDE DEF ld
  <2>4. load' = [load EXCEPT ![r] = ld]
    BY <1>4 DEF Ask, ld
  <2> QED BY <1>1, <1>4, <2>3, <2>4 DEF Ask
<1>5. CASE HitL2(r)
  <2> DEFINE ld == [state |-> "shared", copy |-> l2, at |-> load[r].at]
  <2>1. ld \in Loads
    BY <1>1 DEF Loads, CopyOK
  <2>2. load[r].at \in Nat /\ load[r].at <= now /\ now <= load[r].at + MaxLoad
    BY <1>1, <1>5 DEF HitL2, LoadOK
  <2>3. l2.until \in Nat /\ now < l2.until /\ HasL2
    BY <1>1, <1>5 DEF HitL2, Alive, CopyOK, Copies
  <2>4. load[r].at < l2.until
    BY <1>1, <2>2, <2>3
  <2>5. LoadOK(ld)
    BY <1>1, <2>1, <2>2, <2>3, <2>4 DEF LoadOK, Loads
  <2> HIDE DEF ld
  <2>6. load' = [load EXCEPT ![r] = ld]
    BY <1>5 DEF HitL2, Loading, ld
  <2> QED BY <1>1, <1>5, <2>5, <2>6 DEF HitL2
<1>6. CASE Query(r)
  <2> DEFINE ld == [state |-> "queried", copy |-> [rank |-> Current, until |-> now],
                    at |-> load[r].at]
  <2>1. Current \in 0..2
    BY DEF Current
  <2>2. ld \in Loads
    BY <1>1, <2>1 DEF Loads, Copies
  <2>3. load[r].at \in Nat /\ load[r].at <= now /\ now <= load[r].at + MaxLoad
    BY <1>1, <1>6 DEF Query, LoadOK
  <2>4. ~ Left(Current, load[r].at)
    BY DEF Current, Left
  <2>5. LoadOK(ld)
    BY <2>2, <2>3, <2>4 DEF LoadOK, Loads
  <2> HIDE DEF ld
  <2>6. load' = [load EXCEPT ![r] = ld]
    BY <1>6 DEF Query, Loading, ld
  <2> QED BY <1>1, <1>6, <2>5, <2>6 DEF Query
<1>7. CASE DeliverShared(r)
  <2>1. PICK copy \in {load[r].copy, Copy(load[r].copy.rank)} :
            l1' = [l1 EXCEPT ![r] = copy]
    BY <1>7 DEF DeliverShared
  <2>2. Showable(load[r].copy.rank) /\ CopyOK(copy, Bound)
    BY <1>7, SharedResult DEF DeliverShared
  <2> QED BY <1>1, <1>2, <1>7, <2>1, <2>2 DEF DeliverShared, Show
<1>8. CASE Deliver(r)
  <2> DEFINE rank == load[r].copy.rank
  <2>1. /\ Showable(rank)
        /\ rank # 0 => CopyOK(Copy(rank), SharedBound) /\ CopyOK(Copy(rank), Bound)
    BY <1>8, QueriedResult DEF Deliver
  <2>2. /\ load' = [load EXCEPT ![r] = NoLoad] /\ shown' = [rank |-> rank, at |-> now]
        /\ now' = now /\ since' = since
    BY <1>8 DEF Deliver, Show
  <2>3. IF rank = 0 THEN l1' = l1 /\ l2' = l2
        ELSE l1' = [l1 EXCEPT ![r] = Copy(rank)] /\ l2' \in {l2, Copy(rank)}
    BY <1>8 DEF Deliver
  <2> HIDE DEF rank
  <2>4. DOMAIN l1' = Replicas /\ \A q \in Replicas : CopyOK(l1'[q], Bound)
    BY <1>1, <2>1, <2>3
  <2>5. CopyOK(l2', SharedBound)
    BY <1>1, <2>1, <2>3
  <2>6. DOMAIN load' = Replicas /\ \A q \in Replicas : LoadOK(load'[q])
    BY <1>1, <1>2, <2>2
  <2> QED BY <2>1, <2>2, <2>4, <2>5, <2>6
<1>9. CASE Fail(r)
  BY <1>1, <1>2, <1>9 DEF Fail
<1> QED BY <1>3, <1>4, <1>5, <1>6, <1>7, <1>8, <1>9 DEF Get

\* What may be shown is what the two properties ask for.
ShownInv == CacheInv /\ StaleAtMostBound /\ MissingIsNotKept

LEMMA StepKeeps == ASSUME ShownInv, [CacheNext]_cacheVars PROVE ShownInv'
<1>1. CacheInv /\ shown.rank \in 0..2 /\ shown.at \in Nat /\ shown.at <= now /\ now \in Nat
  BY DEF ShownInv, CacheInv
<1>2. CASE Advance
  <2>1. CacheInv' /\ shown' = shown
    BY <1>1, <1>2, AdvanceKeeps DEF Advance
  <2>2. shown.at - Bound \in Int /\ shown.at - Bound <= now
    BY <1>1, BoundIs
  <2>3. shown.at - MaxLoad \in Int /\ shown.at - MaxLoad <= now
    BY <1>1, CacheAssumption
  <2>4. ASSUME NEW rank \in 0..2, NEW t \in Int, t <= now, ~ Left(rank, t) PROVE ~ Left(rank, t)'
    BY <1>1, <1>2, <2>4, AdvanceLeaves
  <2>5. \A rank \in 0..2, t \in Int :
            rank = shown.rank /\ t = shown.at - Bound => ~ Left(rank, t)'
    BY <2>2, <2>4 DEF ShownInv, StaleAtMostBound
  <2>6. \A t \in Int : shown.rank = 0 /\ t = shown.at - MaxLoad => ~ Left(0, t)'
    BY <2>3, <2>4 DEF ShownInv, MissingIsNotKept
  <2>7. StaleAtMostBound'
    BY <1>1, <2>1, <2>2, <2>5 DEF StaleAtMostBound, Left, Bound, SharedBound
  <2>8. MissingIsNotKept'
    BY <2>1, <2>3, <2>6 DEF MissingIsNotKept, Left
  <2> QED BY <2>1, <2>7, <2>8 DEF ShownInv
<1>3. CASE Tick \/ Evict
  <2>1. CacheInv'
    BY <1>1, <1>3, TickKeeps, EvictKeeps
  <2>2. shown' = shown /\ since' = since
    BY <1>3 DEF Tick, Evict
  <2> QED BY <2>1, <2>2 DEF ShownInv, StaleAtMostBound, MissingIsNotKept, Left, Bound, SharedBound
<1>4. ASSUME NEW r \in Replicas, Get(r) PROVE ShownInv'
  <2>1. now' = now /\ since' = since
    BY <1>1, <1>4, GetStep
  <2>2. CASE shown' = shown
    <3>1. CacheInv'
      BY <1>1, <1>4, <2>2, GetStep, Untimed DEF CacheInv
    <3> QED BY <2>1, <2>2, <3>1 DEF ShownInv, StaleAtMostBound, MissingIsNotKept, Left, Bound, SharedBound
  <2>3. CASE \E rank : Showable(rank) /\ shown' = [rank |-> rank, at |-> now]
    <3>1. PICK rank : Showable(rank) /\ shown' = [rank |-> rank, at |-> now]
      BY <2>3
    <3>2. shown' \in [rank : 0..2, at : Nat] /\ shown'.at <= now
      BY <1>1, <3>1 DEF Showable
    <3>3. CacheInv'
      BY <1>1, <1>4, <3>2, GetStep, Untimed
    <3>4. StaleAtMostBound'
      BY <2>1, <3>1 DEF Showable, StaleAtMostBound, Left, Bound, SharedBound
    <3>5. MissingIsNotKept'
      BY <2>1, <3>1 DEF Showable, MissingIsNotKept, Left
    <3> QED BY <3>3, <3>4, <3>5 DEF ShownInv
  <2> QED BY <1>1, <1>4, <2>2, <2>3, GetStep
<1>5. CASE UNCHANGED cacheVars
  <2>1. CacheInv'
    BY <1>1, <1>5, Untimed DEF cacheVars, CacheInv
  <2> QED BY <1>5, <2>1 DEF cacheVars, ShownInv, StaleAtMostBound, MissingIsNotKept, Left, Bound, SharedBound
<1> QED BY <1>2, <1>3, <1>4, <1>5 DEF CacheNext

\* Copies and loads are worth what CacheInv says, and what is shown follows from it:
\* the two are inductive together (orders/service.go:49-82).
THEOREM CacheInvariance == CacheSpec => []ShownInv
<1>1. CacheInit => ShownInv
  <2> SUFFICES ASSUME CacheInit PROVE ShownInv
    OBVIOUS
  <2>1. \A rank \in 0..2, t \in Int : ~ Left(rank, t)
    BY DEF CacheInit, Left, Never
  <2>2. NoCopy \in Copies /\ NoCopy.rank = 0 /\ NoCopy.until = 0
    BY DEF NoCopy, Copies
  <2>3. \A age \in Nat : CopyOK(NoCopy, age)
    BY <2>1, <2>2, CacheAssumption DEF CacheInit, CopyOK
  <2>4. LoadOK(NoLoad)
    BY <2>2 DEF NoLoad, LoadOK
  <2>5. shown \in [rank : 0..2, at : Nat] /\ shown.at = 0 /\ shown.rank = 0 /\ now = 0
    BY DEF CacheInit
  <2>6. CacheInv
    BY <2>3, <2>4, <2>5, BoundIs DEF CacheInit, CacheInv, Never
  <2>7. shown.at - Bound \in Int /\ shown.at - MaxLoad \in Int
    BY <2>5, BoundIs, CacheAssumption
  <2> QED BY <2>1, <2>5, <2>6, <2>7 DEF ShownInv, StaleAtMostBound, MissingIsNotKept
<1> QED BY <1>1, StepKeeps, PTL DEF CacheSpec

\* What copies and loads are worth (orders/service.go:49-75).
THEOREM CopiesAreWorth == CacheSpec => []CacheInv
<1>1. ShownInv => CacheInv
  BY DEF ShownInv
<1> QED BY <1>1, CacheInvariance, PTL

\* Views are at most Bound old (orders/service.go:32).
THEOREM ViewsAreRecent == CacheSpec => []StaleAtMostBound
<1>1. ShownInv => StaleAtMostBound
  BY DEF ShownInv
<1> QED BY <1>1, CacheInvariance, PTL

\* A stored order is not missing for longer than a load takes (orders/service.go:51-52).
THEOREM StoredIsFound == CacheSpec => []MissingIsNotKept
<1>1. ShownInv => MissingIsNotKept
  BY DEF ShownInv
<1> QED BY <1>1, CacheInvariance, PTL
=============================================================================
