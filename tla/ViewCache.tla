----------------------------- MODULE ViewCache ------------------------------
(***************************************************************************)
(* How old a view may be: orders.Service.Get (internal/orders/service.go)  *)
(* in several replicas of the API, each with a copy of its own (L1, in     *)
(* memory), and a copy they share (L2, Redis), for one order.              *)
(*                                                                         *)
(* OrderApi has the same reads without time, within one replica.  Here     *)
(* time passes, and a copy lives for Ttl from the moment it is stored. The *)
(* cache library is external: whether it gives a copy that comes from L2   *)
(* a whole new life in L1 or what is left of it is left open.              *)
(***************************************************************************)
EXTENDS Integers

CONSTANTS Replicas,
          Ttl,          \* viewTTL
          MaxLoad,      \* how long a load takes at most
          HasL2,        \* CACHE_ENABLE_L2
          MaxTime       \* bound on the clock

ASSUME CacheAssumption == /\ Ttl \in Nat /\ MaxLoad \in Nat /\ HasL2 \in BOOLEAN
                          /\ MaxTime \in Nat

VARIABLES now,
          since,        \* when the order got each status, or Never
          l1, l2,       \* the copies: one per replica, and the shared one
          load,         \* the load of each replica that is under way
          shown         \* the last answer of any replica, and when it was given

cacheVars == <<now, since, l1, l2, load, shown>>

\* A view is the rank of its status: 0 (no such order), 1 requested, 2 accepted.
Never == -1
NoCopy == [rank |-> 0, until |-> 0]
Copies == [rank : 0..2, until : Nat]
NoLoad == [state |-> "none", copy |-> NoCopy, at |-> 0]
Current == IF since[2] # Never THEN 2 ELSE IF since[1] # Never THEN 1 ELSE 0

CacheInit ==
    /\ now = 0
    /\ since = [k \in {1, 2} |-> Never]
    /\ l1 = [r \in Replicas |-> NoCopy] /\ l2 = NoCopy
    /\ load = [r \in Replicas |-> NoLoad]
    /\ shown = [rank |-> 0, at |-> 0]

-----------------------------------------------------------------------------
(* The world: the order is requested and accepted, time passes. *)

Advance ==
    /\ Current < 2
    /\ since' = [since EXCEPT ![Current + 1] = now]
    /\ UNCHANGED <<now, l1, l2, load, shown>>

\* No load takes longer than MaxLoad.
Tick ==
    /\ now < MaxTime
    /\ \A r \in Replicas : load[r].state # "none" => now < load[r].at + MaxLoad
    /\ now' = now + 1
    /\ UNCHANGED <<since, l1, l2, load, shown>>

\* Redis or a replica loses a copy.
Evict ==
    /\ \/ l2' = NoCopy /\ UNCHANGED l1
       \/ \E r \in Replicas : l1' = [l1 EXCEPT ![r] = NoCopy] /\ UNCHANGED l2
    /\ UNCHANGED <<now, since, load, shown>>

-----------------------------------------------------------------------------
(* GetOrSetContext *)

Alive(copy) == now < copy.until
Copy(rank) == [rank |-> rank, until |-> now + Ttl]
Show(rank) == shown' = [rank |-> rank, at |-> now]
Loading(r, state, copy) ==
    load' = [load EXCEPT ![r] = [state |-> state, copy |-> copy, at |-> load[r].at]]

\* (Mutant: a hit renews the life of the copy.)
HitRenews(r) ==
    /\ Alive(l1[r])
    /\ Show(l1[r].rank)
    /\ l1' = [l1 EXCEPT ![r] = Copy(l1[r].rank)]
    /\ UNCHANGED <<now, since, l2, load>>

Hit(r) ==
    /\ Alive(l1[r])
    /\ Show(l1[r].rank)
    /\ UNCHANGED <<now, since, l1, l2, load>>

\* A miss in L1: one request loads for all that ask meanwhile.
Ask(r) ==
    /\ ~ Alive(l1[r]) /\ load[r].state = "none"
    /\ load' = [load EXCEPT ![r] = [state |-> "asked", copy |-> NoCopy, at |-> now]]
    /\ UNCHANGED <<now, since, l1, l2, shown>>

HitL2(r) ==
    /\ load[r].state = "asked" /\ HasL2 /\ Alive(l2)
    /\ Loading(r, "shared", l2)
    /\ UNCHANGED <<now, since, l1, l2, shown>>

\* A miss in both: the query, on what is committed now.
Query(r) ==
    /\ load[r].state = "asked" /\ ~ (HasL2 /\ Alive(l2))
    /\ Loading(r, "queried", [rank |-> Current, until |-> now])
    /\ UNCHANGED <<now, since, l1, l2, shown>>

\* What L2 had goes to L1 and is shown to all that asked.
DeliverShared(r) ==
    /\ load[r].state = "shared"
    /\ \E copy \in {load[r].copy, Copy(load[r].copy.rank)} :
           l1' = [l1 EXCEPT ![r] = copy]
    /\ Show(load[r].copy.rank)
    /\ load' = [load EXCEPT ![r] = NoLoad]
    /\ UNCHANGED <<now, since, l2>>

\* (Mutant: a missing order is remembered like any other answer.)
DeliverMissing(r) ==
    /\ load[r].state = "queried"
    /\ l1' = [l1 EXCEPT ![r] = Copy(load[r].copy.rank)]
    /\ l2' = IF HasL2 THEN Copy(load[r].copy.rank) ELSE l2
    /\ Show(load[r].copy.rank)
    /\ load' = [load EXCEPT ![r] = NoLoad]
    /\ UNCHANGED <<now, since>>

\* The result of the query is stored, unless there is no such order, and shown.
Deliver(r) ==
    /\ load[r].state = "queried"
    /\ IF load[r].copy.rank = 0 THEN UNCHANGED <<l1, l2>>
       ELSE /\ l1' = [l1 EXCEPT ![r] = Copy(load[r].copy.rank)]
            /\ l2' = IF HasL2 THEN Copy(load[r].copy.rank) ELSE l2
    /\ Show(load[r].copy.rank)
    /\ load' = [load EXCEPT ![r] = NoLoad]
    /\ UNCHANGED <<now, since>>

\* The load fails: nobody is shown anything.
Fail(r) ==
    /\ load[r].state # "none"
    /\ load' = [load EXCEPT ![r] = NoLoad]
    /\ UNCHANGED <<now, since, l1, l2, shown>>

Get(r) == \/ Hit(r) \/ Ask(r) \/ HitL2(r) \/ Query(r)
          \/ DeliverShared(r) \/ Deliver(r) \/ Fail(r)

CacheNext == Advance \/ Tick \/ Evict \/ \E r \in Replicas : Get(r)

CacheSpec == CacheInit /\ [][CacheNext]_cacheVars

-----------------------------------------------------------------------------
(* Correctness. *)

\* The order had left the status of this rank before time t.
Left(rank, t) == rank < 2 /\ since[rank + 1] # Never /\ since[rank + 1] < t

\* A load and a life in the shared copy, and all over again in the own one.
SharedBound == Ttl + MaxLoad
Bound == IF HasL2 THEN 2 * SharedBound ELSE SharedBound

\* A copy lives at most Ttl more, is never one of "no such order", and when its life
\* ends it is at most age behind.
CopyOK(copy, age) ==
    /\ copy \in Copies /\ copy.until <= now + Ttl
    /\ copy.rank = 0 => copy.until = 0
    /\ ~ Left(copy.rank, copy.until - age)

LoadOK(ld) ==
    /\ ld \in [state : {"none", "asked", "shared", "queried"}, copy : Copies, at : Nat]
    /\ ld.state # "none" => ld.at <= now /\ now <= ld.at + MaxLoad
    /\ ld.state = "shared" => HasL2 /\ CopyOK(ld.copy, SharedBound) /\ ld.at < ld.copy.until
    /\ ld.state = "queried" => ~ Left(ld.copy.rank, ld.at)

\* What each copy and each load is worth at any moment (orders/service.go:49-75).
CacheInv ==
    /\ now \in Nat
    /\ since \in [{1, 2} -> Nat \cup {Never}] /\ \A k \in {1, 2} : since[k] <= now
    /\ DOMAIN l1 = Replicas /\ DOMAIN load = Replicas
    /\ CopyOK(l2, SharedBound)
    /\ \A r \in Replicas : CopyOK(l1[r], Bound) /\ LoadOK(load[r])
    /\ shown \in [rank : 0..2, at : Nat] /\ shown.at <= now

\* Whatever a replica shows was the status of the order at most Bound before:
\* hits, late loads and copies of copies add up to no more, which is what becomes of
\* viewTTL, "how long an order read may be stale" (orders/service.go:32).
StaleAtMostBound == ~ Left(shown.rank, shown.at - Bound)

\* Once an order is stored, 404 is answered for no longer than a load takes: the
\* answer "no such order" is not kept by any copy (orders/service.go:51-52).
MissingIsNotKept == shown.rank = 0 => ~ Left(0, shown.at - MaxLoad)
=============================================================================
