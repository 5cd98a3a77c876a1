----------------------------- MODULE MCOrderApi -----------------------------
(* Small instances of OrderApi.  Posts, Gets and Accepts are the calls that *)
(* may make each kind of request, Invalid those that may fail the input     *)
(* checks, Caching, Reading and Levels (of the cache, where there is one)   *)
(* the setups: each run is kept to the mix in question.  A request that     *)
(* never comes is a behavior of its own, so these are behaviors of ApiSpec. *)
EXTENDS OrderApi, TLC

CONSTANTS Posts, Gets, Accepts, Invalid, Caching, Reading, Levels

Symmetry == Permutations(Calls) \cup Permutations(OrderIds)
              \cup Permutations(Riders) \cup Permutations(Drivers)

ReaderSymmetry == Permutations(Gets)

InRole(c) ==
    /\ input[c].kind = "request" => c \in Posts
    /\ input[c].kind = "get" => c \in Gets
    /\ input[c].kind = "accept" => c \in Accepts
    /\ pc[c] = "done" /\ input[c] = NoInput => c \in Invalid

RoleNext ==
    UNCHANGED setup /\ (Serve \/ \E c \in Calls : Receive(c) /\ InRole(c)')

RoleInit ==
    /\ ApiInit
    /\ setup.cache \in Caching /\ setup.reader \in Reading
    /\ setup.cache => setup.l2 \in Levels

RoleSpec == RoleInit /\ [][RoleNext]_allVars

FairRoleSpec == RoleSpec /\ ApiFairness
=============================================================================
