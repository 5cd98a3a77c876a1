-------------------------------- MODULE Ride --------------------------------
(***************************************************************************)
(* What the platform promises about a ride, without saying how: an order   *)
(* is requested at most once, by one rider; a requested order is accepted  *)
(* at most once, by one driver; and every such change appears together     *)
(* with exactly one event for the other services to publish.  Nothing is   *)
(* ever taken back.                                                        *)
(*                                                                         *)
(* OrderStore (the SQL statements and their races) implements this.        *)
(***************************************************************************)
CONSTANTS OrderIds, Riders, Drivers,
          EventIds      \* the identities events are given

VARIABLES status,       \* the current status a reader of the order finds
          requests,     \* who requested which order
          accepts,      \* who accepted which order
          events        \* the events handed to the outbox

rideVars == <<status, requests, accepts, events>>

Event(e, type, o, who) == [id |-> e, type |-> type, order |-> o, who |-> who]

Fresh(e) == \A ev \in events : ev.id # e

RideInit ==
    /\ status = [o \in OrderIds |-> "none"]
    /\ requests = {}
    /\ accepts = {}
    /\ events = {}

\* README.md:75-76: an order and its event are written together.
Request(e, o, r) ==
    /\ status[o] = "none"
    /\ Fresh(e)
    /\ status' = [status EXCEPT ![o] = "requested"]
    /\ requests' = requests \cup {[id |-> o, rider |-> r]}
    /\ events' = events \cup {Event(e, "requested", o, r)}
    /\ UNCHANGED accepts

\* README.md:88: only an order in the "requested" state can be accepted.
Accept(e, o, d) ==
    /\ status[o] = "requested"
    /\ Fresh(e)
    /\ status' = [status EXCEPT ![o] = "accepted"]
    /\ accepts' = accepts \cup {[id |-> e, order |-> o, driver |-> d]}
    /\ events' = events \cup {Event(e, "accepted", o, d)}
    /\ UNCHANGED requests

RideNext ==
    \E e \in EventIds, o \in OrderIds :
        \/ \E r \in Riders : Request(e, o, r)
        \/ \E d \in Drivers : Accept(e, o, d)

RideSpec == RideInit /\ [][RideNext]_rideVars
=============================================================================
