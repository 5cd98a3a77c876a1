----------------------------- MODULE OrderStore -----------------------------
(***************************************************************************)
(* The two INSERT statements through which the API writes to PostgreSQL:   *)
(* requestedSQL (internal/orders/repository.go) and acceptedSQL            *)
(* (internal/drivers/repository.go), run by concurrent calls.              *)
(*                                                                         *)
(* A statement is one transaction.  It takes its snapshot when it starts:  *)
(* acceptedSQL evaluates its guard and MAX(sequence) there and nowhere     *)
(* else.  It then inserts its rows one after the other, and every unique   *)
(* index is checked at the insertion: a key a committed row has is an      *)
(* error 23505, a key that an unfinished statement has inserted makes the  *)
(* statement wait for that one to end.  The rows become visible together,  *)
(* at the commit.                                                          *)
(*                                                                         *)
(* A call runs one statement.  The fresh UUIDs it makes for its rows       *)
(* (StatusHistoryID, OutboxID, AcceptanceID) are represented by the call   *)
(* itself.  The plan of a statement fixes the order in which its CTEs      *)
(* insert; PostgreSQL leaves that order open, so it is any one of the two  *)
(* orders, the same for all runs of a statement.                           *)
(***************************************************************************)
EXTENDS Naturals

CONSTANTS Calls,        \* calls of the repositories, each made once
          OrderIds, Riders, Drivers,
          Faults        \* whether connections break and calls are canceled

ASSUME FaultsAssumption == Faults \in BOOLEAN

VARIABLES orders,       \* rows [id, rider]; orders_pkey on id
          history,      \* rows [id, order, seq, status]; unique (order, seq)
          acceptances,  \* rows [id, order, driver];
                        \*   uq_order_acceptances_order on order
          outbox,       \* rows [id, type, order, who]
          stmt,         \* the statement of each call
          plan          \* which CTE of each statement inserts first

tables == <<orders, history, acceptances, outbox>>
storeVars == <<orders, history, acceptances, outbox, stmt, plan>>

Ops == {"requested", "accepted"}
Requested == 1          \* order_statuses.id of "requested"
Accepted == 3           \* order_statuses.id of "accepted"

\* (Mutant: the unique index on order_acceptances.order_id and the one on the
\* history are forgotten for acceptances, the guard alone is relied on.)
IndexedRequestsOnly == [op \in Ops |-> IF op = "requested"
                                       THEN {"orders", "history"} ELSE {}]

\* The tables with a unique index a statement of each kind can violate.  (The
\* outbox row has only its fresh primary key, so it never conflicts and is
\* inserted with the commit.)
Indexed == [op \in Ops |-> IF op = "requested" THEN {"orders", "history"}
                                               ELSE {"acceptances", "history"}]

Ended == {"ok", "norows", "unique", "failed"}

Idle == [state |-> "idle"]

Statement == [state : {"running"} \cup Ended,
              op : Ops, order : OrderIds, who : Riders \cup Drivers, seq : Nat,
              wrote : SUBSET {"orders", "history", "acceptances"},
              hit : {"none", "orders", "history", "acceptances"}]

Running(c) == stmt[c].state = "running"

StoreTypeOK ==
    /\ orders \subseteq [id : OrderIds, rider : Riders]
    /\ history \subseteq [id : Calls, order : OrderIds, seq : Nat,
                          status : {Requested, Accepted}]
    /\ acceptances \subseteq [id : Calls, order : OrderIds, driver : Drivers]
    /\ outbox \subseteq [id : Calls, type : Ops, order : OrderIds,
                         who : Riders \cup Drivers]
    /\ stmt \in [Calls -> Statement \cup {Idle}]
    /\ \A c \in Calls : Running(c) =>
           stmt[c].who \in IF stmt[c].op = "requested" THEN Riders ELSE Drivers
    /\ plan \in [Ops -> {"historyFirst", "historyLast"}]

StoreInit ==
    /\ orders = {} /\ history = {} /\ acceptances = {} /\ outbox = {}
    /\ stmt = [c \in Calls |-> Idle]
    /\ plan \in [Ops -> {"historyFirst", "historyLast"}]

-----------------------------------------------------------------------------
(* The committed rows as a snapshot shows them. *)

HistoryOf(o) == {h \in history : h.order = o}

\* (Mutant: DESC is forgotten.)
FirstRow(o) == CHOOSE h \in HistoryOf(o) : \A g \in HistoryOf(o) : g.seq >= h.seq

\* ORDER BY sequence DESC LIMIT 1
LastRow(o) == CHOOSE h \in HistoryOf(o) : \A g \in HistoryOf(o) : g.seq <= h.seq

\* COALESCE(MAX(sequence), 0) + 1
NextSeq(o) == IF HistoryOf(o) = {} THEN 1 ELSE LastRow(o).seq + 1

\* (Mutants: one of the two EXISTS conditions is forgotten.)
GuardOnceRequested(o) == \E h \in HistoryOf(o) : h.status = Requested
GuardNotAccepted(o) == ~ \E h \in HistoryOf(o) : h.status = Accepted

\* The guard CTE of acceptedSQL: membership of two statuses, not the last row.
Guard(o) == /\ \E h \in HistoryOf(o) : h.status = Requested
            /\ ~ \E h \in HistoryOf(o) : h.status = Accepted

\* The status viewSQL joins from the last history row, as order_statuses.code.
CurrentStatus(o) ==
    IF HistoryOf(o) = {} THEN "none"
    ELSE IF LastRow(o).status = Requested THEN "requested" ELSE "accepted"

-----------------------------------------------------------------------------
(* One statement. *)

Start(op, o, who, seq, state) ==
    [state |-> state, op |-> op, order |-> o, who |-> who, seq |-> seq,
     wrote |-> {}, hit |-> "none"]

BeginRequested(c, o, r) ==
    /\ stmt[c] = Idle
    /\ stmt' = [stmt EXCEPT ![c] = Start("requested", o, r, 1, "running")]
    /\ UNCHANGED <<orders, history, acceptances, outbox, plan>>

\* With a false guard every INSERT selects no row: the statement affects zero
\* rows and cannot conflict.
BeginAccepted(c, o, d) ==
    /\ stmt[c] = Idle
    /\ stmt' = [stmt EXCEPT ![c] =
                  Start("accepted", o, d, NextSeq(o),
                        IF Guard(o) THEN "running" ELSE "norows")]
    /\ UNCHANGED <<orders, history, acceptances, outbox, plan>>

\* (Mutant: every execution inserts in an order of its own.)
InsertsInAnyOrder(c, t) == t \in Indexed[stmt[c].op] \ stmt[c].wrote

\* Table t is where c's plan inserts next.
Inserts(c, t) ==
    LET left == Indexed[stmt[c].op] \ stmt[c].wrote
        historyFirst == plan[stmt[c].op] = "historyFirst"
    IN  /\ t \in left
        /\ (t = "history") = historyFirst \/ left = {t}

\* Calls b and c insert the same key into the unique index of table t.
SameKey(b, c, t) == /\ stmt[b].order = stmt[c].order
                    /\ t = "history" => stmt[b].seq = stmt[c].seq

\* (Mutant: every INSERT says ON CONFLICT DO NOTHING.)
NeverTaken(c, t) == FALSE

\* A committed row has the key c inserts into t.
Taken(c, t) ==
    \/ t = "orders" /\ \E x \in orders : x.id = stmt[c].order
    \/ t = "acceptances" /\ \E x \in acceptances : x.order = stmt[c].order
    \/ t = "history" /\ \E x \in history : /\ x.order = stmt[c].order
                                            /\ x.seq = stmt[c].seq

\* An unfinished statement has inserted that key: c waits for it to end.
Blocked(c, t) ==
    \E b \in Calls \ {c} : Running(b) /\ t \in stmt[b].wrote /\ SameKey(b, c, t)

\* (Mutant: a key held by an unfinished statement is refused at once.)
InsertNoWait(c, t) ==
    /\ Running(c)
    /\ Inserts(c, t)
    /\ stmt' = IF Taken(c, t) \/ Blocked(c, t)
                THEN [stmt EXCEPT ![c].state = "unique", ![c].hit = t,
                                  ![c].wrote = {}]
                ELSE [stmt EXCEPT ![c].wrote = @ \cup {t}]
    /\ UNCHANGED <<orders, history, acceptances, outbox, plan>>

\* (Mutant: the event is written ahead, in a transaction of its own.)
InsertEventAhead(c, t) ==
    /\ Running(c)
    /\ Inserts(c, t)
    /\ ~ Blocked(c, t)
    /\ outbox' = outbox \cup {[id |-> c, type |-> stmt[c].op,
                               order |-> stmt[c].order, who |-> stmt[c].who]}
    /\ stmt' = IF Taken(c, t)
                THEN [stmt EXCEPT ![c].state = "unique", ![c].hit = t,
                                  ![c].wrote = {}]
                ELSE [stmt EXCEPT ![c].wrote = @ \cup {t}]
    /\ UNCHANGED <<orders, history, acceptances, plan>>

Insert(c, t) ==
    /\ Running(c)
    /\ Inserts(c, t)
    /\ ~ Blocked(c, t)
    /\ stmt' = IF Taken(c, t)
                THEN [stmt EXCEPT ![c].state = "unique", ![c].hit = t,
                                  ![c].wrote = {}]
                ELSE [stmt EXCEPT ![c].wrote = @ \cup {t}]
    /\ UNCHANGED <<orders, history, acceptances, outbox, plan>>

\* The rows of c become visible together; the caller learns it, or not.
Publish(c, state) ==
    LET s == stmt[c]
        isRequest == s.op = "requested"
    IN  /\ Running(c)
        /\ s.wrote = Indexed[s.op]
        /\ orders' = orders \cup
             (IF isRequest THEN {[id |-> s.order, rider |-> s.who]} ELSE {})
        /\ acceptances' = acceptances \cup
             (IF isRequest THEN {}
              ELSE {[id |-> c, order |-> s.order, driver |-> s.who]})
        /\ history' = history \cup
             {[id |-> c, order |-> s.order, seq |-> s.seq,
               status |-> IF isRequest THEN Requested ELSE Accepted]}
        /\ outbox' = outbox \cup
             {[id |-> c, type |-> s.op, order |-> s.order, who |-> s.who]}
        /\ stmt' = [stmt EXCEPT ![c].state = state, ![c].wrote = {}]
        /\ UNCHANGED plan

Commit(c) == Publish(c, "ok")

\* The connection breaks after the server committed: the caller sees an error.
LoseReply(c) == Faults /\ Publish(c, "failed")

\* A broken connection or a canceled request context before the commit.
Abort(c) ==
    /\ Faults
    /\ Running(c)
    /\ stmt' = [stmt EXCEPT ![c].state = "failed", ![c].wrote = {}]
    /\ UNCHANGED <<orders, history, acceptances, outbox, plan>>

\* All calls were made and have ended.
AllEnded ==
    /\ \A c \in Calls : stmt[c].state \in Ended
    /\ UNCHANGED storeVars

Progress(c) == Commit(c) \/ \E t \in {"orders", "history", "acceptances"} : Insert(c, t)

StoreStep(c) ==
    \/ \E o \in OrderIds, r \in Riders : BeginRequested(c, o, r)
    \/ \E o \in OrderIds, d \in Drivers : BeginAccepted(c, o, d)
    \/ Progress(c)
    \/ LoseReply(c)
    \/ Abort(c)

StoreNext == AllEnded \/ \E c \in Calls : StoreStep(c)

StoreSpec == StoreInit /\ [][StoreNext]_storeVars

\* PostgreSQL keeps executing a statement it is not waiting on a lock for.
FairStoreSpec == StoreSpec /\ \A c \in Calls : WF_storeVars(Progress(c))

-----------------------------------------------------------------------------
(* Correctness. *)

\* No order without its event and no event without its order or acceptance
\* (README.md:75-76), whatever statements raced, failed or lost their reply.
OneEventPerChange ==
    /\ \A x \in orders : \E e \in outbox :
           /\ e.type = "requested" /\ e.order = x.id /\ e.who = x.rider
           /\ \A f \in outbox : f.type = "requested" /\ f.order = x.id => f = e
    /\ \A a \in acceptances : \E e \in outbox :
           /\ e.type = "accepted" /\ e.order = a.order /\ e.who = a.driver
           /\ \A f \in outbox : f.type = "accepted" /\ f.order = a.order => f = e
    /\ \A e \in outbox :
           IF e.type = "requested"
           THEN [id |-> e.order, rider |-> e.who] \in orders
           ELSE [id |-> e.id, order |-> e.order, driver |-> e.who] \in acceptances

\* However two drivers race for an order, one of them at most gets it
\* (drivers/repository.go:22-26).
OneDriverPerOrder ==
    \A a, b \in acceptances : a.order = b.order => a = b

\* The last history row, which readers take for the status, says what the
\* other tables say: the three tables never tell different stories.
StatusAgreesWithRows ==
    \A o \in OrderIds :
        LET requested == \E x \in orders : x.id = o
            accepted == \E a \in acceptances : a.order = o
        IN  CurrentStatus(o) = IF accepted THEN "accepted"
                               ELSE IF requested THEN "requested" ELSE "none"

\* acceptedSQL asks whether status rows exist, its comment and the service
\* (drivers/service.go:94-97) speak of the current status.  They agree.
GuardIsCurrentStatus ==
    \A o \in OrderIds : Guard(o) <=> CurrentStatus(o) = "requested"

\* What a statement reports is what it did: success means that its rows are
\* there, a rejection (zero rows, unique violation) that none is.
OutcomeIsTrue ==
    \A c \in Calls :
        LET wroteEvent == \E e \in outbox : e.id = c
            wroteStatus == \E h \in history : h.id = c
        IN  /\ stmt[c].state = "ok" => wroteEvent /\ wroteStatus
            /\ stmt[c].state \in {"norows", "unique"} =>
                   ~ wroteEvent /\ ~ wroteStatus

\* A rejected call has lost to another call that did get through: waiting for
\* an unfinished rival, instead of failing on it, makes sure that a rival that
\* rolls back takes no one with it.  (A zero-row accept whose snapshot had no
\* history row, seq = 1, came before the order.)
LoserHasWinner ==
    \A c \in Calls :
        LET o == stmt[c].order
        IN  /\ stmt[c].state = "norows" /\ stmt[c].seq > 1 =>
                   \E a \in acceptances : a.order = o /\ a.id # c
            /\ stmt[c].state = "unique" =>
                   \E e \in outbox : /\ e.order = o /\ e.id # c
                                     /\ e.type = stmt[c].op

\* c has a step to take: its next key is free, or it holds all it needs.
CanGo(c) ==
    /\ Running(c)
    /\ \/ stmt[c].wrote = Indexed[stmt[c].op]
       \/ \E t \in {"orders", "history", "acceptances"} : Inserts(c, t) /\ ~ Blocked(c, t)

\* b holds the key that c is to insert next.
WaitsFor(c, b) ==
    /\ b # c /\ Running(b)
    /\ \E t \in stmt[b].wrote : Inserts(c, t) /\ SameKey(b, c, t)

\* Statements do not wait in a circle, nor in a queue: the one that holds a key
\* somebody waits for can go on (drivers/repository.go:32-47 takes two keys, in an
\* order that the planner chooses).
HoldersCanGo ==
    \A c \in Calls : Running(c) =>
        CanGo(c) \/ \E b \in Calls : WaitsFor(c, b) /\ CanGo(b)

\* Two statements that wait for each other would wait for ever: every
\* statement ends.
EveryStatementEnds ==
    \A c \in Calls : Running(c) ~> ~ Running(c)

\* The tables behave as one abstract ride service.
R == INSTANCE Ride WITH
        EventIds <- Calls,
        status <- [o \in OrderIds |-> CurrentStatus(o)],
        requests <- orders,
        accepts <- acceptances,
        events <- outbox

ImplementsRide == R!RideSpec

-----------------------------------------------------------------------------
(* The inductive invariant behind the theorems of OrderStoreProofs. *)

\* An uncommitted key is held by one statement and by no committed row.
KeysHeld ==
    \A c \in Calls, t \in {"orders", "history", "acceptances"} :
        Running(c) /\ t \in stmt[c].wrote =>
            /\ t \in Indexed[stmt[c].op]
            /\ ~ Taken(c, t)
            /\ ~ Blocked(c, t)

\* An order's history is empty, or 1 = requested, or that and 2 = accepted,
\* in step with the orders and acceptances rows.
HistoryInStep ==
    /\ \A g, h \in history : g.order = h.order /\ g.seq = h.seq => g = h
    /\ \A h \in history :
           \/ /\ h.seq = 1 /\ h.status = Requested
              /\ \E x \in orders : x.id = h.order
           \/ /\ h.seq = 2 /\ h.status = Accepted
              /\ \E a \in acceptances : a.order = h.order
    /\ \A x \in orders : \E h \in history : h.order = x.id /\ h.seq = 1
    /\ \A a \in acceptances :
           /\ \E h \in history : h.order = a.order /\ h.seq = 1
           /\ \E h \in history : h.order = a.order /\ h.seq = 2
    /\ \A x, y \in orders : x.id = y.id => x = y

\* A running statement writes the sequence its snapshot called for, and the
\* order an acceptance is for is there.
SnapshotHolds ==
    \A c \in Calls : Running(c) =>
        IF stmt[c].op = "requested" THEN stmt[c].seq = 1
        ELSE /\ stmt[c].seq = 2
             /\ \E h \in history : h.order = stmt[c].order /\ h.seq = 1

\* The rows of a call appear with its commit and not before.
RowsOfCalls ==
    \A c \in Calls : stmt[c].state \in {"idle", "running", "norows", "unique"} =>
        /\ \A e \in outbox : e.id # c
        /\ \A h \in history : h.id # c
        /\ \A a \in acceptances : a.id # c

\* The table into which a statement of each kind inserts first.
FirstTable(op) ==
    IF plan[op] = "historyFirst" THEN "history"
    ELSE IF op = "requested" THEN "orders" ELSE "acceptances"

\* Keys are taken in the order of the plan, and whoever has the first one gets the
\* other: losers are stopped at the first, with nothing in their hands.
KeysInOrder ==
    \A c \in Calls :
        /\ Running(c) => \/ stmt[c].wrote \in {{}, {FirstTable(stmt[c].op)}}
                         \/ stmt[c].wrote = Indexed[stmt[c].op]
        /\ stmt[c].state = "unique" => stmt[c].hit = FirstTable(stmt[c].op)

StoreInv ==
    /\ StoreTypeOK
    /\ OneEventPerChange
    /\ OneDriverPerOrder
    /\ HistoryInStep
    /\ KeysHeld
    /\ SnapshotHolds
    /\ RowsOfCalls
    /\ OutcomeIsTrue
    /\ LoserHasWinner
=============================================================================
