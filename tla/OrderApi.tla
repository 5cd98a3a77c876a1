------------------------------ MODULE OrderApi ------------------------------
(***************************************************************************)
(* The three routes of the API (internal/orders, internal/drivers) on top  *)
(* of the tables: handlers, services, the read-through cache (L1, in the   *)
(* memory of the process, and L2, in Redis) with its single flight, and    *)
(* the two statements of OrderStore.                                       *)
(*                                                                         *)
(* Every request is one of the Calls.  Its goroutine runs the handler step *)
(* by step: other requests, commits and evictions come in between wherever *)
(* it leaves the process (the cache, the database).  A crash ends all      *)
(* requests of the process; the statements they had sent go on without     *)
(* them, the process starts again at once.  Other replicas of the API, if  *)
(* there are any, share the tables and perhaps the Redis with it.          *)
(*                                                                         *)
(* Identifiers are texts.  A text of a UUID is its canonical form or       *)
(* another one (upper case, for example): uuid.Parse and the ::uuid casts  *)
(* take both, string comparison and cache keys tell them apart.  Texts     *)
(* that one of the two takes and the other does not are left out.          *)
(***************************************************************************)
EXTENDS OrderStore, HttpErrors

CONSTANT Forms          \* the forms in which callers write UUIDs

ASSUME ApiAssumption == Forms \subseteq {"canonical", "other"}

VARIABLES setup,        \* whether orders.NewService was given a cache, and
                        \*   drivers.NewService a reader; whose Redis L2 is
          pc,           \* where the goroutine of each request is
          input,        \* what the handler passed on to the service
          got,          \* what the request's read returned
          reply,        \* what the request was answered
          cache,        \* L1: the view the process holds under each key
          redis,        \* L2, if only this process uses it: likewise
          flight        \* per key, the request that loads it for all

apiVars == <<setup, pc, input, got, reply, cache, redis, flight>>
allVars == <<apiVars, storeVars>>

-----------------------------------------------------------------------------
(* Texts and views. *)

Text(id, form) == [id |-> id, form |-> form]
TextsOf(Ids) == {Text(id, form) : id \in Ids, form \in Forms}
Canon(id) == Text(id, "canonical")      \* what uuid.New and ::text produce

\* A header, path or body value: a UUID, something else, or absent.
Given(Ids) == [is : {"uuid"}, text : TextsOf(Ids)] \cup [is : {"junk", "empty"}]

\* The cache key: "orders:view:" and the text as the caller wrote it.
Keys == TextsOf(OrderIds) \cup {Canon(o) : o \in OrderIds}

NoView == [status |-> "none"]
View(r, st) == [rider |-> r, status |-> st]
Views == [rider : Riders, status : {"requested", "accepted"}]

Rank(st) == CASE st = "none" -> 0 [] st = "requested" -> 1 [] st = "accepted" -> 2

NoInput == [kind |-> "none"]
NoResult == [view |-> NoView, err |-> Nil]
NoReply == [status |-> 0, code |-> ""]

\* What the handlers pass on.
Inputs ==
    [kind : {"request"}, order : {Canon(o) : o \in OrderIds},
     who : {Canon(r) : r \in Riders}, seen : {0}]
    \cup [kind : {"get"}, order : TextsOf(OrderIds), who : TextsOf(Riders),
          seen : 0..2]
    \cup [kind : {"accept"}, order : TextsOf(OrderIds),
          who : {Canon(d) : d \in Drivers}, seen : {0}]

Loaded == {"fetched", "queried"}        \* has what its flight waits for
Loading == Loaded \cup {"leading"}
Handling == Loading \cup {"read", "waiting", "got", "insert", "inserting"}

DbError == <<Plain("")>>        \* any error of the database library
NotFound == NewError(404, "ORDER_NOT_FOUND")
\* (Mutant: a status the API does not document.)
NotAcceptable422 == NewError(422, "ORDER_NOT_ACCEPTABLE")

NotAcceptable == NewError(409, "ORDER_NOT_ACCEPTABLE")
AlreadyAccepted == NewError(409, "ORDER_ALREADY_ACCEPTED")
AlreadyExists == NewError(409, "ORDER_ALREADY_EXISTS")

HasCache == setup.cache
HasReader == setup.reader

\* No L2, or a Redis (CACHE_ENABLE_L2) of this process, or of several replicas.
OwnL2 == setup.l2 = "own"
SharedL2 == setup.l2 = "shared"

ApiInit ==
    /\ StoreInit
    /\ setup \in [cache : BOOLEAN, reader : BOOLEAN, l2 : {"off", "own", "shared"}]
    /\ setup.l2 # "off" => setup.cache
    /\ pc = [c \in Calls |-> "new"]
    /\ input = [c \in Calls |-> NoInput]
    /\ got = [c \in Calls |-> NoResult]
    /\ reply = [c \in Calls |-> NoReply]
    /\ cache = [k \in Keys |-> NoView]
    /\ redis = [k \in Keys |-> NoView]
    /\ flight = [k \in Keys |-> {}]

-----------------------------------------------------------------------------
(* Answers.  WorkerContext hands the domain error through: a 4xx is kept    *)
(* back from it (the job did not fail) and kept for the caller.             *)

\* (Mutant: the outcome of the job overwrites the domain error.)
WorkerOverwrites(err) == IF IsClientError(err) THEN Nil ELSE err

Worker(err) ==
    LET workErr == IF IsClientError(err) THEN Nil ELSE err
    IN  IF err = Nil THEN workErr ELSE err

AnswerOf(err, success) ==
    IF err = Nil THEN [status |-> success, code |-> ""] ELSE AbortError(err)

Answer(c, answer) ==
    /\ pc' = [pc EXCEPT ![c] = "done"]
    /\ reply' = [reply EXCEPT ![c] = answer]

\* A handler rejects its input before it calls the service.
Reject(c, err) ==
    /\ Answer(c, AnswerOf(err, 0))
    /\ UNCHANGED <<input, got, cache, redis, flight, storeVars>>

\* The handler passes its input on.
Pass(c, kind, order, who, seen, at) ==
    /\ input' = [input EXCEPT ![c] = [kind |-> kind, order |-> order, who |-> who,
                                      seen |-> seen]]
    /\ pc' = [pc EXCEPT ![c] = at]
    /\ UNCHANGED <<got, reply, cache, redis, flight, storeVars>>

-----------------------------------------------------------------------------
(* Handlers: what each route does before it leaves the process.  A text     *)
(* that goes to a ::uuid cast and nowhere else is kept in canonical form.   *)

\* uuid.New: an identifier no request has used yet.
Unused(Ids) == {x \in Ids : \A c \in Calls :
                    input[c] # NoInput => x \notin {input[c].order.id, input[c].who.id}}

OrFresh(given, Ids) ==
    IF given.is = "empty" THEN [is : {"uuid"}, text : {Canon(x) : x \in Unused(Ids)}]
                          ELSE {given}

PostOrder(c) ==
    /\ pc[c] = "new"
    /\ \/ Reject(c, ValidationError)        \* the body does not parse
       \/ \E id \in Given(OrderIds), header, body \in Given(Riders) :
            \E order \in OrFresh(id, OrderIds),
               rider \in OrFresh(IF header.is = "empty" THEN body ELSE header, Riders) :
                IF order.is = "uuid" /\ rider.is = "uuid"
                THEN Pass(c, "request", Canon(order.text.id), Canon(rider.text.id),
                          0, "insert")
                ELSE Reject(c, ValidationError)

\* The rank of the status last shown under key k (0: none): auxiliary, recorded
\* when a read arrives.
Shown(k) ==
    LET reads == {b \in Calls : pc[b] = "done" /\ reply[b].status = 200
                                  /\ input[b].order = k}
    IN  IF \E b \in reads : got[b].view.status = "accepted" THEN 2
        ELSE IF reads # {} THEN 1 ELSE 0

GetOrder(c) ==
    /\ pc[c] = "new"
    /\ \E path \in Given(OrderIds), header \in Given(Riders) :
          IF header.is = "uuid" /\ path.is = "uuid"
          THEN Pass(c, "get", path.text, header.text, Shown(path.text), "read")
          ELSE Reject(c, ValidationError)

AcceptOrder(c) ==
    /\ pc[c] = "new"
    /\ \E path \in Given(OrderIds), header \in Given(Drivers) :
          IF header.is = "uuid" /\ path.is = "uuid"
          THEN Pass(c, "accept", path.text, Canon(header.text.id), 0,
                    IF HasReader THEN "read" ELSE "insert")
          ELSE Reject(c, Worker(ValidationError))

-----------------------------------------------------------------------------
(* orders.Service.Get: a read through the cache. *)

Key(c) == input[c].order

\* viewSQL, on the rows committed by now.
Load(o) ==
    IF \E x \in orders : x.id = o
    THEN [view |-> View((CHOOSE x \in orders : x.id = o).rider, CurrentStatus(o)),
          err |-> Nil]
    ELSE [view |-> NoView, err |-> NotFound]

Failed(err) == [view |-> NoView, err |-> err]

\* (Mutant: the error is handed on as the cache library gives it.)
ReturnedAsIs(err) == err

\* A missing order is reported as such even if the cache flattened the error.
Returned(err) == IF HasCode(err, "ORDER_NOT_FOUND") THEN NotFound ELSE err

Get(c, result) ==
    /\ got' = [got EXCEPT ![c] = result]
    /\ pc' = [pc EXCEPT ![c] = "got"]

\* No cache: straight from the repository.
ReadDirect(c) ==
    /\ pc[c] = "read" /\ ~ HasCache
    /\ Get(c, Load(Key(c).id))
    /\ UNCHANGED <<input, reply, cache, redis, flight, storeVars>>

Hit(c) ==
    /\ pc[c] = "read" /\ HasCache /\ cache[Key(c)] # NoView
    /\ Get(c, [view |-> cache[Key(c)], err |-> Nil])
    /\ UNCHANGED <<input, reply, cache, redis, flight, storeVars>>

\* (Mutant: no single flight.)
LeadUnguarded(c) ==
    /\ pc[c] = "read" /\ HasCache /\ cache[Key(c)] = NoView
    /\ flight' = [flight EXCEPT ![Key(c)] = {c}]
    /\ pc' = [pc EXCEPT ![c] = "leading"]
    /\ UNCHANGED <<input, got, reply, cache, redis, storeVars>>

\* A miss: the first request loads, those that come meanwhile wait for it.
Lead(c) ==
    /\ pc[c] = "read" /\ HasCache /\ cache[Key(c)] = NoView
    /\ flight[Key(c)] = {}
    /\ flight' = [flight EXCEPT ![Key(c)] = {c}]
    /\ pc' = [pc EXCEPT ![c] = "leading"]
    /\ UNCHANGED <<input, got, reply, cache, redis, storeVars>>

Join(c) ==
    /\ pc[c] = "read" /\ HasCache /\ cache[Key(c)] = NoView
    /\ flight[Key(c)] # {}
    /\ pc' = [pc EXCEPT ![c] = "waiting"]
    /\ UNCHANGED <<input, got, reply, cache, redis, flight, storeVars>>

\* The views another replica may have loaded by now, one that was slow perhaps
\* long ago.
PastViews(k) ==
    {View(x.rider, st) : x \in {x \in orders : x.id = k.id},
                         st \in {st \in {"requested", "accepted"} :
                                     Rank(st) <= Rank(CurrentStatus(k.id))}}

\* What Redis may have under k: what the process has stored there or, in a Redis of
\* several replicas, what any of them was the last to store.
InL2(k) == IF SharedL2 THEN PastViews(k) ELSE {redis[k]} \ {NoView}

\* The load finds a copy in Redis.
HitL2(c) ==
    /\ pc[c] = "leading"
    /\ \E view \in InL2(Key(c)) : got' = [got EXCEPT ![c] = [view |-> view, err |-> Nil]]
    /\ pc' = [pc EXCEPT ![c] = "fetched"]
    /\ UNCHANGED <<input, reply, cache, redis, flight, storeVars>>

\* It finds none, or Redis fails, and goes to the database.  The query sees the rows
\* of now; its result reaches the cache later.
Query(c) ==
    /\ pc[c] = "leading"
    /\ redis[Key(c)] = NoView \/ Faults
    /\ got' = [got EXCEPT ![c] = Load(Key(c).id)]
    /\ pc' = [pc EXCEPT ![c] = "queried"]
    /\ UNCHANGED <<input, reply, cache, redis, flight, storeVars>>

\* What the database said goes to Redis before the load is over, unless Redis
\* fails.
StoreL2(c) ==
    IF OwnL2 /\ pc[c] = "queried" /\ got[c].err = Nil
    THEN redis' \in {[redis EXCEPT ![Key(c)] = got[c].view]}
                       \cup (IF Faults THEN {redis} ELSE {})
    ELSE UNCHANGED redis

\* (Mutant: an error is returned to the loader only.)
DeliverErrorToLeader(c) ==
    /\ pc[c] \in Loaded
    /\ StoreL2(c)
    /\ LET k == Key(c)
           all == {c} \cup {b \in Calls : /\ pc[b] = "waiting" /\ Key(b) = k
                                          /\ got[c].err = Nil}
       IN  /\ got' = [b \in Calls |-> IF b \in all THEN got[c] ELSE got[b]]
           /\ pc' = [b \in Calls |-> IF b \in all THEN "got" ELSE pc[b]]
           /\ cache' = IF got[c].err = Nil THEN [cache EXCEPT ![k] = got[c].view]
                       ELSE cache
           /\ flight' = [flight EXCEPT ![k] = {}]
    /\ UNCHANGED <<input, reply, storeVars>>

\* The result of the loader goes to the cache (an error does not) and to all
\* that wait for it, to them as the cache library hands errors on.
Deliver(c) ==
    /\ pc[c] \in Loaded
    /\ StoreL2(c)
    /\ LET k == Key(c)
           all == {c} \cup {b \in Calls : pc[b] = "waiting" /\ Key(b) = k}
           result(err) == [view |-> got[c].view, err |-> Returned(err)]
       IN  /\ \E err \in {got[c].err} \cup
                          (IF got[c].err = Nil THEN {} ELSE {Flatten(got[c].err)}) :
                  got' = [b \in Calls |-> IF b \in all THEN result(err) ELSE got[b]]
           /\ pc' = [b \in Calls |-> IF b \in all THEN "got" ELSE pc[b]]
           /\ cache' = IF got[c].err = Nil THEN [cache EXCEPT ![k] = got[c].view]
                       ELSE cache
           /\ flight' = [flight EXCEPT ![k] = {}]
    /\ UNCHANGED <<input, reply, storeVars>>

-----------------------------------------------------------------------------
(* What the services do with it, and the writes. *)

\* (Mutant: whoever asks is shown the order.)
FinishGetAnyone(c) ==
    /\ pc[c] = "got" /\ input[c].kind = "get"
    /\ Answer(c, AnswerOf(got[c].err, 200))
    /\ UNCHANGED <<input, got, cache, redis, flight, storeVars>>

\* The order is shown to the rider whose id text equals the stored one.
FinishGet(c) ==
    /\ pc[c] = "got" /\ input[c].kind = "get"
    /\ LET r == got[c]
           err == IF r.err # Nil THEN r.err
                  ELSE IF Canon(r.view.rider) # input[c].who THEN NotFound ELSE Nil
       IN  Answer(c, AnswerOf(err, 200))
    /\ UNCHANGED <<input, got, cache, redis, flight, storeVars>>

\* (Mutant: an order that could not be read is refused as well.)
CheckAcceptStrict(c) ==
    /\ pc[c] = "got" /\ input[c].kind = "accept"
    /\ IF got[c].view.status # "requested"
       THEN Answer(c, AnswerOf(Worker(NotAcceptable), 201))
       ELSE pc' = [pc EXCEPT ![c] = "insert"] /\ UNCHANGED reply
    /\ got' = [got EXCEPT ![c] = NoResult]
    /\ UNCHANGED <<input, cache, redis, flight, storeVars>>

\* drivers.Service refuses at once if the order has left "requested"; on any
\* other outcome of the read the guard of the statement decides.
CheckAccept(c) ==
    /\ pc[c] = "got" /\ input[c].kind = "accept"
    /\ IF got[c].err = Nil /\ got[c].view.status # "requested"
       THEN Answer(c, AnswerOf(Worker(NotAcceptable), 201))
       ELSE pc' = [pc EXCEPT ![c] = "insert"] /\ UNCHANGED reply
    /\ got' = [got EXCEPT ![c] = NoResult]
    /\ UNCHANGED <<input, cache, redis, flight, storeVars>>

\* (Mutant: an acceptance updates the cache before it is stored.)
StartWriteThrough(c) ==
    /\ pc[c] = "insert"
    /\ IF input[c].kind = "request"
       THEN BeginRequested(c, input[c].order.id, input[c].who.id) /\ UNCHANGED cache
       ELSE /\ BeginAccepted(c, input[c].order.id, input[c].who.id)
            /\ cache' = [cache EXCEPT ![Key(c)] =
                             IF @ = NoView THEN @ ELSE View(@.rider, "accepted")]
    /\ pc' = [pc EXCEPT ![c] = "inserting"]
    /\ UNCHANGED <<input, got, reply, redis, flight>>

StartWrite(c) ==
    /\ pc[c] = "insert"
    /\ IF input[c].kind = "request"
       THEN BeginRequested(c, input[c].order.id, input[c].who.id)
       ELSE BeginAccepted(c, input[c].order.id, input[c].who.id)
    /\ pc' = [pc EXCEPT ![c] = "inserting"]
    /\ UNCHANGED <<input, got, reply, cache, redis, flight>>

\* The name of the unique constraint of each table.
Constraint == [orders |-> "orders_pkey",
               history |-> "order_status_history_order_id_sequence_key",
               acceptances |-> "uq_order_acceptances_order"]

\* The error the database library returns for c's statement.  It is assumed to be
\* the driver's *pgconn.PgError itself: drivers/service.go:118 looks at the outermost
\* error only, and wrapped by the library every conflict there would be a 500.
StatementError(c) ==
    CASE stmt[c].state = "unique" -> <<PgError("23505", Constraint[stmt[c].hit])>>
      [] stmt[c].state = "failed" -> DbError
      [] OTHER -> Nil

\* errors.As: the outermost *pgconn.PgError of the chain.
PgErrorOf(err) == {err[i] : i \in {i \in DOMAIN err :
                       err[i].kind = "pg" /\ \A j \in 1..(i-1) : err[j].kind # "pg"}}

IsDuplicateOrder(e) ==
    /\ e.code = "23505"
    /\ e.constraint \in {"orders_pkey", "order_status_history_order_id_sequence_key"}

\* (Mutant: any error counts as the conflict.)
RequestedErrorAny(c) == IF StatementError(c) # Nil THEN AlreadyExists ELSE Nil

\* orders.Service.doRequested
RequestedError(c) ==
    LET err == StatementError(c)
    IN  IF \E e \in PgErrorOf(err) : IsDuplicateOrder(e) THEN AlreadyExists ELSE err

\* drivers.Database.Accepted (zero rows), then drivers.Service.doAccepted
AcceptedError(c) ==
    LET err == IF stmt[c].state = "norows" THEN NotAcceptable ELSE StatementError(c)
    IN  IF err = Nil THEN Nil
        ELSE IF err[1].kind = "http" /\ err[1].code = "ORDER_NOT_ACCEPTABLE"
             THEN NotAcceptable
        ELSE IF err[1] = PgError("23505", "uq_order_acceptances_order")
             THEN AlreadyAccepted
        ELSE err

\* (Mutant: a failed statement is tried again by the service.)
FinishWriteRetry(c) ==
    /\ pc[c] = "inserting" /\ stmt[c].state \in Ended
    /\ IF stmt[c].state = "failed"
       THEN /\ stmt' = [stmt EXCEPT ![c] = Idle]
            /\ pc' = [pc EXCEPT ![c] = "insert"]
            /\ UNCHANGED <<reply, orders, history, acceptances, outbox, plan>>
       ELSE /\ Answer(c, AnswerOf(Worker(StatementError(c)), 201))
            /\ UNCHANGED storeVars
    /\ UNCHANGED <<input, got, cache, redis, flight>>

FinishWrite(c) ==
    /\ pc[c] = "inserting" /\ stmt[c].state \in Ended
    /\ LET err == IF input[c].kind = "request" THEN RequestedError(c) ELSE AcceptedError(c)
       IN  Answer(c, AnswerOf(Worker(err), 201))
    /\ UNCHANGED <<input, got, cache, redis, flight, storeVars>>

-----------------------------------------------------------------------------
(* Everything around the handlers. *)

\* PostgreSQL executes a statement; the handler sees nothing until it ends.
Database(c) ==
    /\ Progress(c) \/ LoseReply(c) \/ Abort(c)
    /\ UNCHANGED apiVars

\* The cache or the database fails a read, or its context is canceled.
FailRead(c) ==
    /\ Faults
    /\ \/ /\ pc[c] \in {"read", "waiting"}
          /\ Get(c, Failed(DbError))
       \/ /\ pc[c] = "leading"
          /\ got' = [got EXCEPT ![c] = Failed(DbError)]
          /\ pc' = [pc EXCEPT ![c] = "queried"]
    /\ UNCHANGED <<input, reply, cache, redis, flight, storeVars>>

\* The TTL or an eviction ends an entry of L1, or of L2.
Expire(k) ==
    /\ \/ /\ cache[k] # NoView
          /\ cache' = [cache EXCEPT ![k] = NoView]
          /\ UNCHANGED redis
       \/ /\ redis[k] # NoView
          /\ redis' = [redis EXCEPT ![k] = NoView]
          /\ UNCHANGED cache
    /\ UNCHANGED <<pc, input, got, reply, flight, storeVars>>

\* The process dies with its requests and L1; what Redis has stays there.
Crash ==
    /\ Faults
    /\ \E c \in Calls : pc[c] \in Handling
    /\ pc' = [c \in Calls |-> IF pc[c] \in Handling THEN "dead" ELSE pc[c]]
    /\ got' = [c \in Calls |-> IF pc[c] \in Handling THEN NoResult ELSE got[c]]
    /\ cache' = [k \in Keys |-> NoView]
    /\ flight' = [k \in Keys |-> {}]
    /\ UNCHANGED <<input, reply, redis, storeVars>>

\* Every request has been answered or has died, every statement has ended.
AllAnswered ==
    /\ \A c \in Calls : pc[c] \in {"done", "dead"} /\ ~ Running(c)
    /\ UNCHANGED allVars

Receive(c) == PostOrder(c) \/ GetOrder(c) \/ AcceptOrder(c)

Handle(c) ==
    \/ ReadDirect(c) \/ Hit(c) \/ Lead(c) \/ Join(c) \/ HitL2(c) \/ Query(c)
    \/ Deliver(c) \/ FinishGet(c) \/ CheckAccept(c) \/ StartWrite(c) \/ FinishWrite(c)

\* What happens without a new request.
Serve ==
    \/ \E c \in Calls : Handle(c) \/ Database(c) \/ FailRead(c)
    \/ \E k \in Keys : Expire(k)
    \/ Crash
    \/ AllAnswered

ApiNext == UNCHANGED setup /\ (Serve \/ \E c \in Calls : Receive(c))

ApiSpec == ApiInit /\ [][ApiNext]_allVars

\* Goroutines and the database run; requests, faults and evictions may not come.
ApiFairness ==
    \A c \in Calls : /\ WF_allVars(Handle(c) /\ UNCHANGED setup)
                     /\ WF_allVars(Progress(c) /\ UNCHANGED apiVars)

FairApiSpec == ApiSpec /\ ApiFairness

-----------------------------------------------------------------------------
(* Correctness. *)

\* The services get what the handlers let through; a write gets no read's input.
InputOK ==
    /\ input \in [Calls -> Inputs \cup {NoInput}]
    /\ \A c \in Calls : /\ pc[c] \in Handling => input[c] # NoInput
                        /\ pc[c] \in {"insert", "inserting"} => input[c].kind # "get"
                        /\ pc[c] = "new" => input[c] = NoInput

ApiTypeOK ==
    /\ pc \in [Calls -> Handling \cup {"new", "done", "dead"}]
    /\ InputOK
    /\ \A c \in Calls : got[c].view \in Views \cup {NoView}
    /\ \A c \in Calls : reply[c].status \in {0, 200, 201, 400, 404, 409, 500}
    /\ cache \in [Keys -> Views \cup {NoView}]
    /\ redis \in [Keys -> Views \cup {NoView}]
    /\ flight \in [Keys -> {{}} \cup {{c} : c \in Calls}]

\* 201 means: the order, or the acceptance, of this very caller is stored
\* together with its event.
CreatedIsStored ==
    \A c \in Calls : reply[c].status = 201 =>
        /\ \E e \in outbox : /\ e.id = c
                             /\ e.order = input[c].order.id
                             /\ e.who = input[c].who.id
                             /\ e.type = IF input[c].kind = "request"
                                         THEN "requested" ELSE "accepted"
        /\ Rank(CurrentStatus(input[c].order.id))
             >= IF input[c].kind = "request" THEN 1 ELSE 2

\* Of all that ask for the same change at most one is told 201, whatever is lost or
\* dies on the way (drivers/repository.go:22-26, README.md:88).
OneIsToldSo ==
    \A b, c \in Calls :
        /\ reply[b].status = 201 /\ reply[c].status = 201
        /\ input[b].kind = input[c].kind /\ input[b].order.id = input[c].order.id
        => b = c

\* A 4xx means that the request has written nothing and will write nothing.
RefusedWritesNothing ==
    \A c \in Calls : pc[c] = "done" /\ ClientStatus(reply[c].status) =>
        /\ ~ Running(c)
        /\ \A x \in outbox \cup history \cup acceptances : x.id # c

\* A rider sees the own orders and no others (orders/handler.go:88-91).
ShownToOwnerOnly ==
    \A c \in Calls : reply[c].status = 200 =>
        [id |-> input[c].order.id, rider |-> input[c].who.id] \in orders

\* Views, in L1 or L2, on their way or shown, may be late but never ahead of
\* the database or of somebody else's order.  This is what makes it safe to
\* act on a cached "accepted" (drivers/service.go:94-97).
ViewsNeverAhead ==
    LET true(o, v) == v # NoView =>
            /\ [id |-> o, rider |-> v.rider] \in orders
            /\ Rank(v.status) <= Rank(CurrentStatus(o))
    IN  /\ \A k \in Keys : true(k.id, cache[k]) /\ true(k.id, redis[k])
        /\ \A c \in Calls : input[c] # NoInput => true(input[c].order.id, got[c].view)

\* Every 409 has its reason: the order was stored, or taken, by another call,
\* or, for a driver, was not there when the statement looked.
ConflictsAreReal ==
    \A c \in Calls : reply[c].status = 409 =>
        LET o == input[c].order.id
            other(type) == \E e \in outbox : /\ e.type = type /\ e.order = o
                                             /\ e.id # c
        IN  IF reply[c].code = "ORDER_ALREADY_EXISTS" THEN other("requested")
            ELSE other("accepted") \/ (stmt[c].state = "norows" /\ stmt[c].seq = 1)

\* Nobody else stores in the cache of this process, and no copy in Redis outlives
\* its failures.
AloneWithCache == setup.l2 = "off" \/ (OwnL2 /\ ~ Faults)

\* Once a process that is alone with its cache has shown a status of an order under
\* an id text, no later read of it with that text shows an earlier one, or 404 to
\* the owner: evictions and slow loads never move a view back.  (Without L2 not even
\* if anything fails.  In a Redis of several replicas the slow load of another one
\* may replace a newer view, or a SET that failed leave an older one: there
\* reads do go back, and ViewCache says how far.)
ReadsNeverGoBack ==
    AloneWithCache =>
    \A c \in Calls : pc[c] = "done" /\ input[c] # NoInput /\ input[c].kind = "get" =>
        /\ reply[c].status = 200 => Rank(got[c].view.status) >= input[c].seen
        /\ reply[c].status = 404 /\ input[c].seen > 0 => got[c].err = Nil

\* A 500 is never an order that was not found, taken or stored before, on whatever
\* way that error came: something broke, or the loser of two accepts met the
\* history's key, which drivers/service.go:118 does not know.
ServerErrorsHaveCauses ==
    \A c \in Calls : reply[c].status = 500 =>
        \/ Faults /\ (got[c].err = DbError \/ stmt[c].state = "failed")
        \/ /\ input[c].kind = "accept" /\ stmt[c].state = "unique"
           /\ plan["accepted"] = "historyFirst"

\* No request is answered twice, and none sends a second statement: errors are
\* handed to the caller and never retried here (orders/service.go:105,
\* drivers/service.go:107).
NothingTwice ==
    [][\A c \in Calls :
          /\ reply[c].status # 0 => reply'[c] = reply[c]
          /\ stmt[c] # Idle => /\ stmt'[c] # Idle /\ stmt'[c].op = stmt[c].op
                               /\ stmt'[c].order = stmt[c].order /\ stmt'[c].who = stmt[c].who
      ]_allVars

\* An accept with valid ids is answered 201 or, if it may not be, 409
\* (README.md:88), as long as nothing breaks.
AcceptsGet201Or409 ==
    \A c \in Calls :
        pc[c] = "done" /\ input[c] # NoInput /\ input[c].kind = "accept" =>
            reply[c].status \in {201, 409}

\* A rider who asks for an order of its own that is there is shown it
\* (README.md:89, orders/handler.go:88-91).
OwnersSeeTheirOrders ==
    \A c \in Calls :
        pc[c] = "done" /\ input[c] # NoInput /\ input[c].kind = "get"
          /\ got[c].err = Nil /\ got[c].view.rider = input[c].who.id =>
            reply[c].status = 200

\* Whoever cannot go on alone waits for someone who can: a follower of a flight for
\* its leader, a statement for one that holds its key, perhaps of a request that has
\* died.  After a crash or a failed load nobody waits for what is gone.
NobodyIsStuck ==
    \A c \in Calls :
        /\ pc[c] = "waiting" => \E b \in Calls : /\ flight[Key(c)] = {b} /\ Key(b) = Key(c)
                                                 /\ pc[b] \in Loading
        /\ pc[c] = "got" => input[c].kind \in {"get", "accept"}
        /\ pc[c] = "insert" => stmt[c] = Idle
        /\ pc[c] = "inserting" => \/ stmt[c].state \in Ended \/ CanGo(c)
                                  \/ \E b \in Calls : WaitsFor(c, b) /\ CanGo(b)

\* Every request that reaches its handler is answered, unless the process dies:
\* no waiter of a single flight and no loser of a key is left behind.
EveryRequestAnswered ==
    \A c \in Calls : pc[c] \in Handling ~> pc[c] \in {"done", "dead"}

\* The API uses the tables through the two statements only.
UsesTheStore == StoreSpec
=============================================================================
