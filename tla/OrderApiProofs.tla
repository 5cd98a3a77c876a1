--------------------------- MODULE OrderApiProofs ---------------------------
(***************************************************************************)
(* The API, for every number of requests, orders, riders and drivers, with *)
(* and without cache, reader and faults.  It touches the tables through    *)
(* the two statements only, so that everything OrderStoreProofs shows of   *)
(* these holds of the running service.  What it answers, and what readers  *)
(* are shown, follows from ApiInv: views are never ahead of the tables     *)
(* (ReadInv), every answer has its reason and every statement is its       *)
(* caller's (WriteInv), every event says what its statement says           *)
(* (EventsOfCalls).  That reads under one key never go back, in a process  *)
(* alone with its cache, needs more: the single flight (FlightInv), levels *)
(* of the cache that agree (LevelsInv) and that what was once known of an  *)
(* order stays fresh (OrderInv).                                           *)
(***************************************************************************)
EXTENDS OrderApi, OrderStoreProofs

\* The places of a request that loads are few.
USE DEF Loading, Loaded

\* A goroutine is somewhere in its handler, before or after it.
PcOK == pc \in [Calls -> Handling \cup {"new", "done", "dead"}]

\* The inductive invariant: whoever is about to write has a parsed input.
ControlInv == PcOK /\ InputOK

\* No request has been received at the start.
LEMMA InitControl == ApiInit => ControlInv
<1> SUFFICES ASSUME ApiInit PROVE ControlInv
  OBVIOUS
<1> QED BY DEF ApiInit, ControlInv, PcOK, InputOK, Handling, NoInput

\* Passing on a parsed input, or rejecting one, keeps the control state sane.
LEMMA PassKeepsControl ==
    ASSUME ControlInv, NEW c \in Calls, pc[c] = "new", NEW in \in Inputs,
           NEW at \in {"read", "insert"}, at = "insert" => in.kind # "get",
           input' = [input EXCEPT ![c] = in], pc' = [pc EXCEPT ![c] = at]
    PROVE  ControlInv'
<1>1. in # NoInput
  BY DEF Inputs, NoInput
<1> QED BY <1>1 DEF ControlInv, PcOK, InputOK, Handling

\* A rejected request is done, it never had an input.
LEMMA RejectKeepsControl ==
    ASSUME ControlInv, NEW c \in Calls, NEW err, Reject(c, err)
    PROVE  ControlInv' /\ UNCHANGED storeVars
<1> QED BY DEF Reject, Answer, ControlInv, PcOK, InputOK, Handling

\* The texts a handler may find are texts of the ids.
LEMMA FreshIsText ==
    ASSUME NEW Ids, NEW given \in Given(Ids), NEW x \in OrFresh(given, Ids),
           x.is = "uuid"
    PROVE  x.text.id \in Ids
<1>1. CASE given.is = "empty"
  BY <1>1 DEF OrFresh, Unused, Canon, Text
<1>2. CASE given.is # "empty"
  <2>1. x = given
    BY <1>2 DEF OrFresh
  <2>2. given \in [is : {"uuid"}, text : TextsOf(Ids)]
    BY <2>1 DEF Given
  <2> QED BY <2>1, <2>2 DEF TextsOf, Text
<1> QED BY <1>1, <1>2

\* POST /orders passes on canonical ids or rejects.
LEMMA PostKeepsControl ==
    ASSUME ControlInv, NEW c \in Calls, PostOrder(c)
    PROVE  ControlInv' /\ UNCHANGED storeVars
<1>1. ASSUME NEW err, Reject(c, err)
      PROVE  ControlInv' /\ UNCHANGED storeVars
  BY <1>1, RejectKeepsControl
<1>2. ASSUME NEW id \in Given(OrderIds),
             NEW rider \in Given(Riders),
             NEW o \in OrFresh(id, OrderIds), NEW r \in OrFresh(rider, Riders),
             o.is = "uuid", r.is = "uuid",
             Pass(c, "request", Canon(o.text.id), Canon(r.text.id), 0, "insert")
      PROVE  ControlInv' /\ UNCHANGED storeVars
  <2> DEFINE in == [kind |-> "request", order |-> Canon(o.text.id),
                    who |-> Canon(r.text.id), seen |-> 0]
  <2>1. o.text.id \in OrderIds /\ r.text.id \in Riders
    BY <1>2, FreshIsText
  <2>2. in \in Inputs /\ in.kind = "request"
    BY <2>1 DEF Inputs
  <2>3. /\ pc[c] = "new" /\ input' = [input EXCEPT ![c] = in]
        /\ pc' = [pc EXCEPT ![c] = "insert"] /\ UNCHANGED storeVars
    BY <1>2 DEF Pass, PostOrder
  <2> HIDE DEF in
  <2> QED BY <2>2, <2>3, PassKeepsControl
<1>3. \A id \in Given(OrderIds), header, body \in Given(Riders) :
          (IF header.is = "empty" THEN body ELSE header) \in Given(Riders)
  OBVIOUS
<1> QED BY <1>1, <1>2, <1>3 DEF PostOrder

\* GET /orders/:orderId passes on what it has parsed or rejects.
LEMMA GetKeepsControl ==
    ASSUME ControlInv, NEW c \in Calls, GetOrder(c)
    PROVE  ControlInv' /\ UNCHANGED storeVars
<1>1. ASSUME NEW err, Reject(c, err)
      PROVE  ControlInv' /\ UNCHANGED storeVars
  BY <1>1, RejectKeepsControl
<1>2. ASSUME NEW path \in Given(OrderIds), NEW header \in Given(Riders),
             header.is = "uuid", path.is = "uuid",
             Pass(c, "get", path.text, header.text, Shown(path.text), "read")
      PROVE  ControlInv' /\ UNCHANGED storeVars
  <2> DEFINE in == [kind |-> "get", order |-> path.text, who |-> header.text,
                    seen |-> Shown(path.text)]
  <2>1. path.text \in TextsOf(OrderIds) /\ header.text \in TextsOf(Riders)
    BY <1>2 DEF Given
  <2>2. in \in Inputs
    BY <2>1 DEF Inputs, Shown
  <2>3. /\ pc[c] = "new" /\ input' = [input EXCEPT ![c] = in]
        /\ pc' = [pc EXCEPT ![c] = "read"] /\ UNCHANGED storeVars
    BY <1>2 DEF Pass, GetOrder
  <2> HIDE DEF in
  <2> QED BY <2>2, <2>3, PassKeepsControl
<1> QED BY <1>1, <1>2 DEF GetOrder

\* So does POST /orders/:orderId/accept.
LEMMA AcceptKeepsControl ==
    ASSUME ControlInv, NEW c \in Calls, AcceptOrder(c)
    PROVE  ControlInv' /\ UNCHANGED storeVars
<1>1. ASSUME NEW err, Reject(c, err)
      PROVE  ControlInv' /\ UNCHANGED storeVars
  BY <1>1, RejectKeepsControl
<1>2. ASSUME NEW path \in Given(OrderIds), NEW header \in Given(Drivers),
             header.is = "uuid", path.is = "uuid", NEW at \in {"read", "insert"},
             Pass(c, "accept", path.text, Canon(header.text.id), 0, at)
      PROVE  ControlInv' /\ UNCHANGED storeVars
  <2> DEFINE in == [kind |-> "accept", order |-> path.text,
                    who |-> Canon(header.text.id), seen |-> 0]
  <2>1. path.text \in TextsOf(OrderIds) /\ header.text.id \in Drivers
    BY <1>2 DEF Given, TextsOf, Text
  <2>2. in \in Inputs /\ in.kind = "accept"
    BY <2>1 DEF Inputs
  <2>3. /\ pc[c] = "new" /\ input' = [input EXCEPT ![c] = in]
        /\ pc' = [pc EXCEPT ![c] = at] /\ UNCHANGED storeVars
    BY <1>2 DEF Pass, AcceptOrder
  <2> HIDE DEF in
  <2> QED BY <2>2, <2>3, PassKeepsControl
<1> QED BY <1>1, <1>2 DEF AcceptOrder

\* A step that receives nothing leaves the inputs alone and moves requests on.
LEMMA MovesKeepControl ==
    ASSUME ControlInv, input' = input, PcOK',
           \A b \in Calls :
               /\ pc'[b] \in Handling => pc[b] \in Handling
               /\ pc'[b] \in {"insert", "inserting"} =>
                      pc[b] \in {"insert", "inserting"} \/ input[b].kind = "accept"
               /\ pc'[b] = "new" => pc[b] = "new"
    PROVE  ControlInv'
<1> QED BY DEF ControlInv, PcOK, InputOK

\* The reads and the answers leave the tables alone.
LEMMA ReadsKeepControl ==
    ASSUME ControlInv, NEW c \in Calls,
           \/ ReadDirect(c) \/ Hit(c) \/ Lead(c) \/ Join(c) \/ HitL2(c) \/ Query(c)
           \/ Deliver(c) \/ FinishGet(c) \/ CheckAccept(c) \/ FinishWrite(c) \/ FailRead(c)
    PROVE  ControlInv' /\ UNCHANGED storeVars
<1> USE DEF Handling
<1>1. input' = input /\ UNCHANGED storeVars
  BY DEF ReadDirect, Hit, Lead, Join, HitL2, Query, Deliver, FinishGet, CheckAccept,
         FinishWrite, FailRead
<1>2. CASE \/ ReadDirect(c) \/ Hit(c) \/ Lead(c) \/ Join(c) \/ HitL2(c) \/ Query(c)
           \/ FailRead(c)
  <2>1. PICK at \in {"got", "leading", "waiting", "fetched", "queried"} :
            pc[c] \in Handling /\ pc' = [pc EXCEPT ![c] = at]
    BY <1>2 DEF ReadDirect, Hit, Lead, Join, HitL2, Query, FailRead, Get
  <2> QED BY <1>1, <2>1, MovesKeepControl DEF ControlInv, PcOK
<1>3. CASE Deliver(c)
  <2>1. PICK all \in SUBSET Calls :
            /\ \A b \in all : pc[b] \in Handling
            /\ pc' = [b \in Calls |-> IF b \in all THEN "got" ELSE pc[b]]
    <3> DEFINE all == {c} \cup {b \in Calls : pc[b] = "waiting" /\ Key(b) = Key(c)}
    <3> WITNESS all \in SUBSET Calls
    <3> QED BY <1>3 DEF Deliver
  <2> QED BY <1>1, <2>1, MovesKeepControl DEF ControlInv, PcOK
<1>4. CASE FinishGet(c) \/ FinishWrite(c)
  <2>1. pc' = [pc EXCEPT ![c] = "done"]
    BY <1>4 DEF FinishGet, FinishWrite, Answer
  <2> QED BY <1>1, <2>1, MovesKeepControl DEF ControlInv, PcOK
<1>5. CASE CheckAccept(c)
  <2>1. PICK at \in {"done", "insert"} :
            /\ pc[c] \in Handling /\ input[c].kind = "accept"
            /\ pc' = [pc EXCEPT ![c] = at]
    BY <1>5 DEF CheckAccept, Answer
  <2> QED BY <1>1, <2>1, MovesKeepControl DEF ControlInv, PcOK
<1> QED BY <1>1, <1>2, <1>3, <1>4, <1>5

\* A write starts its own call's statement, with ids of the right kinds.
LEMMA StartWriteIsStoreStep ==
    ASSUME ControlInv, NEW c \in Calls, StartWrite(c)
    PROVE  ControlInv' /\ StoreNext
<1>1. /\ pc[c] = "insert" /\ input' = input
      /\ pc' = [pc EXCEPT ![c] = "inserting"]
  BY DEF StartWrite
<1>2. ControlInv'
  BY <1>1, MovesKeepControl DEF ControlInv, PcOK, Handling
<1>3. /\ input[c] \in Inputs
      /\ input[c].kind # "get"
  BY <1>1 DEF ControlInv, InputOK, Handling, NoInput
<1>4. CASE input[c].kind = "request"
  <2>1. input[c].order.id \in OrderIds /\ input[c].who.id \in Riders
    BY <1>3, <1>4 DEF Inputs, Canon, Text
  <2>2. BeginRequested(c, input[c].order.id, input[c].who.id)
    BY <1>4 DEF StartWrite
  <2> QED BY <1>2, <2>1, <2>2 DEF StoreNext, StoreStep
<1>5. CASE input[c].kind # "request"
  <2>1. input[c].order.id \in OrderIds /\ input[c].who.id \in Drivers
    BY <1>3, <1>5 DEF Inputs, Canon, Text, TextsOf
  <2>2. BeginAccepted(c, input[c].order.id, input[c].who.id)
    BY <1>5 DEF StartWrite
  <2> QED BY <1>2, <2>1, <2>2 DEF StoreNext, StoreStep
<1> QED BY <1>4, <1>5

\* Every step of the service is a step of the tables or leaves them alone.
LEMMA ApiStep ==
    ControlInv /\ [ApiNext]_allVars => ControlInv' /\ [StoreNext]_storeVars
<1> SUFFICES ASSUME ControlInv, [ApiNext]_allVars
             PROVE  ControlInv' /\ [StoreNext]_storeVars
  OBVIOUS
<1>1. CASE UNCHANGED allVars
  BY <1>1 DEF allVars, apiVars, ControlInv, PcOK, InputOK
<1>2. ASSUME NEW c \in Calls, Receive(c)
      PROVE  ControlInv' /\ UNCHANGED storeVars
  BY <1>2, PostKeepsControl, GetKeepsControl, AcceptKeepsControl DEF Receive
<1>3. ASSUME NEW c \in Calls, Handle(c)
      PROVE  ControlInv' /\ [StoreNext]_storeVars
  BY <1>3, ReadsKeepControl, StartWriteIsStoreStep DEF Handle
<1>4. ASSUME NEW c \in Calls, Database(c)
      PROVE  ControlInv' /\ StoreNext
  <2>1. ControlInv'
    BY <1>4 DEF Database, apiVars, ControlInv, PcOK, InputOK
  <2> QED BY <1>4, <2>1 DEF Database, StoreNext, StoreStep
<1>5. ASSUME NEW c \in Calls, FailRead(c)
      PROVE  ControlInv' /\ UNCHANGED storeVars
  BY <1>5, ReadsKeepControl
<1>6. ASSUME NEW k \in Keys, Expire(k)
      PROVE  ControlInv' /\ UNCHANGED storeVars
  BY <1>6 DEF Expire, ControlInv, PcOK, InputOK
<1>7. CASE Crash
  <2>1. /\ input' = input /\ UNCHANGED storeVars
        /\ pc' = [c \in Calls |-> IF pc[c] \in Handling THEN "dead" ELSE pc[c]]
    BY <1>7 DEF Crash
  <2>2. PcOK'
    BY <2>1 DEF ControlInv, PcOK
  <2>3. \A b \in Calls : pc'[b] = "dead" \/ pc'[b] = pc[b]
    BY <2>1
  <2> QED BY <2>1, <2>2, <2>3, MovesKeepControl DEF Handling
<1>8. CASE AllAnswered
  BY <1>1, <1>8 DEF AllAnswered, allVars
<1> QED BY <1>1, <1>2, <1>3, <1>4, <1>5, <1>6, <1>7, <1>8
        DEF ApiNext, Serve, allVars

\* The service uses the tables through requestedSQL and acceptedSQL only, each
\* request at most once.
THEOREM ApiUsesTheStore == ApiSpec => UsesTheStore
<1>1. ApiInit => StoreInit
  BY DEF ApiInit
<1> QED BY <1>1, InitControl, ApiStep, PTL DEF ApiSpec, UsesTheStore, StoreSpec

\* Hence the tables keep all that StoreInv says while the service runs.
THEOREM ApiKeepsStoreInv == ApiSpec => []StoreInv
<1> QED BY ApiUsesTheStore, StoreInvariance, PTL DEF UsesTheStore

\* And the whole service implements the abstract ride service.
THEOREM ApiImplementsRide == ApiSpec => ImplementsRide
<1> QED BY ApiUsesTheStore, StoreImplementsRide, PTL DEF UsesTheStore

-----------------------------------------------------------------------------
(* Views: what readers may be shown. *)

\* How far every order has come.
RankOf == [o \in OrderIds |-> Rank(CurrentStatus(o))]

\* The views of every order that are not ahead of the tables.
GoodViews == [o \in OrderIds |->
                 {v \in Views : /\ [id |-> o, rider |-> v.rider] \in orders
                                /\ Rank(v.status) <= RankOf[o]}]

\* What a read of every order may end with.
GoodResults == [o \in OrderIds |-> [view : GoodViews[o], err : {Nil}]
                                     \cup [view : {NoView}, err : {NotFound, DbError}]]

\* What a statement does to the tables, readers see as progress only.
LEMMA TablesAdvance ==
    ASSUME StoreInv, StoreInv', [StoreNext]_storeVars
    PROVE  /\ orders \subseteq orders' /\ outbox \subseteq outbox'
           /\ \A o \in OrderIds : /\ RankOf[o] \in 0..2 /\ RankOf'[o] \in 0..2
                                  /\ RankOf[o] <= RankOf'[o]
<1>1. [R!RideNext]_R!rideVars
  BY StepRefines
<1>2. orders \subseteq orders' /\ outbox \subseteq outbox'
  BY <1>1 DEF R!RideNext, R!Request, R!Accept, R!rideVars
<1> DEFINE st == [o \in OrderIds |-> CurrentStatus(o)]
<1>3. \A o \in OrderIds : st[o] \in {"none", "requested", "accepted"}
                           /\ st'[o] \in {"none", "requested", "accepted"}
  BY DEF CurrentStatus
<1>4. ASSUME NEW o \in OrderIds
      PROVE  \/ st'[o] = st[o] \/ st[o] = "none" \/ st'[o] = "accepted"
  <2>1. CASE UNCHANGED R!rideVars
    BY <2>1 DEF R!rideVars
  <2>2. CASE R!RideNext
    <3>1. PICK p \in OrderIds :
              \/ st[p] = "none" /\ st' = [st EXCEPT ![p] = "requested"]
              \/ st[p] = "requested" /\ st' = [st EXCEPT ![p] = "accepted"]
      BY <2>2 DEF R!RideNext, R!Request, R!Accept
    <3>2. DOMAIN st = OrderIds
      OBVIOUS
    <3> HIDE DEF st
    <3> QED BY <3>1, <3>2
  <2> QED BY <1>1, <2>1, <2>2
<1>5. ASSUME NEW o \in OrderIds
      PROVE  RankOf[o] = Rank(st[o]) /\ RankOf'[o] = Rank(st'[o])
  BY <1>5 DEF RankOf
<1> HIDE DEF st
<1>6. \A o \in OrderIds : /\ RankOf[o] \in 0..2 /\ RankOf'[o] \in 0..2
                          /\ RankOf[o] <= RankOf'[o]
  BY <1>3, <1>4, <1>5 DEF Rank
<1> QED BY <1>2, <1>6

\* A view stays good.
LEMMA ViewsKeep ==
    ASSUME StoreInv, StoreInv', [StoreNext]_storeVars
    PROVE  \A o \in OrderIds : /\ GoodViews[o] \subseteq GoodViews'[o]
                               /\ GoodResults[o] \subseteq GoodResults'[o]
<1> SUFFICES ASSUME NEW o \in OrderIds
             PROVE  /\ GoodViews[o] \subseteq GoodViews'[o]
                    /\ GoodResults[o] \subseteq GoodResults'[o]
  OBVIOUS
<1>1. /\ orders \subseteq orders' /\ RankOf[o] \in 0..2 /\ RankOf'[o] \in 0..2
      /\ RankOf[o] <= RankOf'[o]
  BY TablesAdvance
<1>2. GoodViews[o] \subseteq GoodViews'[o]
  <2> SUFFICES ASSUME NEW v \in GoodViews[o] PROVE v \in GoodViews'[o]
    OBVIOUS
  <2>1. Rank(v.status) \in 0..2
    BY DEF GoodViews, Views, Rank
  <2> QED BY <1>1, <2>1 DEF GoodViews
<1>3. GoodResults[o] \subseteq GoodResults'[o]
  BY <1>2 DEF GoodResults
<1> QED BY <1>2, <1>3

\* The status the readers join follows from the orders and acceptances rows.
LEMMA StatusFollowsRows == StoreInv => StatusAgreesWithRows
<1> SUFFICES ASSUME StoreInv, NEW p \in OrderIds
             PROVE  LET requested == \E x \in orders : x.id = p
                        accepted == \E a \in acceptances : a.order = p
                    IN  CurrentStatus(p) = IF accepted THEN "accepted"
                                           ELSE IF requested THEN "requested" ELSE "none"
  BY DEF StatusAgreesWithRows
<1>1. /\ HasSeq(p, 1) <=> \E x \in orders : x.id = p
      /\ HasSeq(p, 2) <=> \E a \in acceptances : a.order = p
  BY DEF StoreInv, HistoryInStep, HasSeq
<1> QED BY <1>1, ShapeOfHistory DEF StoreInv, HistoryShape

\* What the tables say of an order is a good view of it, or that it is missing.
LEMMA LoadIsTrue ==
    ASSUME StoreInv, NEW o \in OrderIds
    PROVE  /\ Load(o) \in GoodResults[o]
           /\ Load(o).err = Nil => Rank(Load(o).view.status) = RankOf[o]
           /\ Load(o).err = NotFound => RankOf[o] = 0
<1>1. StatusAgreesWithRows
  BY StatusFollowsRows
<1>2. CASE \E x \in orders : x.id = o
  <2> DEFINE x == CHOOSE x \in orders : x.id = o
  <2>1. x \in orders /\ x.id = o
    BY <1>2
  <2>2. x = [id |-> o, rider |-> x.rider] /\ x.rider \in Riders
    BY <2>1 DEF StoreInv, StoreTypeOK
  <2>3. Load(o) = [view |-> View(x.rider, CurrentStatus(o)), err |-> Nil]
    BY <1>2 DEF Load
  <2>4. CurrentStatus(o) \in {"requested", "accepted"}
    BY <1>1, <1>2 DEF StatusAgreesWithRows
  <2> HIDE DEF x
  <2>5. Rank(CurrentStatus(o)) \in 0..2
    BY <2>4 DEF Rank
  <2>6. View(x.rider, CurrentStatus(o)) \in GoodViews[o]
    BY <2>1, <2>2, <2>4, <2>5 DEF GoodViews, RankOf, View, Views
  <2>7. Nil # NotFound
    BY DEF Nil, NotFound, NewError
  <2> QED BY <2>3, <2>6, <2>7 DEF GoodResults, RankOf, View
<1>3. CASE ~ \E x \in orders : x.id = o
  <2>1. ~ \E a \in acceptances : a.order = o
    <3>1. \A a \in acceptances : \E h \in history : h.order = a.order /\ h.seq = 1
      BY DEF StoreInv, HistoryInStep
    <3>2. \A h \in history : h.seq = 1 => \E x \in orders : x.id = h.order
      BY DEF StoreInv, HistoryInStep
    <3> QED BY <1>3, <3>1, <3>2
  <2>2. CurrentStatus(o) = "none"
    BY <1>1, <1>3, <2>1 DEF StatusAgreesWithRows
  <2>3. Load(o) = [view |-> NoView, err |-> NotFound] /\ NotFound # Nil
    BY <1>3 DEF Load, Nil, NotFound, NewError
  <2>4. RankOf[o] = 0
    BY <2>2 DEF RankOf, Rank
  <2> QED BY <2>3, <2>4 DEF GoodResults
<1> QED BY <1>2, <1>3

\* No view, in L1 or L2, on its way or shown, is ahead of the tables, and a read
\* that is through has a result.
ReadInv ==
    /\ cache = [k \in Keys |-> cache[k]]
    /\ \A k \in Keys : cache[k] \in GoodViews[k.id] \cup {NoView}
    /\ redis = [k \in Keys |-> redis[k]]
    /\ \A k \in Keys : redis[k] \in GoodViews[k.id] \cup {NoView}
    /\ got = [c \in Calls |-> got[c]]
    /\ \A c \in Calls :
           \/ got[c] = NoResult /\ pc[c] \notin Loaded \cup {"got"}
           \/ input[c] # NoInput /\ got[c] \in GoodResults[input[c].order.id]

\* Keys and inputs name orders.
LEMMA KeysName ==
    /\ \A k \in Keys : k.id \in OrderIds
    /\ InputOK => \A c \in Calls : input[c] # NoInput =>
           /\ input[c] \in Inputs
           /\ Key(c) \in Keys /\ Key(c) = input[c].order
           /\ input[c].order.id \in OrderIds
<1>1. \A k \in Keys : k.id \in OrderIds
  BY DEF Keys, TextsOf, Canon, Text
<1>2. \A i \in Inputs : i.order \in Keys
  BY DEF Inputs, Keys
<1>3. InputOK => \A c \in Calls : input[c] # NoInput => input[c] \in Inputs
  BY DEF InputOK
<1> QED BY <1>1, <1>2, <1>3 DEF Key

\* A result is not nothing.
LEMMA ResultsAre ==
    ASSUME NEW o \in OrderIds
    PROVE  /\ NoResult \notin GoodResults[o] /\ NoView \notin GoodViews[o]
           /\ GoodViews[o] \subseteq Views
           /\ \A r \in GoodResults[o] :
                 \/ r.err = Nil /\ r.view \in GoodViews[o]
                 \/ r.err \in {NotFound, DbError} /\ r.view = NoView
           /\ [view |-> NoView, err |-> DbError] \in GoodResults[o]
           /\ [view |-> NoView, err |-> NotFound] \in GoodResults[o]
           /\ \A v \in GoodViews[o] : [view |-> v, err |-> Nil] \in GoodResults[o]
<1>1. NoView \notin GoodViews[o] /\ GoodViews[o] \subseteq Views
  BY DEF GoodViews, Views, NoView
<1>2. \A r \in GoodResults[o] :
           \/ r.err = Nil /\ r.view \in GoodViews[o]
           \/ r.err \in {NotFound, DbError} /\ r.view = NoView
  BY DEF GoodResults
<1>3. Nil \notin {NotFound, DbError}
  BY DEF Nil, NotFound, NewError, DbError
<1>4. NoResult \notin GoodResults[o]
  <2>1. NoResult.view = NoView /\ NoResult.err = Nil
    BY DEF NoResult
  <2> QED BY <1>1, <1>2, <1>3, <2>1
<1>5. /\ [view |-> NoView, err |-> DbError] \in GoodResults[o]
      /\ [view |-> NoView, err |-> NotFound] \in GoodResults[o]
      /\ \A v \in GoodViews[o] : [view |-> v, err |-> Nil] \in GoodResults[o]
  BY DEF GoodResults
<1> QED BY <1>1, <1>2, <1>4, <1>5

\* An error of one link.
LEMMA OneLink ==
    ASSUME NEW l
    PROVE  /\ l.kind = "http" => HttpLinks(<<l>>) = {1} /\ Outermost(<<l>>) = 1
           /\ l.kind # "http" => HttpLinks(<<l>>) = {}
<1>1. DOMAIN <<l>> = {1} /\ <<l>>[1] = l
  OBVIOUS
<1>2. HttpLinks(<<l>>) \subseteq {1} /\ (1 \in HttpLinks(<<l>>) <=> l.kind = "http")
  BY <1>1 DEF HttpLinks
<1>3. HttpLinks(<<l>>) = {1} => Outermost(<<l>>) = 1
  BY DEF Outermost
<1> QED BY <1>2, <1>3

\* How Get hands on what the factory said (orders/service.go:76-81).
LEMMA ErrorsReturned ==
    /\ Returned(Nil) = Nil /\ Returned(NotFound) = NotFound /\ Returned(DbError) = DbError
    /\ Flatten(DbError) = DbError /\ Returned(Flatten(NotFound)) = NotFound
    /\ Nil \notin {NotFound, DbError} /\ NotFound # DbError
<1> USE DEF NotFound, DbError, NewError, HTTPError, Plain, Nil
<1>1. Returned(Nil) = Nil
  BY DEF Returned, HasCode
<1>2. HasCode(NotFound, "ORDER_NOT_FOUND")
  BY OneLink DEF HasCode
<1>3. ~ HasCode(DbError, "ORDER_NOT_FOUND")
  <2> DEFINE l == Plain("")
  <2>0. l.kind # "http" /\ DbError = <<l>>
    OBVIOUS
  <2> HIDE DEF l
  <2>1. HttpLinks(<<l>>) = {}
    BY <2>0, OneLink
  <2>2. MessageCode(DbError) = "" /\ DbError # Nil
    BY DEF MessageCode
  <2> QED BY <2>0, <2>1, <2>2, Zenon DEF HasCode
<1>4. Flatten(DbError) = DbError
  BY DEF Flatten, MessageCode
<1>5. HasCode(Flatten(NotFound), "ORDER_NOT_FOUND")
  BY OneLink DEF Flatten, HasCode, MessageCode
<1>6. Nil \notin {NotFound, DbError} /\ NotFound # DbError
  OBVIOUS
<1> QED BY <1>1, <1>2, <1>3, <1>4, <1>5, <1>6 DEF Returned

\* It is enough to look at what is new.
LEMMA ReadFrame ==
    ASSUME ReadInv, InputOK, StoreInv, StoreInv', [StoreNext]_storeVars,
           cache' = [k \in Keys |-> cache'[k]], redis' = [k \in Keys |-> redis'[k]],
           got' = [c \in Calls |-> got'[c]],
           \A k \in Keys : /\ cache'[k] \in {cache[k], NoView} \cup GoodViews[k.id]
                           /\ redis'[k] \in {redis[k], NoView} \cup GoodViews[k.id],
           \A c \in Calls :
               \/ got'[c] = NoResult /\ pc'[c] \notin Loaded \cup {"got"}
               \/ /\ got'[c] = got[c] /\ (input'[c] = input[c] \/ input[c] = NoInput)
                  /\ pc'[c] = pc[c] \/ pc'[c] \notin Loaded \cup {"got"}
               \/ /\ input'[c] = input[c] /\ input[c] # NoInput
                  /\ got'[c] \in GoodResults[input[c].order.id]
    PROVE  ReadInv'
<1>1. \A o \in OrderIds : /\ GoodViews[o] \subseteq GoodViews'[o]
                          /\ GoodResults[o] \subseteq GoodResults'[o]
  BY ViewsKeep
<1>2. \A k \in Keys : /\ cache'[k] \in GoodViews'[k.id] \cup {NoView}
                       /\ redis'[k] \in GoodViews'[k.id] \cup {NoView}
  BY <1>1, KeysName DEF ReadInv
<1>3. ASSUME NEW c \in Calls
      PROVE  \/ got'[c] = NoResult /\ pc'[c] \notin Loaded \cup {"got"}
             \/ input'[c] # NoInput /\ got'[c] \in GoodResults'[input'[c].order.id]
  <2>1. \/ got[c] = NoResult /\ pc[c] \notin Loaded \cup {"got"}
        \/ input[c] # NoInput /\ got[c] \in GoodResults[input[c].order.id]
    BY DEF ReadInv
  <2>2. input[c] # NoInput =>
            GoodResults[input[c].order.id] \subseteq GoodResults'[input[c].order.id]
    BY <1>1, KeysName
  <2> QED BY <2>1, <2>2
<1> QED BY <1>2, <1>3 DEF ReadInv

\* What Redis may have, of this replica or of another one, is no better than good.
LEMMA L2IsTrue ==
    ASSUME ReadInv, StoreInv, NEW k \in Keys
    PROVE  InL2(k) \subseteq GoodViews[k.id]
<1>1. k.id \in OrderIds
  BY KeysName
<1>2. CASE SharedL2
  <2> SUFFICES ASSUME NEW x \in orders, x.id = k.id, NEW st \in {"requested", "accepted"},
                      Rank(st) <= Rank(CurrentStatus(k.id))
               PROVE  View(x.rider, st) \in GoodViews[k.id]
    BY <1>2 DEF InL2, PastViews
  <2>1. x = [id |-> k.id, rider |-> x.rider] /\ x.rider \in Riders
    BY DEF StoreInv, StoreTypeOK
  <2> QED BY <1>1, <2>1 DEF GoodViews, RankOf, View, Views
<1>3. CASE ~ SharedL2
  BY <1>3 DEF InL2, ReadInv
<1> QED BY <1>2, <1>3

\* Reads give and keep what the tables say.
LEMMA ReadsKeepReads ==
    ASSUME ReadInv, ControlInv, StoreInv, StoreInv', [StoreNext]_storeVars, NEW c \in Calls,
           \/ ReadDirect(c) \/ Hit(c) \/ Lead(c) \/ Join(c) \/ HitL2(c) \/ Query(c)
           \/ FailRead(c)
    PROVE  ReadInv'
<1>1. input' = input /\ cache' = cache /\ redis' = redis /\ DOMAIN got = Calls /\ DOMAIN pc = Calls
  BY DEF ReadDirect, Hit, Lead, Join, HitL2, Query, FailRead, ReadInv, ControlInv, PcOK
<1>2. pc[c] \in Handling /\ InputOK
  BY DEF ReadDirect, Hit, Lead, Join, HitL2, Query, FailRead, Handling, ControlInv
<1>3. input[c] # NoInput
  BY <1>2 DEF InputOK
<1>4. input[c].order.id \in OrderIds /\ Key(c) \in Keys /\ Key(c) = input[c].order
  BY <1>2, <1>3, KeysName
<1> DEFINE o == input[c].order.id
<1>5. \A b \in Calls \ {c} : got'[b] = got[b] /\ pc'[b] = pc[b]
  BY <1>1 DEF ReadDirect, Hit, Lead, Join, HitL2, Query, FailRead, Get
<1>6. /\ got' = [b \in Calls |-> got'[b]]
      /\ cache' = [k \in Keys |-> cache'[k]] /\ redis' = [k \in Keys |-> redis'[k]]
  BY <1>1 DEF ReadDirect, Hit, Lead, Join, HitL2, Query, FailRead, Get, ReadInv
<1>7. CASE Lead(c) \/ Join(c)
  <2>1. got'[c] = got[c] /\ pc'[c] \notin Loaded \cup {"got"}
    BY <1>1, <1>7 DEF Lead, Join
  <2> QED BY <1>1, <1>2, <1>5, <1>6, <2>1, ReadFrame
<1>8. CASE ReadDirect(c) \/ Hit(c) \/ HitL2(c) \/ Query(c) \/ FailRead(c)
  <2>1. CASE ReadDirect(c) \/ Query(c)
    <3>1. got'[c] = Load(o)
      BY <1>1, <1>4, <2>1 DEF ReadDirect, Query, Get
    <3> QED BY <1>4, <3>1, LoadIsTrue, <1>1, <1>2, <1>3, <1>5, <1>6, ReadFrame
  <2>2. CASE Hit(c)
    <3>1. got'[c] = [view |-> cache[Key(c)], err |-> Nil] /\ cache[Key(c)] # NoView
      BY <1>1, <2>2 DEF Hit, Get
    <3>2. cache[Key(c)] \in GoodViews[o]
      BY <1>4, <3>1 DEF ReadInv
    <3>3. got'[c] \in GoodResults[o]
      BY <1>4, <3>1, <3>2, ResultsAre
    <3> QED BY <3>3, <1>1, <1>2, <1>3, <1>5, <1>6, ReadFrame
  <2>3. CASE FailRead(c)
    <3>1. got'[c] = [view |-> NoView, err |-> DbError]
      BY <1>1, <2>3 DEF FailRead, Get, Failed
    <3>2. got'[c] \in GoodResults[o]
      BY <1>4, <3>1, ResultsAre
    <3> QED BY <3>2, <1>1, <1>2, <1>3, <1>5, <1>6, ReadFrame
  <2>4. CASE HitL2(c)
    <3>1. PICK view \in InL2(Key(c)) : got'[c] = [view |-> view, err |-> Nil]
      BY <1>1, <2>4 DEF HitL2
    <3>2. view \in GoodViews[o]
      BY <1>4, L2IsTrue
    <3>3. got'[c] \in GoodResults[o]
      BY <1>4, <3>1, <3>2, ResultsAre
    <3> QED BY <3>3, <1>1, <1>2, <1>3, <1>5, <1>6, ReadFrame
  <2> QED BY <1>8, <2>1, <2>2, <2>3, <2>4
<1> QED BY <1>7, <1>8

\* The leader's result is that of all who wait under its key (orders/service.go:69-82).
LEMMA DeliverKeepsReads ==
    ASSUME ReadInv, ControlInv, StoreInv, StoreInv', [StoreNext]_storeVars, NEW c \in Calls,
           Deliver(c)
    PROVE  ReadInv'
<1> DEFINE k == Key(c)
           all == {c} \cup {b \in Calls : pc[b] = "waiting" /\ Key(b) = k}
           result(err) == [view |-> got[c].view, err |-> Returned(err)]
<1>1. InputOK /\ \A b \in all : pc[b] \in Handling /\ pc[b] # "new"
  BY DEF Deliver, Handling, ControlInv
<1>2. \A b \in all : input[b] # NoInput /\ Key(b) = k /\ input[b].order = k
  BY <1>1 DEF InputOK, Key
<1>3. k \in Keys /\ k.id \in OrderIds
  BY <1>1, <1>2, KeysName
<1>4. got[c] \in GoodResults[k.id]
  <2>1. pc[c] \in Loaded
    BY DEF Deliver
  <2> QED BY <1>2, <2>1 DEF ReadInv
<1>5. PICK err \in {got[c].err} \cup (IF got[c].err = Nil THEN {} ELSE {Flatten(got[c].err)}) :
          got' = [b \in Calls |-> IF b \in all THEN result(err) ELSE got[b]]
  BY DEF Deliver
<1>6. result(err) \in GoodResults[k.id]
  <2>1. CASE got[c].err = Nil /\ got[c].view \in GoodViews[k.id]
    <3>1. err = Nil
      BY <1>5, <2>1
    <3> QED BY <1>3, <2>1, <3>1, ErrorsReturned, ResultsAre
  <2>2. CASE got[c].err \in {NotFound, DbError} /\ got[c].view = NoView
    <3>1. err \in {got[c].err, Flatten(got[c].err)}
      BY <1>5
    <3>2. Returned(err) \in {NotFound, DbError}
      BY <2>2, <3>1, ErrorsReturned
    <3> QED BY <1>3, <2>2, <3>2, ResultsAre
  <2> QED BY <1>3, <1>4, <2>1, <2>2, ResultsAre
<1>7. /\ input' = input
      /\ pc' = [b \in Calls |-> IF b \in all THEN "got" ELSE pc[b]]
      /\ cache' = IF got[c].err = Nil THEN [cache EXCEPT ![k] = got[c].view] ELSE cache
      /\ redis' = redis \/ (redis' = [redis EXCEPT ![k] = got[c].view] /\ got[c].err = Nil)
  BY DEF Deliver, StoreL2
<1>8. cache = [x \in Keys |-> cache[x]] /\ redis = [x \in Keys |-> redis[x]]
  BY DEF ReadInv
<1>9. got[c].err = Nil => got[c].view \in GoodViews[k.id]
  BY <1>3, <1>4, ErrorsReturned, ResultsAre
<1> HIDE DEF all, k, result
<1>10. \A x \in Keys : /\ cache'[x] \in {cache[x], NoView} \cup GoodViews[x.id]
                       /\ redis'[x] \in {redis[x], NoView} \cup GoodViews[x.id]
  BY <1>7, <1>8, <1>9
<1>11. cache' = [x \in Keys |-> cache'[x]] /\ redis' = [x \in Keys |-> redis'[x]]
  BY <1>7, <1>8
<1>12. got' = [b \in Calls |-> got'[b]]
  BY <1>5
<1>13. ASSUME NEW b \in Calls
       PROVE  \/ got'[b] = got[b] /\ input'[b] = input[b] /\ pc'[b] = pc[b]
              \/ /\ input'[b] = input[b] /\ input[b] # NoInput
                 /\ got'[b] \in GoodResults[input[b].order.id]
  BY <1>2, <1>5, <1>6, <1>7
<1> QED BY <1>1, <1>10, <1>11, <1>12, <1>13, ReadFrame

\* What does not read keeps the reads.
LEMMA OthersKeepReads ==
    ASSUME ReadInv, ControlInv, StoreInv, StoreInv', [StoreNext]_storeVars,
           \/ \E c \in Calls : \/ Receive(c) \/ FinishGet(c) \/ CheckAccept(c)
                               \/ StartWrite(c) \/ FinishWrite(c) \/ Database(c)
           \/ \E k \in Keys : Expire(k)
           \/ Crash \/ UNCHANGED allVars
    PROVE  ReadInv'
<1>1. InputOK /\ DOMAIN pc = Calls /\ DOMAIN input = Calls
  BY DEF ControlInv, PcOK, InputOK
<1>2. /\ cache = [k \in Keys |-> cache[k]] /\ redis = [k \in Keys |-> redis[k]]
      /\ got = [b \in Calls |-> got[b]]
  BY DEF ReadInv
<1>3. CASE \E c \in Calls : \/ Receive(c) \/ FinishGet(c) \/ CheckAccept(c)
                            \/ StartWrite(c) \/ FinishWrite(c) \/ Database(c)
  <2>1. PICK c \in Calls : \/ Receive(c) \/ FinishGet(c) \/ CheckAccept(c)
                           \/ StartWrite(c) \/ FinishWrite(c) \/ Database(c)
    BY <1>3
  <2>2. cache' = cache /\ redis' = redis
    BY <2>1 DEF Receive, PostOrder, GetOrder, AcceptOrder, Pass, Reject, Answer, FinishGet,
         CheckAccept, StartWrite, FinishWrite, Database, apiVars
  <2>3. \A b \in Calls \ {c} : got'[b] = got[b] /\ pc'[b] = pc[b] /\ input'[b] = input[b]
    <3>1. CASE Receive(c)
      <4>1. ASSUME NEW err, Reject(c, err)
            PROVE  \A b \in Calls \ {c} : got'[b] = got[b] /\ pc'[b] = pc[b] /\ input'[b] = input[b]
        BY <4>1, <1>1 DEF Reject, Answer
      <4>2. ASSUME NEW kind, NEW order, NEW who, NEW seen, NEW at,
                   Pass(c, kind, order, who, seen, at)
            PROVE  \A b \in Calls \ {c} : got'[b] = got[b] /\ pc'[b] = pc[b] /\ input'[b] = input[b]
        BY <4>2, <1>1 DEF Pass
      <4> QED BY <3>1, <4>1, <4>2 DEF Receive, PostOrder, GetOrder, AcceptOrder
    <3>2. CASE \/ FinishGet(c) \/ CheckAccept(c) \/ StartWrite(c) \/ FinishWrite(c) \/ Database(c)
      BY <3>2, <1>1, <1>2 DEF Answer, FinishGet, CheckAccept, StartWrite, FinishWrite, Database, apiVars
    <3> QED BY <2>1, <3>1, <3>2
  <2>4. \/ got'[c] = NoResult /\ pc'[c] \notin Loaded \cup {"got"} /\ DOMAIN got' = Calls
        \/ /\ got' = got /\ (input'[c] = input[c] \/ input[c] = NoInput)
           /\ pc'[c] = pc[c] \/ pc'[c] \notin Loaded \cup {"got"}
    <3>1. CASE Receive(c)
      <4>1. ASSUME NEW err, Reject(c, err)
            PROVE  got' = got /\ input' = input /\ pc'[c] = "done"
        BY <4>1, <1>1 DEF Reject, Answer
      <4>2. ASSUME NEW kind, NEW order, NEW who, NEW seen, NEW at \in {"read", "insert"},
                   Pass(c, kind, order, who, seen, at)
            PROVE  got' = got /\ pc'[c] \in {"read", "insert"}
        BY <4>2, <1>1 DEF Pass
      <4>3. input[c] = NoInput
        <5>1. pc[c] = "new"
          BY <3>1 DEF Receive, PostOrder, GetOrder, AcceptOrder
        <5> QED BY <1>1, <5>1 DEF InputOK
      <4> QED BY <3>1, <4>1, <4>2, <4>3 DEF Receive, PostOrder, GetOrder, AcceptOrder
    <3>2. CASE FinishGet(c) \/ FinishWrite(c) \/ StartWrite(c) \/ Database(c)
      BY <3>2, <1>1 DEF Answer, FinishGet, StartWrite, FinishWrite, Database, apiVars
    <3>3. CASE CheckAccept(c)
      BY <3>3, <1>1, <1>2 DEF Answer, CheckAccept
    <3> QED BY <2>1, <3>1, <3>2, <3>3
  <2>5. got' = [b \in Calls |-> got'[b]]
    <3>1. CASE CheckAccept(c)
      BY <3>1, <1>2 DEF CheckAccept
    <3>2. CASE ~ CheckAccept(c)
      BY <3>2, <2>1, <1>2 DEF Receive, PostOrder, GetOrder, AcceptOrder, Pass, Reject, FinishGet,
         StartWrite, FinishWrite, Database, apiVars
    <3> QED BY <3>1, <3>2
  <2> QED BY <1>1, <1>2, <2>2, <2>3, <2>4, <2>5, ReadFrame
<1>4. CASE \E k \in Keys : Expire(k)
  <2>1. /\ \A k \in Keys : /\ cache'[k] \in {cache[k], NoView}
                           /\ redis'[k] \in {redis[k], NoView}
        /\ cache' = [k \in Keys |-> cache'[k]] /\ redis' = [k \in Keys |-> redis'[k]]
    BY <1>2, <1>4 DEF Expire
  <2>2. pc' = pc /\ input' = input /\ got' = got
    BY <1>4 DEF Expire
  <2> QED BY <1>1, <1>2, <2>1, <2>2, ReadFrame
<1>5. CASE Crash
  <2>1. /\ \A k \in Keys : /\ cache'[k] \in {cache[k], NoView}
                           /\ redis'[k] \in {redis[k], NoView}
        /\ cache' = [k \in Keys |-> cache'[k]] /\ redis' = [k \in Keys |-> redis'[k]]
    BY <1>2, <1>5 DEF Crash
  <2>2. /\ input' = input /\ got' = [b \in Calls |-> got'[b]]
        /\ \A b \in Calls : \/ got'[b] = NoResult /\ pc'[b] = "dead"
                            \/ got'[b] = got[b] /\ pc'[b] = pc[b]
    BY <1>5 DEF Crash
  <2> QED BY <1>1, <2>1, <2>2, ReadFrame
<1>6. CASE UNCHANGED allVars
  BY <1>1, <1>2, <1>6, ReadFrame DEF allVars, apiVars
<1> QED BY <1>3, <1>4, <1>5, <1>6

\* Every step of the service keeps the reads true.
LEMMA ReadStep ==
    ASSUME ReadInv, ControlInv, StoreInv, StoreInv', [StoreNext]_storeVars, [ApiNext]_allVars
    PROVE  ReadInv'
<1>1. CASE UNCHANGED allVars \/ Crash \/ \E k \in Keys : Expire(k)
  BY <1>1, OthersKeepReads
<1>2. CASE \E c \in Calls : Receive(c) \/ Database(c)
  BY <1>2, OthersKeepReads
<1>3. CASE \E c \in Calls : Handle(c) \/ FailRead(c)
  BY <1>3, OthersKeepReads, ReadsKeepReads, DeliverKeepsReads DEF Handle
<1>4. CASE AllAnswered
  BY <1>1, <1>4 DEF AllAnswered
<1> QED BY <1>1, <1>2, <1>3, <1>4 DEF ApiNext, Serve

\* Nothing has been read at the start.
LEMMA InitReads == ApiInit => ReadInv
<1> SUFFICES ASSUME ApiInit PROVE ReadInv
  OBVIOUS
<1> QED BY DEF ApiInit, ReadInv

-----------------------------------------------------------------------------
(* Statements and events are those of their calls. *)

\* c's statement is the one c's input asks for.
Writes(c) ==
    /\ input[c] # NoInput /\ input[c].kind # "get" /\ stmt[c] # Idle
    /\ stmt[c].op = IF input[c].kind = "request" THEN "requested" ELSE "accepted"
    /\ stmt[c].order = input[c].order.id /\ stmt[c].who = input[c].who.id
    /\ stmt[c].state = "norows" => stmt[c].op = "accepted" /\ stmt[c].seq \in Nat \ {0}

\* Every event says what the statement of its call says.
EventsOfCalls ==
    \A e \in outbox : /\ stmt[e.id] # Idle
                      /\ e.type = stmt[e.id].op
                      /\ e.order = stmt[e.id].order /\ e.who = stmt[e.id].who

\* The database moves statements on, never to another order, caller or kind.
LEMMA DatabaseStep ==
    ASSUME StoreInv, StoreInv', NEW c \in Calls, Database(c)
    PROVE  /\ Running(c) /\ stmt'[c].state \in {"running", "ok", "unique", "failed"}
           /\ stmt'[c] # Idle /\ stmt'[c].op = stmt[c].op /\ stmt'[c].order = stmt[c].order
           /\ stmt'[c].who = stmt[c].who
           /\ \A b \in Calls \ {c} : stmt'[b] = stmt[b]
           /\ outbox' \in {outbox,
                outbox \cup {[id |-> c, type |-> stmt[c].op, order |-> stmt[c].order,
                              who |-> stmt[c].who]}}
<1>1. Running(c)
  BY DEF Database, Progress, Commit, Publish, LoseReply, Abort, Insert
<1>2. stmt[c] \in Statement /\ DOMAIN stmt = Calls
  BY <1>1 DEF StoreInv, StoreTypeOK, Running, Idle
<1>3. ASSUME NEW state \in {"ok", "failed"}, NEW w,
             stmt' = [stmt EXCEPT ![c].state = state, ![c].wrote = w]
      PROVE  /\ stmt'[c].state = state /\ stmt'[c].op = stmt[c].op
             /\ stmt'[c].order = stmt[c].order /\ stmt'[c].who = stmt[c].who
             /\ \A b \in Calls \ {c} : stmt'[b] = stmt[b]
  BY <1>2, <1>3 DEF Statement
<1>4. ASSUME NEW t, NEW w,
             stmt' = [stmt EXCEPT ![c].state = "unique", ![c].hit = t, ![c].wrote = w]
      PROVE  /\ stmt'[c].state = "unique" /\ stmt'[c].op = stmt[c].op
             /\ stmt'[c].order = stmt[c].order /\ stmt'[c].who = stmt[c].who
             /\ \A b \in Calls \ {c} : stmt'[b] = stmt[b]
  BY <1>2, <1>4 DEF Statement
<1>5. ASSUME NEW w, stmt' = [stmt EXCEPT ![c].wrote = w]
      PROVE  /\ stmt'[c].state = stmt[c].state /\ stmt'[c].op = stmt[c].op
             /\ stmt'[c].order = stmt[c].order /\ stmt'[c].who = stmt[c].who
             /\ \A b \in Calls \ {c} : stmt'[b] = stmt[b]
  BY <1>2, <1>5 DEF Statement
<1> DEFINE Same == /\ stmt'[c].op = stmt[c].op /\ stmt'[c].order = stmt[c].order
                   /\ stmt'[c].who = stmt[c].who
                   /\ \A b \in Calls \ {c} : stmt'[b] = stmt[b]
           event == [id |-> c, type |-> stmt[c].op, order |-> stmt[c].order,
                     who |-> stmt[c].who]
           Moves == /\ stmt'[c].state \in {"running", "ok", "unique", "failed"} /\ Same
                    /\ outbox' \in {outbox, outbox \cup {event}}
<1> HIDE DEF event
<1>6. ASSUME NEW state \in {"ok", "failed"}, Publish(c, state) PROVE Moves
  <2>1. Same /\ stmt'[c].state \in {"ok", "failed"}
    BY <1>3, <1>6 DEF Publish
  <2>2. outbox' = outbox \cup {event}
    BY <1>6 DEF Publish, event
  <2> QED BY <2>1, <2>2
<1>7. ASSUME Abort(c) PROVE Moves
  <2>1. Same /\ stmt'[c].state \in {"ok", "failed"}
    BY <1>3, <1>7 DEF Abort
  <2>2. outbox' = outbox
    BY <1>7 DEF Abort
  <2> QED BY <2>1, <2>2
<1>8. ASSUME \E t \in {"orders", "history", "acceptances"} : Insert(c, t)
      PROVE  Moves
  <2>1. PICK t \in {"orders", "history", "acceptances"} : Insert(c, t)
    BY <1>8
  <2>2. CASE Taken(c, t)
    <3>1. stmt' = [stmt EXCEPT ![c].state = "unique", ![c].hit = t, ![c].wrote = {}]
      BY <2>1, <2>2 DEF Insert
    <3>2. Same /\ stmt'[c].state = "unique"
      BY <1>4, <3>1
    <3> QED BY <2>1, <3>2 DEF Insert
  <2>3. CASE ~ Taken(c, t)
    <3>1. stmt' = [stmt EXCEPT ![c].wrote = @ \cup {t}]
      BY <2>1, <2>3 DEF Insert
    <3>2. stmt' = [stmt EXCEPT ![c].wrote = stmt[c].wrote \cup {t}]
      BY <3>1
    <3>3. Same /\ stmt'[c].state = stmt[c].state
      BY <1>5, <3>2
    <3> QED BY <1>1, <2>1, <3>3 DEF Insert, Running
  <2> QED BY <2>2, <2>3
<1>9. Moves
  BY <1>6, <1>7, <1>8 DEF Database, Progress, Commit, LoseReply
<1>10. stmt'[c] # Idle
  BY <1>9 DEF Idle
<1> QED BY <1>1, <1>9, <1>10 DEF event

\* A write begins with the caller's own ids.
LEMMA StartWriteBegins ==
    ASSUME ControlInv, StoreInv, NEW c \in Calls, StartWrite(c)
    PROVE  /\ stmt[c] = Idle /\ outbox' = outbox /\ Writes(c)'
           /\ \A b \in Calls \ {c} : stmt'[b] = stmt[b]
<1>1. /\ pc[c] = "insert" /\ input' = input /\ outbox' = outbox /\ stmt[c] = Idle
      /\ DOMAIN stmt = Calls
  BY DEF StartWrite, BeginRequested, BeginAccepted, StoreInv, StoreTypeOK
<1>2. input[c] # NoInput /\ input[c].kind # "get" /\ input[c] \in Inputs
  BY <1>1, KeysName DEF ControlInv, InputOK, Handling
<1>3. CASE input[c].kind = "request"
  <2>1. stmt' = [stmt EXCEPT ![c] = Start("requested", input[c].order.id,
                                          input[c].who.id, 1, "running")]
    BY <1>3 DEF StartWrite, BeginRequested
  <2> QED BY <1>1, <1>2, <1>3, <2>1 DEF Writes, Start, Idle
<1>4. CASE input[c].kind # "request"
  <2> DEFINE o == input[c].order.id
             state == IF Guard(o) THEN "running" ELSE "norows"
             n == NextSeq(o)
  <2>1. stmt' = [stmt EXCEPT ![c] = Start("accepted", o, input[c].who.id, n, state)]
    BY <1>4 DEF StartWrite, BeginAccepted
  <2>2. o \in OrderIds
    BY <1>2, KeysName DEF ControlInv
  <2>3. n \in Nat \ {0}
    BY <2>2, ShapeOfHistory DEF StoreInv, HistoryShape
  <2> HIDE DEF n, state
  <2> QED BY <1>1, <1>2, <1>4, <2>1, <2>3 DEF Writes, Start, Idle
<1> QED BY <1>3, <1>4

-----------------------------------------------------------------------------
(* Answers: every one has its reason. *)

\* What AbortError makes of an error of one link (platform.go:160-186).
LEMMA TypedAnswer ==
    ASSUME NEW l, NEW s, l.kind = "http"
    PROVE  AnswerOf(<<l>>, s) = [status |-> l.status, code |-> l.code]
<1>1. <<l>> # Nil /\ <<l>>[1] = l /\ Len(<<l>>) = 1
  BY DEF Nil
<1>2. MapError(<<l>>) = SubSeq(<<l>>, 1, 1)
  BY <1>1, OneLink DEF MapError
<1>3. SubSeq(<<l>>, 1, 1)[1] = l
  OBVIOUS
<1> QED BY <1>1, <1>2, <1>3 DEF AnswerOf, AbortError

\* Without a typed error it is an internal one.
LEMMA UntypedAnswer ==
    ASSUME NEW l, NEW s, l.kind # "http"
    PROVE  AnswerOf(<<l>>, s).status = 500
<1>1. <<l>> # Nil
  BY DEF Nil
<1>2. MapError(<<l>>) = WrapError(InternalError, <<l>>)
  BY <1>1, OneLink DEF MapError
<1>3. WrapError(InternalError, <<l>>)[1] = HTTPError(500, "INTERNAL_ERROR")
  BY DEF WrapError, InternalError, NewError
<1>4. AbortError(<<l>>).status = WrapError(InternalError, <<l>>)[1].status
  BY <1>1, <1>2 DEF AbortError
<1> QED BY <1>1, <1>3, <1>4 DEF AnswerOf, HTTPError

\* Without an error it is the status of success.
LEMMA SuccessAnswer == ASSUME NEW s PROVE AnswerOf(Nil, s).status = s
<1> QED BY DEF AnswerOf

\* The answers the services give.
LEMMA KnownAnswers ==
    ASSUME NEW s
    PROVE  /\ AnswerOf(ValidationError, s) = [status |-> 400, code |-> "VALIDATION_ERROR"]
           /\ AnswerOf(NotFound, s) = [status |-> 404, code |-> "ORDER_NOT_FOUND"]
           /\ AnswerOf(NotAcceptable, s) = [status |-> 409, code |-> "ORDER_NOT_ACCEPTABLE"]
           /\ AnswerOf(AlreadyAccepted, s) = [status |-> 409, code |-> "ORDER_ALREADY_ACCEPTED"]
           /\ AnswerOf(AlreadyExists, s) = [status |-> 409, code |-> "ORDER_ALREADY_EXISTS"]
           /\ AnswerOf(DbError, s).status = 500
<1>1. \A status, code : AnswerOf(NewError(status, code), s) = [status |-> status, code |-> code]
  <2> SUFFICES ASSUME NEW status, NEW code
               PROVE  AnswerOf(NewError(status, code), s) = [status |-> status, code |-> code]
    OBVIOUS
  <2> DEFINE l == HTTPError(status, code)
  <2>1. l.kind = "http" /\ l.status = status /\ l.code = code /\ NewError(status, code) = <<l>>
    BY DEF HTTPError, NewError
  <2> HIDE DEF l
  <2>2. AnswerOf(<<l>>, s) = [status |-> l.status, code |-> l.code]
    BY <2>1, TypedAnswer
  <2>3. AnswerOf(NewError(status, code), s) = AnswerOf(<<l>>, s)
    BY <2>1
  <2> QED BY <2>1, <2>2, <2>3
<1>2. AnswerOf(DbError, s).status = 500
  <2> DEFINE l == Plain("")
  <2>1. l.kind # "http" /\ DbError = <<l>>
    BY DEF Plain, DbError
  <2> HIDE DEF l
  <2>2. AnswerOf(<<l>>, s).status = 500
    BY <2>1, UntypedAnswer
  <2>3. AnswerOf(DbError, s) = AnswerOf(<<l>>, s)
    BY <2>1
  <2> QED BY <2>2, <2>3
<1> QED BY <1>1, <1>2 DEF ValidationError, NotFound, NotAcceptable, AlreadyAccepted, AlreadyExists

\* The domain error survives its worker context (platform/context.go).
LEMMA WorkerKeeps == ASSUME NEW err PROVE Worker(err) = err
<1> QED BY DEF Worker

\* How the two services read the end of their statement (orders/service.go:173-185,
\* drivers/service.go:109-127).
LEMMA WriteErrors ==
    ASSUME NEW c \in Calls, Writes(c), stmt[c].state \in Ended, NEW err,
           err = IF input[c].kind = "request" THEN RequestedError(c) ELSE AcceptedError(c)
    PROVE  \/ err = Nil /\ stmt[c].state = "ok"
           \/ err = AlreadyExists /\ stmt[c].state = "unique" /\ stmt[c].op = "requested"
           \/ /\ err \in {NotAcceptable, AlreadyAccepted} /\ stmt[c].op = "accepted"
              /\ stmt[c].state \in {"norows", "unique"}
           \/ \E l : err = <<l>> /\ l.kind # "http"
<1> DEFINE said == StatementError(c)
           pg == PgError("23505", Constraint[stmt[c].hit])
<1>1. stmt[c].state \in {"ok", "norows", "unique", "failed"}
  BY DEF Ended
<1>2. /\ stmt[c].state = "unique" => said = <<pg>>
      /\ stmt[c].state = "failed" => said = DbError
      /\ stmt[c].state \in {"ok", "norows"} => said = Nil
  BY DEF StatementError
<1>3. \E l : DbError = <<l>> /\ l.kind = "text"
  <2> WITNESS Plain("")
  <2> QED BY DEF DbError, Plain
<1>4. pg.kind = "pg"
  BY DEF PgError
<1> HIDE DEF pg, said
<1>5. PgErrorOf(Nil) = {} /\ PgErrorOf(DbError) = {}
  <2>1. PgErrorOf(Nil) = {}
    BY DEF PgErrorOf, Nil
  <2>2. PgErrorOf(DbError) = {}
    BY <1>3 DEF PgErrorOf
  <2> QED BY <2>1, <2>2
<1>6. CASE input[c].kind = "request"
  <2>1. err = IF \E e \in PgErrorOf(said) : IsDuplicateOrder(e) THEN AlreadyExists ELSE said
    BY <1>6 DEF RequestedError, said
  <2>2. stmt[c].op = "requested" /\ stmt[c].state # "norows"
    BY <1>6 DEF Writes
  <2>3. CASE stmt[c].state = "unique"
    BY <1>2, <1>4, <2>1, <2>2, <2>3
  <2>4. CASE stmt[c].state # "unique"
    <3>1. err = said
      BY <1>1, <1>2, <1>5, <2>1, <2>2, <2>4
    <3> QED BY <1>1, <1>2, <1>3, <2>2, <2>4, <3>1
  <2> QED BY <2>3, <2>4
<1>7. CASE input[c].kind # "request"
  <2> DEFINE res == IF stmt[c].state = "norows" THEN NotAcceptable ELSE said
  <2>1. err = IF res = Nil THEN Nil
              ELSE IF res[1].kind = "http" /\ res[1].code = "ORDER_NOT_ACCEPTABLE" THEN NotAcceptable
              ELSE IF res[1] = PgError("23505", "uq_order_acceptances_order") THEN AlreadyAccepted
              ELSE res
    BY <1>7, Zenon DEF AcceptedError, said
  <2>2. stmt[c].op = "accepted"
    BY <1>7 DEF Writes
  <2>3. CASE stmt[c].state = "norows"
    <3>1. NotAcceptable # Nil /\ NotAcceptable[1].kind = "http"
          /\ NotAcceptable[1].code = "ORDER_NOT_ACCEPTABLE"
      BY DEF NotAcceptable, NewError, HTTPError, Nil
    <3> QED BY <2>1, <2>2, <2>3, <3>1
  <2>4. CASE stmt[c].state = "unique"
    <3>1. <<pg>> # Nil /\ <<pg>>[1] = pg
      BY DEF Nil
    <3> QED BY <1>2, <1>4, <2>1, <2>2, <2>4, <3>1
  <2>5. CASE stmt[c].state = "ok"
    BY <1>2, <2>1, <2>5
  <2>6. CASE stmt[c].state = "failed"
    <3>1. PICK l : DbError = <<l>> /\ l.kind = "text"
      BY <1>3
    <3>2. <<l>> # Nil /\ <<l>>[1] = l
      BY DEF Nil
    <3>3. PgError("23505", "uq_order_acceptances_order").kind = "pg"
      BY DEF PgError
    <3> QED BY <1>2, <2>1, <2>6, <3>1, <3>2, <3>3
  <2> QED BY <1>1, <2>3, <2>4, <2>5, <2>6
<1> QED BY <1>6, <1>7

\* What lies behind each answer.
ShownOK(c) ==
    /\ reply[c].status = 200
    /\ input[c] # NoInput /\ input[c].kind = "get"
    /\ got[c] # NoResult /\ got[c].err = Nil /\ Canon(got[c].view.rider) = input[c].who

CreatedOK(c) == reply[c].status = 201 /\ stmt[c].state = "ok" /\ Writes(c)

ConflictOK(c) ==
    /\ reply[c].status = 409 /\ input[c] # NoInput
    /\ IF reply[c].code = "ORDER_ALREADY_EXISTS"
       THEN Writes(c) /\ stmt[c].state = "unique" /\ stmt[c].op = "requested"
       ELSE \/ Writes(c) /\ stmt[c].state \in {"norows", "unique"} /\ stmt[c].op = "accepted"
            \/ stmt[c] = Idle /\ RankOf[input[c].order.id] = 2

RefusedOK(c) == reply[c].status \in {400, 404} /\ stmt[c] = Idle

AnswerOK(c) == \/ ShownOK(c) \/ CreatedOK(c) \/ ConflictOK(c) \/ RefusedOK(c)
               \/ reply[c].status = 500

\* Every answer has its reason, and a statement is its caller's.
WriteInv ==
    /\ reply = [c \in Calls |-> reply[c]]
    /\ \A c \in Calls :
           /\ IF pc[c] = "done" THEN AnswerOK(c) ELSE reply[c].status = 0
           /\ pc[c] \in (Handling \cup {"new"}) \ {"inserting"} => stmt[c] = Idle
           /\ pc[c] = "inserting" => Writes(c)

\* b's request does not move, its statement may.
Stays(b) ==
    /\ pc'[b] = pc[b] /\ reply'[b] = reply[b] /\ input'[b] = input[b]
    /\ got'[b] = got[b]
    /\ \/ stmt'[b] = stmt[b]
       \/ /\ Running(b) /\ stmt'[b].state # "norows" /\ stmt'[b] # Idle
          /\ stmt'[b].op = stmt[b].op /\ stmt'[b].order = stmt[b].order
          /\ stmt'[b].who = stmt[b].who

\* b's request moves on, is answered, or dies.
Goes(b) ==
    \/ /\ pc'[b] \in (Handling \cup {"dead"}) \ {"inserting"} /\ reply'[b].status = 0
       /\ pc'[b] = "dead" \/ stmt'[b] = Idle
    \/ pc'[b] = "inserting" /\ reply'[b].status = 0 /\ Writes(b)'
    \/ pc'[b] = "done" /\ AnswerOK(b)'

\* What an answer rests on does not change any more.
LEMMA WriteFrame ==
    ASSUME WriteInv, InputOK, StoreInv, StoreInv', [StoreNext]_storeVars,
           reply' = [c \in Calls |-> reply'[c]],
           \A b \in Calls : Stays(b) \/ Goes(b)
    PROVE  WriteInv'
<1> SUFFICES ASSUME NEW b \in Calls
             PROVE  /\ IF pc'[b] = "done" THEN AnswerOK(b)' ELSE reply'[b].status = 0
                    /\ pc'[b] \in (Handling \cup {"new"}) \ {"inserting"} => stmt'[b] = Idle
                    /\ pc'[b] = "inserting" => Writes(b)'
  BY DEF WriteInv
<1>1. CASE Goes(b)
  BY <1>1 DEF Goes, Handling
<1>2. CASE Stays(b)
  <2>1. /\ IF pc[b] = "done" THEN AnswerOK(b) ELSE reply[b].status = 0
        /\ pc[b] \in (Handling \cup {"new"}) \ {"inserting"} => stmt[b] = Idle
        /\ pc[b] = "inserting" => Writes(b)
    BY DEF WriteInv
  <2>2. Running(b) => stmt[b] # Idle
    BY DEF Running, Idle
  <2>3. Writes(b) => Writes(b)'
    BY <1>2 DEF Stays, Writes
  <2>4. pc'[b] \in (Handling \cup {"new"}) \ {"inserting"} => stmt'[b] = Idle
    BY <1>2, <2>1, <2>2 DEF Stays
  <2>5. ~ Running(b) => stmt'[b] = stmt[b]
    BY <1>2 DEF Stays
  <2>6. AnswerOK(b) => AnswerOK(b)'
    <3>1. CASE ShownOK(b) \/ reply[b].status = 500
      BY <1>2, <3>1 DEF Stays, AnswerOK, ShownOK
    <3>2. CASE CreatedOK(b)
      BY <1>2, <2>3, <2>5, <3>2 DEF Stays, AnswerOK, CreatedOK, Running
    <3>3. CASE RefusedOK(b)
      BY <1>2, <2>2, <2>5, <3>3 DEF Stays, AnswerOK, RefusedOK
    <3>4. CASE ConflictOK(b)
      <4>1. input[b] # NoInput => input[b].order.id \in OrderIds
        BY KeysName
      <4>2. input[b] # NoInput /\ RankOf[input[b].order.id] = 2 => RankOf'[input[b].order.id] = 2
        BY <4>1, TablesAdvance
      <4>3. ConflictOK(b)'
        BY <1>2, <2>2, <2>3, <2>5, <3>4, <4>2 DEF Stays, ConflictOK, Running
      <4> QED BY <4>3 DEF AnswerOK
    <3> QED BY <3>1, <3>2, <3>3, <3>4 DEF AnswerOK
  <2> QED BY <1>2, <2>1, <2>3, <2>4, <2>6 DEF Stays
<1> QED BY <1>1, <1>2

\* A rejected request is answered 400, one that is passed on moves on.
LEMMA ReceiveKeepsWrites ==
    ASSUME WriteInv, ControlInv, StoreInv, StoreInv', [StoreNext]_storeVars,
           NEW c \in Calls, Receive(c)
    PROVE  WriteInv'
<1>1. /\ InputOK /\ DOMAIN pc = Calls /\ DOMAIN input = Calls
      /\ reply = [b \in Calls |-> reply[b]] /\ pc[c] = "new"
  BY DEF ControlInv, PcOK, InputOK, WriteInv, Receive, PostOrder, GetOrder, AcceptOrder
<1>2. reply[c].status = 0 /\ stmt[c] = Idle
  BY <1>1 DEF WriteInv
<1>3. ASSUME Reject(c, ValidationError) PROVE WriteInv'
  <2>1. /\ \A b \in Calls \ {c} : Stays(b)
        /\ reply' = [b \in Calls |-> reply'[b]]
    BY <1>1, <1>3 DEF Reject, Answer, Stays, storeVars
  <2>2. pc'[c] = "done" /\ reply'[c].status = 400 /\ stmt' = stmt
    BY <1>1, <1>3, KnownAnswers DEF Reject, Answer, storeVars
  <2>3. AnswerOK(c)'
    BY <1>2, <2>2 DEF AnswerOK, RefusedOK
  <2> QED BY <1>1, <2>1, <2>2, <2>3, WriteFrame DEF Goes
<1>4. ASSUME NEW kind, NEW order, NEW who, NEW seen, NEW at \in {"read", "insert"},
             Pass(c, kind, order, who, seen, at)
      PROVE  WriteInv'
  <2>1. /\ \A b \in Calls \ {c} : Stays(b)
        /\ reply' = [b \in Calls |-> reply'[b]]
    BY <1>1, <1>4 DEF Pass, Stays, storeVars
  <2>2. pc'[c] = at /\ reply'[c].status = 0 /\ stmt'[c] = Idle
    BY <1>1, <1>2, <1>4 DEF Pass, storeVars
  <2> QED BY <1>1, <2>1, <2>2, WriteFrame DEF Goes, Handling
<1> QED BY <1>3, <1>4, WorkerKeeps DEF Receive, PostOrder, GetOrder, AcceptOrder

\* Reads answer nobody.
LEMMA ReadsKeepWrites ==
    ASSUME WriteInv, ReadInv, ControlInv, StoreInv, StoreInv', [StoreNext]_storeVars,
           NEW c \in Calls,
           \/ ReadDirect(c) \/ Hit(c) \/ Lead(c) \/ Join(c) \/ HitL2(c) \/ Query(c)
           \/ FailRead(c) \/ Deliver(c)
    PROVE  WriteInv'
<1>1. /\ InputOK /\ DOMAIN pc = Calls /\ DOMAIN got = Calls
      /\ reply = [b \in Calls |-> reply[b]]
  BY DEF ControlInv, PcOK, WriteInv, ReadInv
<1>2. reply' = reply /\ stmt' = stmt /\ input' = input
  BY DEF ReadDirect, Hit, Lead, Join, HitL2, Query, FailRead, Deliver, storeVars
<1>3. reply' = [b \in Calls |-> reply'[b]]
  BY <1>1, <1>2
<1> DEFINE Same(b) == pc'[b] = pc[b] /\ got'[b] = got[b]
           Moves(b) == /\ pc[b] \in Handling \ {"inserting"}
                       /\ pc'[b] \in Loading \cup {"got", "waiting"}
<1>4. ASSUME Deliver(c), NEW b \in Calls PROVE Same(b) \/ Moves(b)
  BY <1>4 DEF Deliver, Handling
<1>5. ASSUME \/ ReadDirect(c) \/ Hit(c) \/ Lead(c) \/ Join(c) \/ HitL2(c) \/ Query(c)
             \/ FailRead(c),
             NEW b \in Calls
      PROVE  Same(b) \/ Moves(b)
  <2>1. PICK at \in Loading \cup {"got", "waiting"} :
            pc[c] \in Handling \ {"inserting"} /\ pc' = [pc EXCEPT ![c] = at]
    BY <1>5 DEF ReadDirect, Hit, Lead, Join, HitL2, Query, FailRead, Get, Handling
  <2>2. got' = got \/ \E r : got' = [got EXCEPT ![c] = r]
    BY <1>5 DEF ReadDirect, Hit, Lead, Join, HitL2, Query, FailRead, Get
  <2> QED BY <1>1, <2>1, <2>2
<1>6. ASSUME NEW b \in Calls PROVE Stays(b) \/ Goes(b)
  <2>1. CASE Same(b)
    BY <1>2, <2>1 DEF Stays
  <2>2. CASE Moves(b)
    BY <1>2, <2>2 DEF WriteInv, Goes, Handling
  <2> QED BY <1>4, <1>5, <2>1, <2>2
<1> QED BY <1>1, <1>3, <1>6, WriteFrame

\* A rider is shown the order the text of which is the own one (orders/handler.go:105).
LEMMA FinishGetKeepsWrites ==
    ASSUME WriteInv, ReadInv, ControlInv, StoreInv, StoreInv', [StoreNext]_storeVars,
           NEW c \in Calls, FinishGet(c)
    PROVE  WriteInv'
<1>1. /\ InputOK /\ DOMAIN pc = Calls /\ DOMAIN got = Calls
      /\ reply = [b \in Calls |-> reply[b]] /\ pc[c] = "got" /\ input[c].kind = "get"
      /\ input[c] # NoInput /\ stmt[c] = Idle
  BY DEF ControlInv, PcOK, WriteInv, ReadInv, FinishGet, InputOK, Handling
<1>2. input' = input /\ got' = got /\ stmt' = stmt
  BY DEF FinishGet, storeVars
<1> DEFINE err == IF got[c].err # Nil THEN got[c].err
                  ELSE IF Canon(got[c].view.rider) # input[c].who THEN NotFound ELSE Nil
<1>3. pc' = [pc EXCEPT ![c] = "done"] /\ reply' = [reply EXCEPT ![c] = AnswerOf(err, 200)]
  BY DEF FinishGet, Answer
<1>4. got[c] # NoResult /\ got[c].err \in {Nil, NotFound, DbError}
  <2>1. input[c].order.id \in OrderIds
    BY <1>1, KeysName
  <2> QED BY <1>1, <2>1, ResultsAre DEF ReadInv
<1>5. AnswerOK(c)'
  <2>1. reply'[c] = AnswerOf(err, 200)
    BY <1>1, <1>3
  <2>e. err = Nil => got[c].err = Nil /\ Canon(got[c].view.rider) = input[c].who
    BY ErrorsReturned
  <2>f. err \in {Nil, NotFound, DbError}
    BY <1>4
  <2> HIDE DEF err
  <2>2. CASE err = Nil
    <3>1. got[c].err = Nil /\ Canon(got[c].view.rider) = input[c].who
      BY <2>2, <2>e
    <3>2. reply'[c].status = 200
      BY <2>1, <2>2, SuccessAnswer
    <3> QED BY <1>1, <1>2, <1>4, <3>1, <3>2 DEF AnswerOK, ShownOK
  <2>3. CASE err = NotFound
    BY <1>1, <1>2, <2>1, <2>3, KnownAnswers DEF AnswerOK, RefusedOK
  <2>4. CASE err = DbError
    BY <2>1, <2>4, KnownAnswers DEF AnswerOK
  <2> QED BY <2>f, <2>2, <2>3, <2>4
<1>6. \A b \in Calls \ {c} : Stays(b)
  BY <1>1, <1>2, <1>3 DEF Stays
<1>7. pc'[c] = "done" /\ reply' = [b \in Calls |-> reply'[b]]
  BY <1>1, <1>3
<1> QED BY <1>1, <1>5, <1>6, <1>7, WriteFrame DEF Goes

\* The early check refuses an order only if it has been taken (drivers/service.go:94-102).
LEMMA CheckAcceptKeepsWrites ==
    ASSUME WriteInv, ReadInv, ControlInv, StoreInv, StoreInv', [StoreNext]_storeVars,
           NEW c \in Calls, CheckAccept(c)
    PROVE  WriteInv'
<1>1. /\ InputOK /\ DOMAIN pc = Calls /\ DOMAIN got = Calls
      /\ reply = [b \in Calls |-> reply[b]] /\ pc[c] = "got"
      /\ input[c] # NoInput /\ stmt[c] = Idle /\ reply[c].status = 0
  BY DEF ControlInv, PcOK, WriteInv, ReadInv, CheckAccept, InputOK, Handling
<1>2. /\ input' = input /\ stmt' = stmt /\ got' = [got EXCEPT ![c] = NoResult]
      /\ orders' = orders /\ history' = history
  BY DEF CheckAccept, storeVars
<1>3. input[c].order.id \in OrderIds
  BY <1>1, KeysName
<1>4. CASE ~ (got[c].err = Nil /\ got[c].view.status # "requested")
  <2>1. pc' = [pc EXCEPT ![c] = "insert"] /\ reply' = reply
    BY <1>4 DEF CheckAccept
  <2>2. \A b \in Calls \ {c} : Stays(b)
    BY <1>1, <1>2, <2>1 DEF Stays
  <2>3. Goes(c)
    BY <1>1, <1>2, <2>1 DEF Goes, Handling
  <2>4. reply' = [b \in Calls |-> reply'[b]]
    BY <1>1, <2>1
  <2> QED BY <1>1, <2>2, <2>3, <2>4, WriteFrame
<1>5. CASE got[c].err = Nil /\ got[c].view.status # "requested"
  <2>1. /\ pc' = [pc EXCEPT ![c] = "done"]
        /\ reply' = [reply EXCEPT ![c] = AnswerOf(NotAcceptable, 201)]
    BY <1>5, WorkerKeeps DEF CheckAccept, Answer
  <2>2. RankOf[input[c].order.id] = 2
    <3> DEFINE o == input[c].order.id
    <3>1. got[c] \in GoodResults[o]
      BY <1>1 DEF ReadInv
    <3>2. got[c].view \in GoodViews[o]
      BY <1>3, <1>5, <3>1, ResultsAre, ErrorsReturned
    <3>3. got[c].view.status = "accepted" /\ Rank(got[c].view.status) <= RankOf[o]
      BY <1>3, <1>5, <3>2 DEF GoodViews, Views
    <3>4. RankOf[o] \in 0..2 /\ Rank("accepted") = 2
      BY <1>3, TablesAdvance DEF Rank
    <3> QED BY <3>3, <3>4
  <2>3. RankOf'[input[c].order.id] = 2
    BY <1>3, <2>2, TablesAdvance
  <2>4. reply'[c].status = 409 /\ reply'[c].code # "ORDER_ALREADY_EXISTS"
    BY <1>1, <2>1, KnownAnswers
  <2>5. AnswerOK(c)'
    BY <1>1, <1>2, <2>3, <2>4 DEF AnswerOK, ConflictOK
  <2>6. \A b \in Calls \ {c} : Stays(b)
    BY <1>1, <1>2, <2>1 DEF Stays
  <2>7. pc'[c] = "done" /\ reply' = [b \in Calls |-> reply'[b]]
    BY <1>1, <2>1
  <2> QED BY <1>1, <2>5, <2>6, <2>7, WriteFrame DEF Goes
<1> QED BY <1>4, <1>5

\* A write sends the caller's statement and waits for its end.
LEMMA StartWriteKeepsWrites ==
    ASSUME WriteInv, ControlInv, StoreInv, StoreInv', [StoreNext]_storeVars,
           NEW c \in Calls, StartWrite(c)
    PROVE  WriteInv'
<1>1. /\ InputOK /\ DOMAIN pc = Calls
      /\ reply = [b \in Calls |-> reply[b]] /\ pc[c] = "insert" /\ reply[c].status = 0
  BY DEF ControlInv, PcOK, WriteInv, StartWrite
<1>2. Writes(c)' /\ \A b \in Calls \ {c} : stmt'[b] = stmt[b]
  BY StartWriteBegins
<1>3. pc' = [pc EXCEPT ![c] = "inserting"] /\ reply' = reply /\ input' = input /\ got' = got
  BY DEF StartWrite
<1>4. \A b \in Calls \ {c} : Stays(b)
  BY <1>1, <1>2, <1>3 DEF Stays
<1>5. Goes(c) /\ reply' = [b \in Calls |-> reply'[b]]
  BY <1>1, <1>2, <1>3 DEF Goes
<1> QED BY <1>1, <1>4, <1>5, WriteFrame

\* The end of the statement is what the caller is told.
LEMMA FinishWriteKeepsWrites ==
    ASSUME WriteInv, ControlInv, StoreInv, StoreInv', [StoreNext]_storeVars,
           NEW c \in Calls, FinishWrite(c)
    PROVE  WriteInv'
<1>1. /\ InputOK /\ DOMAIN pc = Calls
      /\ reply = [b \in Calls |-> reply[b]] /\ pc[c] = "inserting" /\ Writes(c)
      /\ stmt[c].state \in Ended
  BY DEF ControlInv, PcOK, WriteInv, FinishWrite
<1>2. input' = input /\ got' = got /\ stmt' = stmt
  BY DEF FinishWrite, storeVars
<1> DEFINE err == IF input[c].kind = "request" THEN RequestedError(c) ELSE AcceptedError(c)
<1>3. pc' = [pc EXCEPT ![c] = "done"] /\ reply' = [reply EXCEPT ![c] = AnswerOf(err, 201)]
  <2>1. Answer(c, AnswerOf(Worker(err), 201))
    BY DEF FinishWrite
  <2> HIDE DEF err
  <2> QED BY <2>1, WorkerKeeps DEF Answer
<1>4. \/ err = Nil /\ stmt[c].state = "ok"
      \/ err = AlreadyExists /\ stmt[c].state = "unique" /\ stmt[c].op = "requested"
      \/ /\ err \in {NotAcceptable, AlreadyAccepted} /\ stmt[c].op = "accepted"
         /\ stmt[c].state \in {"norows", "unique"}
      \/ \E l : err = <<l>> /\ l.kind # "http"
  BY <1>1, WriteErrors
<1> HIDE DEF err
<1>5. Writes(c)' /\ input'[c] # NoInput
  BY <1>1, <1>2 DEF Writes
<1>6. reply'[c] = AnswerOf(err, 201)
  BY <1>1, <1>3
<1>7. AnswerOK(c)'
  <2>1. CASE err = Nil /\ stmt[c].state = "ok"
    BY <1>2, <1>5, <1>6, <2>1, SuccessAnswer DEF AnswerOK, CreatedOK
  <2>2. CASE err = AlreadyExists /\ stmt[c].state = "unique" /\ stmt[c].op = "requested"
    BY <1>2, <1>5, <1>6, <2>2, KnownAnswers DEF AnswerOK, ConflictOK
  <2>3. CASE /\ err \in {NotAcceptable, AlreadyAccepted} /\ stmt[c].op = "accepted"
             /\ stmt[c].state \in {"norows", "unique"}
    <3>1. reply'[c].status = 409 /\ reply'[c].code # "ORDER_ALREADY_EXISTS"
      BY <1>6, <2>3, KnownAnswers
    <3> QED BY <1>2, <1>5, <2>3, <3>1 DEF AnswerOK, ConflictOK
  <2>4. CASE \E l : err = <<l>> /\ l.kind # "http"
    BY <1>6, <2>4, UntypedAnswer DEF AnswerOK
  <2> QED BY <1>4, <2>1, <2>2, <2>3, <2>4
<1>8. \A b \in Calls \ {c} : Stays(b)
  BY <1>1, <1>2, <1>3 DEF Stays
<1>9. pc'[c] = "done" /\ reply' = [b \in Calls |-> reply'[b]]
  BY <1>1, <1>3
<1> QED BY <1>1, <1>7, <1>8, <1>9, WriteFrame DEF Goes

\* Statements end on their own, entries expire, the process dies.
LEMMA OthersKeepWrites ==
    ASSUME WriteInv, ReadInv, ControlInv, StoreInv, StoreInv', [StoreNext]_storeVars,
           \/ \E c \in Calls : Database(c)
           \/ \E k \in Keys : Expire(k)
           \/ Crash \/ UNCHANGED allVars
    PROVE  WriteInv'
<1>1. InputOK /\ reply = [b \in Calls |-> reply[b]]
  BY DEF ControlInv, WriteInv
<1>2. CASE \E c \in Calls : Database(c)
  <2>1. PICK c \in Calls : Database(c)
    BY <1>2
  <2>2. UNCHANGED apiVars
    BY <2>1 DEF Database
  <2>3. \A b \in Calls : Stays(b)
    BY <2>1, <2>2, DatabaseStep DEF Stays, apiVars
  <2>4. reply' = [b \in Calls |-> reply'[b]]
    BY <1>1, <2>2 DEF apiVars
  <2> QED BY <1>1, <2>3, <2>4, WriteFrame
<1>3. CASE (\E k \in Keys : Expire(k)) \/ UNCHANGED allVars
  <2>1. \A b \in Calls : Stays(b)
    BY <1>3 DEF Expire, Stays, storeVars, allVars, apiVars
  <2>2. reply' = reply
    BY <1>3 DEF Expire, allVars, apiVars
  <2> QED BY <1>1, <2>1, <2>2, WriteFrame
<1>4. CASE Crash
  <2>1. ASSUME NEW b \in Calls PROVE Stays(b) \/ Goes(b)
    BY <1>4 DEF Crash, Stays, Goes, WriteInv, Handling, storeVars
  <2>2. reply' = reply
    BY <1>4 DEF Crash
  <2> QED BY <1>1, <2>1, <2>2, WriteFrame
<1> QED BY <1>2, <1>3, <1>4

-----------------------------------------------------------------------------
(* The inductive invariant of the service, and what follows from it. *)

\* Every step of the service answers with a reason.
LEMMA WriteStep ==
    ASSUME WriteInv, ReadInv, ControlInv, StoreInv, StoreInv', [StoreNext]_storeVars,
           [ApiNext]_allVars
    PROVE  WriteInv'
<1>1. CASE UNCHANGED allVars \/ Crash \/ \E k \in Keys : Expire(k)
  BY <1>1, OthersKeepWrites
<1>2. CASE \E c \in Calls : Receive(c) \/ Database(c)
  BY <1>2, OthersKeepWrites, ReceiveKeepsWrites
<1>3. CASE \E c \in Calls : Handle(c) \/ FailRead(c)
  BY <1>3, ReadsKeepWrites, FinishGetKeepsWrites, CheckAcceptKeepsWrites,
     StartWriteKeepsWrites, FinishWriteKeepsWrites DEF Handle
<1>4. CASE AllAnswered
  BY <1>1, <1>4 DEF AllAnswered
<1> QED BY <1>1, <1>2, <1>3, <1>4 DEF ApiNext, Serve

\* Nothing has been answered at the start.
LEMMA InitWrites == ApiInit => WriteInv
<1> SUFFICES ASSUME ApiInit PROVE WriteInv
  OBVIOUS
<1> QED BY DEF ApiInit, WriteInv, StoreInit, Handling, NoReply

\* An event is written with its statement, whose order and caller stay.
LEMMA EventStep ==
    ASSUME EventsOfCalls, ControlInv, StoreInv, StoreInv', [ApiNext]_allVars
    PROVE  EventsOfCalls'
<1>1. \A e \in outbox : e.id \in Calls
  BY DEF StoreInv, StoreTypeOK
<1>2. CASE stmt' = stmt /\ outbox' = outbox
  BY <1>2 DEF EventsOfCalls
<1>3. ASSUME NEW c \in Calls, StartWrite(c) PROVE EventsOfCalls'
  <2>1. /\ stmt[c] = Idle /\ outbox' = outbox
        /\ \A b \in Calls \ {c} : stmt'[b] = stmt[b]
    BY <1>3, StartWriteBegins
  <2> QED BY <1>1, <2>1 DEF EventsOfCalls
<1>4. ASSUME NEW c \in Calls, Database(c) PROVE EventsOfCalls'
  <2> DEFINE new == [id |-> c, type |-> stmt[c].op, order |-> stmt[c].order,
                     who |-> stmt[c].who]
  <2>1. /\ stmt'[c] # Idle /\ stmt'[c].op = stmt[c].op /\ stmt'[c].order = stmt[c].order
        /\ stmt'[c].who = stmt[c].who
        /\ \A b \in Calls \ {c} : stmt'[b] = stmt[b]
        /\ outbox' \in {outbox, outbox \cup {new}}
    BY <1>4, DatabaseStep
  <2>2. ASSUME NEW e \in outbox
        PROVE  /\ stmt'[e.id] # Idle /\ e.type = stmt'[e.id].op
               /\ e.order = stmt'[e.id].order /\ e.who = stmt'[e.id].who
    BY <1>1, <2>1 DEF EventsOfCalls
  <2>3. /\ new.id = c /\ new.type = stmt'[c].op
        /\ new.order = stmt'[c].order /\ new.who = stmt'[c].who
    BY <2>1
  <2> HIDE DEF new
  <2> QED BY <2>1, <2>2, <2>3 DEF EventsOfCalls
<1>5. CASE UNCHANGED storeVars
  BY <1>2, <1>5 DEF storeVars
<1>6. ASSUME NEW c \in Calls, Receive(c) \/ Handle(c) \/ FailRead(c) PROVE EventsOfCalls'
  BY <1>3, <1>5, <1>6, PostKeepsControl, GetKeepsControl, AcceptKeepsControl,
     ReadsKeepControl DEF Receive, Handle
<1>7. CASE Crash \/ (\E k \in Keys : Expire(k)) \/ AllAnswered \/ UNCHANGED allVars
  BY <1>5, <1>7 DEF Crash, Expire, AllAnswered, allVars
<1> QED BY <1>4, <1>6, <1>7 DEF ApiNext, Serve

\* The inductive invariant of the service.
ApiInv == ControlInv /\ StoreInv /\ ReadInv /\ WriteInv /\ EventsOfCalls

\* It holds in every state, whatever requests race, fail or die.
THEOREM ApiInvariance == ApiSpec => []ApiInv
<1>1. ApiInit => ApiInv
  <2>1. ApiInit => EventsOfCalls
    BY DEF ApiInit, StoreInit, EventsOfCalls
  <2>2. ApiInit => StoreInit
    BY DEF ApiInit
  <2> QED BY <2>1, <2>2, InitControl, InitEstablishes, InitReads, InitWrites DEF ApiInv
<1>2. ApiInv /\ [ApiNext]_allVars => ApiInv'
  <2> SUFFICES ASSUME ApiInv, [ApiNext]_allVars PROVE ApiInv'
    OBVIOUS
  <2>1. ControlInv' /\ [StoreNext]_storeVars
    BY ApiStep DEF ApiInv
  <2>2. StoreInv'
    BY <2>1, NextPreserves DEF ApiInv
  <2>3. ReadInv'
    BY <2>1, <2>2, ReadStep DEF ApiInv
  <2>4. WriteInv'
    BY <2>1, <2>2, WriteStep DEF ApiInv
  <2>5. EventsOfCalls'
    BY <2>2, EventStep DEF ApiInv
  <2> QED BY <2>1, <2>2, <2>3, <2>4, <2>5 DEF ApiInv
<1> QED BY <1>1, <1>2, PTL DEF ApiSpec

\* An answer has been given once the request is done, with its reason.
LEMMA AnswersHaveReasons ==
    ASSUME ApiInv, NEW c \in Calls
    PROVE  reply[c].status = 0 \/ AnswerOK(c)
<1> QED BY DEF ApiInv, WriteInv

\* What a finished read has found.
LEMMA ResultsAreGood ==
    ASSUME ApiInv, NEW c \in Calls, input[c] # NoInput
    PROVE  /\ input[c].order.id \in OrderIds
           /\ \/ got[c] = NoResult
              \/ got[c].err = Nil /\ got[c].view \in GoodViews[input[c].order.id]
              \/ got[c].view = NoView /\ got[c].err \in {NotFound, DbError}
<1>1. input[c].order.id \in OrderIds
  BY KeysName DEF ApiInv, ControlInv
<1>2. got[c] = NoResult \/ got[c] \in GoodResults[input[c].order.id]
  BY DEF ApiInv, ReadInv
<1> QED BY <1>1, <1>2 DEF GoodResults

\* What makes a view good.
LEMMA GoodMeans ==
    ASSUME NEW o \in OrderIds, NEW v \in GoodViews[o]
    PROVE  /\ v \in Views /\ [id |-> o, rider |-> v.rider] \in orders
           /\ Rank(v.status) <= Rank(CurrentStatus(o))
<1> QED BY DEF GoodViews, RankOf

\* No view, wherever it is, is ahead of the tables or of somebody else's order
\* (orders/service.go:60-75, drivers/service.go:94-97).
THEOREM ViewsAreNeverAhead == ApiSpec => []ViewsNeverAhead
<1>1. ApiInv => ViewsNeverAhead
  <2> SUFFICES ASSUME ApiInv PROVE ViewsNeverAhead
    OBVIOUS
  <2>1. ASSUME NEW k \in Keys, NEW v \in {cache[k], redis[k]}, v # NoView
        PROVE  /\ [id |-> k.id, rider |-> v.rider] \in orders
               /\ Rank(v.status) <= Rank(CurrentStatus(k.id))
    <3>1. k.id \in OrderIds /\ v \in GoodViews[k.id]
      BY <2>1, KeysName DEF ApiInv, ReadInv
    <3> QED BY <3>1, GoodMeans
  <2>2. ASSUME NEW c \in Calls, input[c] # NoInput, got[c].view # NoView
        PROVE  /\ [id |-> input[c].order.id, rider |-> got[c].view.rider] \in orders
               /\ Rank(got[c].view.status) <= Rank(CurrentStatus(input[c].order.id))
    <3>1. input[c].order.id \in OrderIds /\ got[c].view \in GoodViews[input[c].order.id]
      BY <2>2, ResultsAreGood DEF NoResult
    <3> QED BY <3>1, GoodMeans
  <2> QED BY <2>1, <2>2 DEF ViewsNeverAhead
<1> QED BY <1>1, ApiInvariance, PTL

\* An order is shown to its rider and to nobody else (orders/handler.go:88-91).
THEOREM OwnersOnly == ApiSpec => []ShownToOwnerOnly
<1>1. ApiInv => ShownToOwnerOnly
  <2> SUFFICES ASSUME ApiInv, NEW c \in Calls, reply[c].status = 200
               PROVE  [id |-> input[c].order.id, rider |-> input[c].who.id] \in orders
    BY DEF ShownToOwnerOnly
  <2>1. ShownOK(c)
    BY AnswersHaveReasons DEF AnswerOK, CreatedOK, ConflictOK, RefusedOK
  <2>2. NotFound # Nil /\ DbError # Nil
    BY DEF NotFound, NewError, DbError, Nil
  <2>3. input[c].order.id \in OrderIds /\ got[c].view \in GoodViews[input[c].order.id]
    BY <2>1, <2>2, ResultsAreGood DEF ShownOK
  <2>4. input[c].who.id = got[c].view.rider
    BY <2>1 DEF ShownOK, Canon, Text
  <2> QED BY <2>3, <2>4, GoodMeans
<1> QED BY <1>1, ApiInvariance, PTL

\* A refused request leaves no row behind, now or later.
THEOREM RefusalsWriteNothing == ApiSpec => []RefusedWritesNothing
<1>1. ApiInv => RefusedWritesNothing
  <2> SUFFICES ASSUME ApiInv, NEW c \in Calls, pc[c] = "done",
                      ClientStatus(reply[c].status)
               PROVE  /\ ~ Running(c)
                      /\ \A x \in outbox \cup history \cup acceptances : x.id # c
    BY DEF RefusedWritesNothing
  <2>1. AnswerOK(c)
    BY DEF ApiInv, WriteInv
  <2>2. ConflictOK(c) \/ RefusedOK(c)
    BY <2>1 DEF AnswerOK, ShownOK, CreatedOK, ClientStatus
  <2>3. stmt[c].state \in {"idle", "norows", "unique"}
    BY <2>2 DEF ConflictOK, RefusedOK, Idle
  <2> QED BY <2>3 DEF Running, ApiInv, StoreInv, RowsOfCalls
<1> QED BY <1>1, ApiInvariance, PTL

\* The rows of an order and its rank.
LEMMA RanksAreRows ==
    ASSUME StoreInv, NEW o \in OrderIds
    PROVE  /\ (\E x \in orders : x.id = o) => Rank(CurrentStatus(o)) >= 1
           /\ (\E a \in acceptances : a.order = o) <=> Rank(CurrentStatus(o)) = 2
<1>1. StatusAgreesWithRows
  BY StatusFollowsRows
<1> DEFINE requested == \E x \in orders : x.id = o
           accepted == \E a \in acceptances : a.order = o
<1>2. CurrentStatus(o) = IF accepted THEN "accepted"
                         ELSE IF requested THEN "requested" ELSE "none"
  BY <1>1 DEF StatusAgreesWithRows
<1> HIDE DEF requested, accepted
<1>3. (requested => Rank(CurrentStatus(o)) >= 1) /\ (accepted <=> Rank(CurrentStatus(o)) = 2)
  BY <1>2 DEF Rank
<1> QED BY <1>3 DEF requested, accepted

\* 201 stands for the caller's own order or acceptance, stored with its event
\* (orders/service.go:173-185, drivers/service.go:109-127).
THEOREM CreatedMeansStored == ApiSpec => []CreatedIsStored
<1>1. ApiInv => CreatedIsStored
  <2> SUFFICES ASSUME ApiInv, NEW c \in Calls, reply[c].status = 201
               PROVE  /\ \E e \in outbox : /\ e.id = c
                             /\ e.order = input[c].order.id
                             /\ e.who = input[c].who.id
                             /\ e.type = IF input[c].kind = "request"
                                         THEN "requested" ELSE "accepted"
                      /\ Rank(CurrentStatus(input[c].order.id))
                            >= IF input[c].kind = "request" THEN 1 ELSE 2
    BY DEF CreatedIsStored
  <2> DEFINE o == input[c].order.id
  <2>1. stmt[c].state = "ok" /\ Writes(c)
    BY AnswersHaveReasons DEF AnswerOK, ShownOK, CreatedOK, ConflictOK, RefusedOK
  <2>2. PICK e \in outbox : e.id = c
    BY <2>1 DEF ApiInv, StoreInv, OutcomeIsTrue
  <2>3. /\ e.order = o /\ e.who = input[c].who.id
        /\ e.type = IF input[c].kind = "request" THEN "requested" ELSE "accepted"
    BY <2>1, <2>2 DEF ApiInv, EventsOfCalls, Writes
  <2>4. o \in OrderIds
    BY <2>1, KeysName DEF Writes, ApiInv, ControlInv
  <2>5. IF e.type = "requested" THEN \E x \in orders : x.id = o
                                ELSE \E a \in acceptances : a.order = o
    <3>1. IF e.type = "requested"
          THEN [id |-> e.order, rider |-> e.who] \in orders
          ELSE [id |-> e.id, order |-> e.order, driver |-> e.who] \in acceptances
      BY DEF ApiInv, StoreInv, OneEventPerChange
    <3>2. [id |-> e.order, rider |-> e.who].id = o
          /\ [id |-> e.id, order |-> e.order, driver |-> e.who].order = o
      BY <2>3
    <3> QED BY <3>1, <3>2
  <2>6. Rank(CurrentStatus(o)) >= IF input[c].kind = "request" THEN 1 ELSE 2
    BY <2>3, <2>4, <2>5, RanksAreRows DEF ApiInv
  <2> QED BY <2>2, <2>3, <2>6
<1> QED BY <1>1, ApiInvariance, PTL

\* For any number of drivers, at most one is told that the order is its own, and for
\* any number of riders at most one that it made it (drivers/repository.go:22-26).
THEOREM OneIsTold == ApiSpec => []OneIsToldSo
<1>1. ApiInv /\ CreatedIsStored => OneIsToldSo
  <2> SUFFICES ASSUME ApiInv, CreatedIsStored, NEW b \in Calls, NEW c \in Calls,
                      reply[b].status = 201, reply[c].status = 201,
                      input[b].kind = input[c].kind,
                      input[b].order.id = input[c].order.id
               PROVE  b = c
    BY DEF OneIsToldSo
  <2> DEFINE type == IF input[c].kind = "request" THEN "requested" ELSE "accepted"
             o == input[c].order.id
  <2>1. PICK e \in outbox : e.id = b /\ e.order = o /\ e.type = type
    BY DEF CreatedIsStored
  <2>2. PICK f \in outbox : f.id = c /\ f.order = o /\ f.type = type
    BY DEF CreatedIsStored
  <2>3. e = f
    <3>1. OneEventPerChange
      BY DEF ApiInv, StoreInv
    <3>2. CASE type = "requested"
      <4>1. [id |-> e.order, rider |-> e.who] \in orders
        BY <2>1, <3>1, <3>2 DEF OneEventPerChange
      <4>2. PICK x \in orders : x.id = o
        <5>1. [id |-> e.order, rider |-> e.who].id = o
          BY <2>1
        <5> QED BY <4>1, <5>1
      <4>3. PICK g \in outbox : \A h \in outbox :
                h.type = "requested" /\ h.order = x.id => h = g
        BY <3>1 DEF OneEventPerChange
      <4> HIDE DEF o, type
      <4> QED BY <2>1, <2>2, <3>2, <4>2, <4>3
    <3>3. CASE type = "accepted"
      <4>1. [id |-> e.id, order |-> e.order, driver |-> e.who] \in acceptances
        <5>1. e.type # "requested"
          BY <2>1, <3>3
        <5> QED BY <2>1, <3>1, <5>1 DEF OneEventPerChange
      <4>2. PICK a \in acceptances : a.order = o
        <5>1. [id |-> e.id, order |-> e.order, driver |-> e.who].order = o
          BY <2>1
        <5> QED BY <4>1, <5>1
      <4>3. PICK g \in outbox : \A h \in outbox :
                h.type = "accepted" /\ h.order = a.order => h = g
        BY <3>1 DEF OneEventPerChange
      <4> HIDE DEF o, type
      <4> QED BY <2>1, <2>2, <3>3, <4>2, <4>3
    <3> QED BY <3>2, <3>3
  <2> QED BY <2>1, <2>2, <2>3
<1> QED BY <1>1, ApiInvariance, CreatedMeansStored, PTL

\* Whoever is answered 409 has lost to another call, or came before the order.
THEOREM ConflictsHaveReasons == ApiSpec => []ConflictsAreReal
<1>1. ApiInv => ConflictsAreReal
  <2> SUFFICES ASSUME ApiInv, NEW c \in Calls, reply[c].status = 409
               PROVE  LET o == input[c].order.id
                          other(type) == \E e \in outbox : /\ e.type = type /\ e.order = o
                                                           /\ e.id # c
                      IN  IF reply[c].code = "ORDER_ALREADY_EXISTS" THEN other("requested")
                          ELSE other("accepted") \/ (stmt[c].state = "norows" /\ stmt[c].seq = 1)
    BY DEF ConflictsAreReal
  <2> DEFINE o == input[c].order.id
             other(type) == \E e \in outbox : e.type = type /\ e.order = o /\ e.id # c
  <2>1. ConflictOK(c)
    BY AnswersHaveReasons DEF AnswerOK, ShownOK, CreatedOK, RefusedOK
  <2>2. o \in OrderIds
    BY <2>1, KeysName DEF ConflictOK, ApiInv, ControlInv
  <2>3. ASSUME NEW a \in acceptances, a.order = o, a.id # c PROVE other("accepted")
    <3>1. PICK e \in outbox : e.type = "accepted" /\ e.order = o
      BY <2>3 DEF ApiInv, StoreInv, OneEventPerChange
    <3>2. [id |-> e.id, order |-> e.order, driver |-> e.who] \in acceptances
      BY <3>1 DEF ApiInv, StoreInv, OneEventPerChange
    <3>3. a = [id |-> e.id, order |-> e.order, driver |-> e.who]
      BY <2>3, <3>1, <3>2 DEF ApiInv, StoreInv, OneDriverPerOrder
    <3> QED BY <2>3, <3>1, <3>3
  <2>4. ASSUME Writes(c), stmt[c].state = "unique" PROVE other(stmt[c].op)
    <3>1. \E e \in outbox : e.order = stmt[c].order /\ e.id # c /\ e.type = stmt[c].op
      BY <2>4 DEF ApiInv, StoreInv, LoserHasWinner
    <3> QED BY <2>4, <3>1 DEF Writes
  <2>5. ASSUME Writes(c), stmt[c].state = "norows"
        PROVE  other("accepted") \/ stmt[c].seq = 1
    <3>1. stmt[c].seq = 1 \/ stmt[c].seq > 1
      BY <2>5 DEF Writes
    <3>2. CASE stmt[c].seq > 1
      <4>1. \E a \in acceptances : a.order = stmt[c].order /\ a.id # c
        BY <2>5, <3>2 DEF ApiInv, StoreInv, LoserHasWinner
      <4> QED BY <2>3, <2>5, <4>1 DEF Writes
    <3> QED BY <3>1, <3>2
  <2>6. ASSUME stmt[c] = Idle, RankOf[o] = 2 PROVE other("accepted")
    <3>1. \E a \in acceptances : a.order = o
      BY <2>2, <2>6, RanksAreRows DEF ApiInv, RankOf
    <3>2. \A a \in acceptances : a.id # c
      BY <2>6 DEF ApiInv, StoreInv, RowsOfCalls, Idle
    <3> QED BY <2>3, <3>1, <3>2
  <2> HIDE DEF other
  <2>7. IF reply[c].code = "ORDER_ALREADY_EXISTS" THEN other("requested")
        ELSE other("accepted") \/ (stmt[c].state = "norows" /\ stmt[c].seq = 1)
    BY <2>1, <2>4, <2>5, <2>6 DEF ConflictOK
  <2> QED BY <2>7 DEF other
<1> QED BY <1>1, ApiInvariance, PTL

-----------------------------------------------------------------------------
(* Flights: nobody loads a key twice. *)

\* One request loads a key, and nothing is cached under it while it does.
FlightInv ==
    /\ flight = [k \in Keys |-> flight[k]]
    /\ \A k \in Keys : flight[k] = {} \/ \E c \in Calls : flight[k] = {c}
    /\ \A k \in Keys : cache[k] # NoView => flight[k] = {} /\ HasCache
    /\ \A c \in Calls : pc[c] \in Loading =>
           flight[Key(c)] = {c} /\ HasCache

\* What neither starts nor ends a flight and caches nothing keeps FlightInv.
LEMMA FlightFrame ==
    ASSUME FlightInv, setup' = setup, flight' = flight,
           \A k \in Keys : cache'[k] \in {cache[k], NoView},
           \A b \in Calls : pc'[b] \in Loading =>
               pc[b] \in Loading /\ input'[b] = input[b]
    PROVE  FlightInv'
<1> QED BY DEF FlightInv, HasCache, Key

\* The first request that misses takes the flight of its key (orders/service.go:69).
LEMMA LeadKeepsFlights ==
    ASSUME FlightInv, ControlInv, setup' = setup, NEW c \in Calls, Lead(c)
    PROVE  FlightInv'
<1> DEFINE k == Key(c)
<1>1. /\ pc[c] = "read" /\ HasCache /\ cache[k] = NoView /\ flight[k] = {}
      /\ flight' = [flight EXCEPT ![k] = {c}] /\ pc' = [pc EXCEPT ![c] = "leading"]
      /\ input' = input /\ cache' = cache
  BY DEF Lead
<1>2. DOMAIN pc = Calls /\ InputOK /\ k \in Keys
  BY <1>1, KeysName DEF ControlInv, PcOK, InputOK, Handling
<1>3. Key(c)' = k /\ \A b \in Calls : Key(b)' = Key(b)
  BY <1>1 DEF Key
<1>4. DOMAIN flight = Keys
  BY DEF FlightInv
<1> HIDE DEF k
<1>5. flight' = [x \in Keys |-> flight'[x]]
  BY <1>1, <1>4
<1>6. \A x \in Keys : flight'[x] = IF x = k THEN {c} ELSE flight[x]
  BY <1>1, <1>4
<1>7. \A x \in Keys : flight'[x] = {} \/ \E b \in Calls : flight'[x] = {b}
  BY <1>6 DEF FlightInv
<1>8. \A x \in Keys : cache'[x] # NoView => flight'[x] = {} /\ HasCache'
  BY <1>1, <1>6 DEF FlightInv, HasCache
<1>9. ASSUME NEW b \in Calls, pc'[b] \in Loading
      PROVE  flight'[Key(b)'] = {b} /\ HasCache'
  <2>1. CASE b = c
    BY <1>1, <1>2, <1>3, <1>6, <2>1 DEF HasCache
  <2>2. CASE b # c
    <3>1. pc[b] \in Loading
      BY <1>1, <1>2, <1>9, <2>2
    <3>2. flight[Key(b)] = {b} /\ HasCache
      BY <3>1 DEF FlightInv
    <3>3. Key(b) \in Keys
      BY <1>2, <3>1, KeysName DEF InputOK, Handling
    <3>4. Key(b) # k
      BY <1>1, <3>2
    <3> QED BY <1>3, <1>6, <3>2, <3>3, <3>4 DEF HasCache
  <2> QED BY <2>1, <2>2
<1> QED BY <1>5, <1>7, <1>8, <1>9 DEF FlightInv

\* Its result ends the flight, in the step in which it is cached.
LEMMA DeliverKeepsFlights ==
    ASSUME FlightInv, ControlInv, setup' = setup, NEW c \in Calls, Deliver(c)
    PROVE  FlightInv'
<1> DEFINE k == Key(c)
<1>1. /\ pc[c] \in Loaded /\ flight' = [flight EXCEPT ![k] = {}]
      /\ pc'[c] = "got" /\ \A b \in Calls : pc'[b] \in {pc[b], "got"}
      /\ cache' = IF got[c].err = Nil THEN [cache EXCEPT ![k] = got[c].view] ELSE cache
      /\ input' = input
  BY DEF Deliver
<1>2. InputOK /\ k \in Keys /\ flight[k] = {c} /\ HasCache
  BY <1>1, KeysName DEF ControlInv, InputOK, Handling, FlightInv
<1>3. \A b \in Calls : Key(b)' = Key(b)
  BY <1>1 DEF Key
<1>4. DOMAIN flight = Keys
  BY DEF FlightInv
<1> HIDE DEF k
<1>5. flight' = [x \in Keys |-> flight'[x]]
  BY <1>1, <1>4
<1>6. \A x \in Keys : /\ flight'[x] = IF x = k THEN {} ELSE flight[x]
                      /\ x # k => cache'[x] = cache[x]
  BY <1>1, <1>4
<1>7. \A x \in Keys : flight'[x] = {} \/ \E b \in Calls : flight'[x] = {b}
  BY <1>6 DEF FlightInv
<1>8. \A x \in Keys : cache'[x] # NoView => flight'[x] = {} /\ HasCache'
  BY <1>2, <1>6 DEF FlightInv, HasCache
<1>9. ASSUME NEW b \in Calls, pc'[b] \in Loading
      PROVE  flight'[Key(b)'] = {b} /\ HasCache'
  <2>1. b # c /\ pc[b] \in Loading
    BY <1>1, <1>9
  <2>2. flight[Key(b)] = {b} /\ Key(b) \in Keys
    BY <1>2, <2>1, KeysName DEF FlightInv, InputOK, Handling
  <2>3. Key(b) # k
    BY <1>2, <2>1, <2>2
  <2> QED BY <1>2, <1>3, <1>6, <2>2, <2>3 DEF HasCache
<1> QED BY <1>5, <1>7, <1>8, <1>9 DEF FlightInv

\* Every step of the service keeps the flights.
LEMMA FlightStep ==
    ASSUME FlightInv, ReadInv, ControlInv, [ApiNext]_allVars
    PROVE  FlightInv'
<1>1. DOMAIN pc = Calls /\ DOMAIN input = Calls /\ DOMAIN cache = Keys
  BY DEF ControlInv, PcOK, InputOK, ReadInv
<1>2. CASE UNCHANGED allVars
  BY <1>2, FlightFrame DEF allVars, apiVars
<1>3. ASSUME setup' = setup, Crash PROVE FlightInv'
  <2>1. /\ flight' = [k \in Keys |-> {}]
        /\ \A b \in Calls : pc'[b] \notin Loading
    BY <1>3 DEF Crash, Handling
  <2>2. \A k \in Keys : cache'[k] \in {cache[k], NoView}
    BY <1>3 DEF Crash
  <2> QED BY <1>3, <2>1, <2>2 DEF FlightInv, HasCache
<1>4. ASSUME setup' = setup, NEW k \in Keys, Expire(k) PROVE FlightInv'
  <2>1. \A x \in Keys : cache'[x] \in {cache[x], NoView}
    BY <1>1, <1>4 DEF Expire
  <2>2. flight' = flight /\ pc' = pc /\ input' = input
    BY <1>4 DEF Expire
  <2> QED BY <1>4, <2>1, <2>2, FlightFrame
<1>5. ASSUME setup' = setup, NEW c \in Calls, Receive(c) PROVE FlightInv'
  <2>1. ASSUME NEW err, Reject(c, err)
        PROVE  /\ flight' = flight /\ cache' = cache /\ input' = input
               /\ pc' = [pc EXCEPT ![c] = "done"]
    BY <2>1 DEF Reject, Answer
  <2>2. ASSUME NEW kind, NEW order, NEW who, NEW seen, NEW at \in {"read", "insert"},
               Pass(c, kind, order, who, seen, at)
        PROVE  /\ flight' = flight /\ cache' = cache
               /\ pc' = [pc EXCEPT ![c] = at] /\ \A b \in Calls \ {c} : input'[b] = input[b]
    BY <1>1, <2>2 DEF Pass
  <2>3. /\ flight' = flight /\ cache' = cache
        /\ pc'[c] \in {"done", "read", "insert"}
        /\ \A b \in Calls \ {c} : input'[b] = input[b] /\ pc'[b] = pc[b]
    BY <1>1, <1>5, <2>1, <2>2 DEF Receive, PostOrder, GetOrder, AcceptOrder
  <2> QED BY <1>5, <2>3, FlightFrame
<1>6. ASSUME setup' = setup, NEW c \in Calls, Database(c) PROVE FlightInv'
  BY <1>6, FlightFrame DEF Database, apiVars
<1>7. ASSUME setup' = setup, NEW c \in Calls,
             \/ ReadDirect(c) \/ Hit(c) \/ Join(c) \/ HitL2(c) \/ Query(c)
             \/ FinishGet(c) \/ CheckAccept(c) \/ StartWrite(c) \/ FinishWrite(c) \/ FailRead(c)
      PROVE  FlightInv'
  <2>1. flight' = flight /\ cache' = cache /\ input' = input
    BY <1>7 DEF ReadDirect, Hit, Join, HitL2, Query, FinishGet, CheckAccept, StartWrite,
                FinishWrite, FailRead
  <2>2. PICK at \in Loaded \cup {"got", "waiting", "done", "insert", "inserting"} :
            /\ pc' = [pc EXCEPT ![c] = at]
            /\ at \in Loaded => pc[c] = "leading"
    BY <1>7 DEF ReadDirect, Hit, Join, HitL2, Query, FinishGet, CheckAccept, StartWrite,
                FinishWrite, FailRead, Get, Answer
  <2>3. \A b \in Calls : pc'[b] \in Loading => pc[b] \in Loading
    BY <1>1, <2>2
  <2> QED BY <1>7, <2>1, <2>3, FlightFrame
<1>8. ASSUME setup' = setup, NEW c \in Calls, Handle(c) PROVE FlightInv'
  BY <1>7, <1>8, LeadKeepsFlights, DeliverKeepsFlights DEF Handle
<1>9. CASE AllAnswered
  BY <1>2, <1>9 DEF AllAnswered
<1> QED BY <1>2, <1>3, <1>4, <1>5, <1>6, <1>7, <1>8, <1>9 DEF ApiNext, Serve

\* Nobody loads a key twice, whatever races, fails or dies.
LEMMA FlightInvariance == ApiSpec => []FlightInv
<1>1. ApiInit => FlightInv
  BY DEF ApiInit, FlightInv
<1>2. ApiInv /\ FlightInv /\ [ApiNext]_allVars => FlightInv'
  BY FlightStep DEF ApiInv
<1> QED BY <1>1, <1>2, ApiInvariance, PTL DEF ApiSpec

\* Every variable of the service keeps its type, and nothing but the documented
\* statuses is answered (README.md:86-90).
THEOREM ApiTypesHold == ApiSpec => []ApiTypeOK
<1>1. ApiInv /\ FlightInv => ApiTypeOK
  <2> SUFFICES ASSUME ApiInv, FlightInv PROVE ApiTypeOK
    OBVIOUS
  <2>1. PcOK /\ InputOK
    BY DEF ApiInv, ControlInv
  <2>2. ASSUME NEW c \in Calls PROVE got[c].view \in Views \cup {NoView}
    <3>1. CASE input[c] = NoInput
      BY <3>1 DEF ApiInv, ReadInv, NoResult
    <3>2. CASE input[c] # NoInput
      <4>1. /\ input[c].order.id \in OrderIds
            /\ \/ got[c] = NoResult \/ got[c].view = NoView
               \/ got[c].view \in GoodViews[input[c].order.id]
        BY <3>2, ResultsAreGood
      <4>2. got[c] = NoResult => got[c].view = NoView
        BY DEF NoResult
      <4>3. GoodViews[input[c].order.id] \subseteq Views
        BY <4>1 DEF GoodViews
      <4> QED BY <4>1, <4>2, <4>3
    <3> QED BY <3>1, <3>2
  <2>3. ASSUME NEW c \in Calls PROVE reply[c].status \in {0, 200, 201, 400, 404, 409, 500}
    BY AnswersHaveReasons DEF AnswerOK, ShownOK, CreatedOK, ConflictOK, RefusedOK
  <2>4. cache \in [Keys -> Views \cup {NoView}] /\ redis \in [Keys -> Views \cup {NoView}]
    <3>1. ASSUME NEW k \in Keys, NEW v \in {cache[k], redis[k]}
          PROVE  v \in Views \cup {NoView}
      <4>1. k.id \in OrderIds /\ v \in GoodViews[k.id] \cup {NoView}
        BY KeysName DEF ApiInv, ReadInv
      <4> QED BY <4>1, GoodMeans
    <3> QED BY <3>1 DEF ApiInv, ReadInv
  <2>5. flight \in [Keys -> {{}} \cup {{c} : c \in Calls}]
    BY DEF FlightInv
  <2> QED BY <2>1, <2>2, <2>3, <2>4, <2>5 DEF ApiTypeOK, PcOK
<1> QED BY <1>1, ApiInvariance, FlightInvariance, PTL

-----------------------------------------------------------------------------
(* Reads under one key never go back, where a process is alone with its   *)
(* cache.                                                                  *)

\* What is known of the status of the order under key k: a read has it, or was
\* promised it when it arrived.
Known(b, k, rank) ==
    /\ input[b] # NoInput /\ input[b].kind = "get" /\ Key(b) = k
    /\ \/ pc[b] \in {"got", "done"} /\ got[b].view # NoView /\ rank = Rank(got[b].view.status)
       \/ rank = input[b].seen /\ rank > 0

\* Nothing that may still be shown under k is older than rank.
Fresh(k, rank) ==
    /\ rank <= Rank(CurrentStatus(k.id))
    /\ \A v \in {cache[k], redis[k]} : v # NoView => rank <= Rank(v.status)
    /\ \A c \in Calls : pc[c] \in Loaded /\ Key(c) = k =>
           /\ got[c].err = Nil => rank <= Rank(got[c].view.status)
           /\ got[c].err = NotFound => rank = 0

\* Whatever is known is fresh.
OrderInv == \A b \in Calls, k \in Keys, rank \in 0..2 : Known(b, k, rank) => Fresh(k, rank)

\* A read returns what it was promised, or it fails.
SeenInv ==
    \A c \in Calls :
        pc[c] \in {"got", "done"} /\ input[c] # NoInput /\ input[c].kind = "get" =>
            /\ got[c].err = Nil => Rank(got[c].view.status) >= input[c].seen
            /\ got[c].err = NotFound => input[c].seen = 0
            /\ reply[c].status = 404 => got[c].err \in {Nil, NotFound}

\* The levels of the cache agree: a copy in L1, or one on its way there, is the one
\* in Redis if that has any.
LevelsInv ==
    /\ ~ SharedL2 /\ (OwnL2 => HasCache)
    /\ \A k \in Keys :
           /\ redis[k] # NoView => OwnL2
           /\ cache[k] # NoView => redis[k] \in {NoView, cache[k]}
    /\ \A c \in Calls : pc[c] = "fetched" =>
           got[c].err = Nil /\ redis[Key(c)] \in {NoView, got[c].view}

\* A step that caches nothing and gives nobody a result of a load.
Quiet ==
    /\ \A k \in Keys : cache'[k] \in {cache[k], NoView} /\ redis'[k] \in {redis[k], NoView}
    /\ \A b \in Calls : pc'[b] \in Loaded =>
           pc'[b] = pc[b] /\ input'[b] = input[b] /\ got'[b] = got[b]

\* All steps are quiet but those of the loads.
LEMMA QuietSteps ==
    ASSUME ReadInv, ControlInv, [ApiNext]_allVars,
           ~ \E c \in Calls : HitL2(c) \/ Query(c) \/ Deliver(c) \/ FailRead(c)
    PROVE  Quiet
<1>1. DOMAIN pc = Calls /\ DOMAIN input = Calls /\ DOMAIN cache = Keys /\ DOMAIN got = Calls
      /\ DOMAIN redis = Keys
  BY DEF ControlInv, PcOK, InputOK, ReadInv
<1>2. CASE UNCHANGED allVars
  BY <1>2 DEF allVars, apiVars, Quiet
<1>3. CASE Crash
  BY <1>3 DEF Crash, Handling, Quiet
<1>4. ASSUME NEW x \in Keys, Expire(x) PROVE Quiet
  BY <1>1, <1>4 DEF Expire, Quiet
<1>5. ASSUME NEW c \in Calls, Receive(c) PROVE Quiet
  <2>1. ASSUME NEW err, Reject(c, err)
        PROVE  /\ cache' = cache /\ redis' = redis /\ got' = got /\ pc'[c] = "done"
               /\ \A b \in Calls \ {c} : input'[b] = input[b] /\ pc'[b] = pc[b]
    BY <1>1, <2>1 DEF Reject, Answer
  <2>2. ASSUME NEW kind, NEW order, NEW who, NEW seen, NEW at \in {"read", "insert"},
               Pass(c, kind, order, who, seen, at)
        PROVE  /\ cache' = cache /\ redis' = redis /\ got' = got
               /\ pc'[c] \in {"read", "insert"}
               /\ \A b \in Calls \ {c} : input'[b] = input[b] /\ pc'[b] = pc[b]
    BY <1>1, <2>2 DEF Pass
  <2>3. /\ cache' = cache /\ redis' = redis /\ got' = got
        /\ pc'[c] \in {"done", "read", "insert"}
        /\ \A b \in Calls \ {c} : input'[b] = input[b] /\ pc'[b] = pc[b]
    BY <1>5, <2>1, <2>2 DEF Receive, PostOrder, GetOrder, AcceptOrder
  <2> QED BY <2>3 DEF Quiet
<1>6. ASSUME NEW c \in Calls, Database(c) PROVE Quiet
  BY <1>6 DEF Database, apiVars, Quiet
<1>7. ASSUME NEW c \in Calls,
             \/ ReadDirect(c) \/ Hit(c) \/ Lead(c) \/ Join(c) \/ FinishGet(c)
             \/ CheckAccept(c) \/ StartWrite(c) \/ FinishWrite(c)
      PROVE  Quiet
  <2>1. cache' = cache /\ redis' = redis /\ input' = input
    BY <1>7 DEF ReadDirect, Hit, Lead, Join, FinishGet, CheckAccept, StartWrite, FinishWrite
  <2>2. PICK at \in {"got", "leading", "waiting", "done", "insert", "inserting"} :
            pc' = [pc EXCEPT ![c] = at]
    BY <1>7 DEF ReadDirect, Hit, Lead, Join, FinishGet, CheckAccept, StartWrite,
                FinishWrite, Get, Answer
  <2>3. got' = got \/ \E r : got' = [got EXCEPT ![c] = r]
    BY <1>7 DEF ReadDirect, Hit, Lead, Join, FinishGet, CheckAccept, StartWrite,
                FinishWrite, Get
  <2>4. \A b \in Calls : pc'[b] \in Loaded => pc'[b] = pc[b] /\ got'[b] = got[b]
    BY <1>1, <2>2, <2>3
  <2> QED BY <2>1, <2>4 DEF Quiet
<1>8. CASE AllAnswered
  BY <1>2, <1>8 DEF AllAnswered
<1> QED BY <1>2, <1>3, <1>4, <1>5, <1>6, <1>7, <1>8 DEF ApiNext, Serve, Handle

\* What Deliver hands out is what the load found.
LEMMA DeliveredResults ==
    ASSUME ReadInv, ControlInv, NEW c \in Calls, Deliver(c)
    PROVE  /\ input[c] # NoInput /\ got[c] \in GoodResults[Key(c).id] /\ Key(c) \in Keys
           /\ \A b \in Calls :
                  \/ pc'[b] = pc[b] /\ got'[b] = got[b] /\ b # c
                  \/ /\ Key(b) = Key(c) /\ input[b] # NoInput /\ pc'[b] = "got"
                     /\ pc[b] \in Loaded \cup {"waiting"}
                     /\ got'[b].view = got[c].view /\ got'[b].err = got[c].err
<1> DEFINE k == Key(c)
           all == {c} \cup {b \in Calls : pc[b] = "waiting" /\ Key(b) = k}
           result(err) == [view |-> got[c].view, err |-> Returned(err)]
<1>1. pc[c] \in Loaded /\ InputOK
  BY DEF Deliver, ControlInv
<1>2. input[c] # NoInput /\ k \in Keys /\ k = input[c].order
  BY <1>1, KeysName DEF InputOK, Handling
<1>3. got[c] \in GoodResults[k.id]
  BY <1>1, <1>2 DEF ReadInv
<1>4. k.id \in OrderIds
  BY <1>2, KeysName
<1>5. PICK err \in {got[c].err} \cup (IF got[c].err = Nil THEN {} ELSE {Flatten(got[c].err)}) :
          got' = [b \in Calls |-> IF b \in all THEN result(err) ELSE got[b]]
  BY DEF Deliver
<1>6. Returned(err) = got[c].err
  <2>1. got[c].err \in {Nil, NotFound, DbError}
    BY <1>3, <1>4 DEF GoodResults
  <2> QED BY <1>5, <2>1, ErrorsReturned
<1>7. pc' = [b \in Calls |-> IF b \in all THEN "got" ELSE pc[b]]
  BY DEF Deliver
<1>8. \A b \in all : Key(b) = k /\ input[b] # NoInput /\ pc[b] \in Loaded \cup {"waiting"}
  BY <1>1, <1>2 DEF InputOK, Handling
<1>9. c \in all
  OBVIOUS
<1>10. \A e : result(e).view = got[c].view /\ result(e).err = Returned(e)
  OBVIOUS
<1> HIDE DEF all, k, result
<1>11. \A b \in Calls : \/ pc'[b] = pc[b] /\ got'[b] = got[b] /\ b # c
                        \/ /\ b \in all /\ pc'[b] = "got"
                           /\ got'[b].view = got[c].view /\ got'[b].err = got[c].err
  BY <1>5, <1>6, <1>7, <1>9, <1>10
<1> QED BY <1>2, <1>3, <1>8, <1>11 DEF k

\* What comes from the database is stored in both levels.
LEMMA DeliverStores ==
    ASSUME ReadInv, ControlInv, AloneWithCache, NEW c \in Calls, Deliver(c)
    PROVE  /\ pc[c] \in Loaded /\ input' = input /\ UNCHANGED storeVars
           /\ cache' = IF got[c].err = Nil THEN [cache EXCEPT ![Key(c)] = got[c].view]
                       ELSE cache
           /\ redis' = IF OwnL2 /\ pc[c] = "queried" /\ got[c].err = Nil
                       THEN [redis EXCEPT ![Key(c)] = got[c].view] ELSE redis
<1> QED BY DEF Deliver, StoreL2, AloneWithCache, OwnL2

\* Every step keeps the levels in step.
LEMMA LevelsStep ==
    ASSUME LevelsInv, FlightInv, ReadInv, ControlInv, AloneWithCache, [ApiNext]_allVars
    PROVE  LevelsInv'
<1>1. /\ DOMAIN pc = Calls /\ DOMAIN cache = Keys /\ DOMAIN got = Calls
      /\ DOMAIN redis = Keys /\ InputOK
  BY DEF ControlInv, PcOK, ReadInv
<1>2. /\ ~ SharedL2' /\ (OwnL2' <=> OwnL2) /\ (OwnL2 => HasCache')
      /\ \A k \in Keys : redis[k] # NoView => OwnL2
  <2>1. setup' = setup
    BY DEF ApiNext, allVars, apiVars
  <2>2. ~ SharedL2 /\ (OwnL2 => HasCache) /\ \A k \in Keys : redis[k] # NoView => OwnL2
    BY DEF LevelsInv
  <2> QED BY <2>1, <2>2 DEF SharedL2, OwnL2, HasCache
<1>3. CASE Quiet
  <2>1. \A k \in Keys : /\ redis'[k] # NoView => OwnL2'
                        /\ cache'[k] # NoView => redis'[k] \in {NoView, cache'[k]}
    BY <1>2, <1>3 DEF Quiet, LevelsInv
  <2>2. ASSUME NEW b \in Calls, pc'[b] = "fetched"
        PROVE  got'[b].err = Nil /\ redis'[Key(b)'] \in {NoView, got'[b].view}
    <3>1. pc[b] = "fetched" /\ got'[b] = got[b] /\ Key(b)' = Key(b)
      BY <1>3, <2>2 DEF Quiet, Key
    <3>2. Key(b) \in Keys
      BY <1>1, <3>1, KeysName DEF InputOK, Handling
    <3>3. redis'[Key(b)] \in {redis[Key(b)], NoView}
      BY <1>3, <3>2 DEF Quiet
    <3> QED BY <3>1, <3>3 DEF LevelsInv
  <2> QED BY <1>2, <2>1, <2>2 DEF LevelsInv
<1>4. ASSUME NEW c \in Calls, HitL2(c) \/ Query(c) \/ FailRead(c) PROVE LevelsInv'
  <2>1. /\ cache' = cache /\ redis' = redis /\ input' = input
        /\ \A b \in Calls \ {c} : pc'[b] = pc[b] /\ got'[b] = got[b]
    BY <1>1, <1>4 DEF HitL2, Query, FailRead, Get
  <2>2. pc'[c] = "fetched" => got'[c].err = Nil /\ redis[Key(c)] = got'[c].view
    BY <1>1, <1>4 DEF HitL2, Query, FailRead, Get, InL2, LevelsInv
  <2> QED BY <1>2, <2>1, <2>2 DEF LevelsInv, Key
<1>5. ASSUME NEW c \in Calls, Deliver(c) PROVE LevelsInv'
  <2> DEFINE k == Key(c)
  <2>1. /\ pc[c] \in Loaded /\ input' = input
        /\ cache' = IF got[c].err = Nil THEN [cache EXCEPT ![k] = got[c].view] ELSE cache
        /\ redis' = IF OwnL2 /\ pc[c] = "queried" /\ got[c].err = Nil
                    THEN [redis EXCEPT ![k] = got[c].view] ELSE redis
    BY <1>5, DeliverStores
  <2>2. k \in Keys /\ flight[k] = {c}
    BY <1>1, <2>1, KeysName DEF FlightInv, InputOK, Handling
  <2>3. \A x \in Keys \ {k} : cache'[x] = cache[x] /\ redis'[x] = redis[x]
    BY <1>1, <2>1
  <2>4. /\ redis'[k] # NoView => OwnL2
        /\ cache'[k] # NoView => redis'[k] \in {NoView, cache'[k]}
    <3>1. CASE got[c].err = Nil /\ pc[c] = "queried"
      BY <1>1, <1>2, <2>1, <2>2, <3>1
    <3>2. CASE pc[c] = "fetched"
      BY <1>1, <1>2, <2>1, <2>2, <3>2 DEF LevelsInv
    <3>3. CASE got[c].err # Nil
      BY <2>1, <2>2, <3>3 DEF LevelsInv
    <3> QED BY <2>1, <3>1, <3>2, <3>3
  <2>5. ASSUME NEW b \in Calls, pc'[b] = "fetched"
        PROVE  got'[b].err = Nil /\ redis'[Key(b)'] \in {NoView, got'[b].view}
    <3>1. pc[b] = "fetched" /\ got'[b] = got[b] /\ b # c
      BY <1>5, <2>5, DeliveredResults
    <3>2. Key(b)' = Key(b) /\ Key(b) \in Keys /\ flight[Key(b)] = {b}
      BY <1>1, <2>1, <3>1, KeysName DEF FlightInv, InputOK, Handling, Key
    <3>3. Key(b) # k
      BY <2>2, <3>1, <3>2
    <3> QED BY <2>3, <3>1, <3>2, <3>3 DEF LevelsInv
  <2> HIDE DEF k
  <2> QED BY <1>2, <2>2, <2>3, <2>4, <2>5 DEF LevelsInv
<1> QED BY <1>3, <1>4, <1>5, QuietSteps

\* Queries, cached views and the tables keep what they are worth.
LEMMA FreshFrame ==
    ASSUME NEW k \in Keys, NEW rank \in 0..2, Fresh(k, rank),
           StoreInv, StoreInv', [StoreNext]_storeVars,
           Quiet
    PROVE  Fresh(k, rank)'
<1>1. k.id \in OrderIds
  BY KeysName
<1>2. RankOf[k.id] <= RankOf'[k.id] /\ RankOf[k.id] \in 0..2 /\ RankOf'[k.id] \in 0..2
  BY <1>1, TablesAdvance
<1>3. rank <= Rank(CurrentStatus(k.id))'
  BY <1>1, <1>2 DEF Fresh, RankOf
<1>4. \A v \in {cache'[k], redis'[k]} : v # NoView => rank <= Rank(v.status)
  BY DEF Fresh, Quiet
<1>5. ASSUME NEW b \in Calls, pc'[b] \in Loaded, Key(b)' = k
      PROVE  /\ got'[b].err = Nil => rank <= Rank(got'[b].view.status)
             /\ got'[b].err = NotFound => rank = 0
  BY <1>5 DEF Fresh, Quiet, Key
<1> QED BY <1>3, <1>4, <1>5 DEF Fresh

\* A query returns the status of now, later than all that is known, and Redis a
\* fresh copy.
LEMMA QueryKeepsFresh ==
    ASSUME NEW k \in Keys, NEW rank \in 0..2, Fresh(k, rank),
           ReadInv, ControlInv, StoreInv, LevelsInv, NEW c \in Calls,
           Query(c) \/ HitL2(c) \/ FailRead(c)
    PROVE  Fresh(k, rank)'
<1>1. k.id \in OrderIds /\ DOMAIN got = Calls /\ DOMAIN pc = Calls
  BY KeysName DEF ReadInv, ControlInv, PcOK
<1>2. /\ input' = input /\ cache' = cache /\ redis' = redis /\ UNCHANGED storeVars
      /\ \A b \in Calls \ {c} : pc'[b] = pc[b] /\ got'[b] = got[b]
  BY <1>1 DEF Query, HitL2, FailRead, Get
<1>3. CurrentStatus(k.id)' = CurrentStatus(k.id)
  BY <1>2 DEF storeVars, CurrentStatus, HistoryOf, LastRow
<1>4. ASSUME pc'[c] \in Loaded, Key(c) = k
      PROVE  /\ got'[c].err = Nil => rank <= Rank(got'[c].view.status)
             /\ got'[c].err = NotFound => rank = 0
  <2>1. CASE Query(c)
    <3>1. got'[c] = Load(k.id)
      BY <1>1, <1>4, <2>1 DEF Query
    <3>2. rank <= RankOf[k.id]
      BY <1>1 DEF Fresh, RankOf
    <3> QED BY <1>1, <3>1, <3>2, LoadIsTrue
  <2>2. CASE FailRead(c)
    <3>1. got'[c].err = DbError
      BY <1>1, <2>2 DEF FailRead, Get, Failed
    <3> QED BY <3>1, ErrorsReturned
  <2>3. CASE HitL2(c)
    <3>1. got'[c].view = redis[k] /\ redis[k] # NoView /\ got'[c].err = Nil
      BY <1>1, <1>4, <2>3 DEF HitL2, InL2, LevelsInv
    <3> QED BY <3>1, ErrorsReturned DEF Fresh
  <2> QED BY <2>1, <2>2, <2>3
<1>5. ASSUME NEW b \in Calls, pc'[b] \in Loaded, Key(b)' = k
      PROVE  /\ got'[b].err = Nil => rank <= Rank(got'[b].view.status)
             /\ got'[b].err = NotFound => rank = 0
  <2>1. Key(b) = k
    BY <1>2, <1>5 DEF Key
  <2> QED BY <1>2, <1>4, <1>5, <2>1 DEF Fresh
<1> QED BY <1>2, <1>3, <1>5 DEF Fresh

\* What is delivered is cached, as fresh as the load found it.
LEMMA DeliverKeepsFresh ==
    ASSUME NEW k \in Keys, NEW rank \in 0..2, Fresh(k, rank),
           ReadInv, ControlInv, AloneWithCache, NEW c \in Calls, Deliver(c)
    PROVE  Fresh(k, rank)'
<1>1. /\ pc[c] \in Loaded /\ input' = input /\ UNCHANGED storeVars
      /\ cache' = IF got[c].err = Nil THEN [cache EXCEPT ![Key(c)] = got[c].view] ELSE cache
      /\ redis' \in {redis, IF got[c].err = Nil THEN [redis EXCEPT ![Key(c)] = got[c].view]
                            ELSE redis}
  BY DeliverStores
<1>2. DOMAIN cache = Keys /\ DOMAIN redis = Keys
  BY DEF ReadInv
<1>3. CurrentStatus(k.id)' = CurrentStatus(k.id)
  BY <1>1 DEF storeVars, CurrentStatus, HistoryOf, LastRow
<1>4. \A v \in {cache'[k], redis'[k]} : v # NoView => rank <= Rank(v.status)
  <2>1. CASE got[c].err = Nil /\ Key(c) = k
    BY <1>1, <1>2, <2>1 DEF Fresh
  <2>2. CASE ~ (got[c].err = Nil /\ Key(c) = k)
    BY <1>1, <1>2, <2>2 DEF Fresh
  <2> QED BY <2>1, <2>2
<1>5. ASSUME NEW b \in Calls, pc'[b] \in Loaded, Key(b)' = k
      PROVE  /\ got'[b].err = Nil => rank <= Rank(got'[b].view.status)
             /\ got'[b].err = NotFound => rank = 0
  <2>1. pc[b] \in Loaded /\ got'[b] = got[b] /\ Key(b) = k
    BY <1>1, <1>5, DeliveredResults DEF Key
  <2> QED BY <2>1 DEF Fresh
<1> QED BY <1>1, <1>3, <1>4, <1>5 DEF Fresh

\* Once fresh, always fresh: nothing old comes up later.
LEMMA FreshStays ==
    ASSUME NEW k \in Keys, NEW rank \in 0..2, Fresh(k, rank),
           ReadInv, ControlInv, StoreInv, StoreInv', [StoreNext]_storeVars,
           LevelsInv, AloneWithCache, [ApiNext]_allVars
    PROVE  Fresh(k, rank)'
<1>1. CASE Quiet
  BY <1>1, FreshFrame
<1>2. ASSUME NEW c \in Calls, HitL2(c) \/ Query(c) \/ FailRead(c) \/ Deliver(c)
      PROVE  Fresh(k, rank)'
  BY <1>2, QueryKeepsFresh, DeliverKeepsFresh
<1> QED BY <1>1, <1>2, QuietSteps

\* What b's request knows, it knew before.
Kept(b) ==
    /\ input'[b] = input[b]
    /\ input[b].kind = "get" /\ pc'[b] \in {"got", "done"} =>
           pc[b] \in {"got", "done"} /\ got'[b] = got[b]

\* A request that is kept brings nothing new.
LEMMA KeptIsKnown ==
    ASSUME NEW b \in Calls, Kept(b), NEW k, NEW rank, Known(b, k, rank)'
    PROVE  Known(b, k, rank)
<1> QED BY DEF Kept, Known, Key


\* Only a read that ends, or one that arrives, brings something new.
LEMMA OthersKeep ==
    ASSUME ReadInv, ControlInv, NEW b \in Calls,
           \/ UNCHANGED allVars \/ Crash \/ \E x \in Keys : Expire(x)
           \/ \E c \in Calls : \/ Database(c) \/ Lead(c) \/ Join(c) \/ HitL2(c) \/ Query(c)
                               \/ FinishGet(c) \/ CheckAccept(c) \/ StartWrite(c) \/ FinishWrite(c)
           \/ \E c \in Calls \ {b} : FailRead(c) \/ Receive(c) \/ ReadDirect(c) \/ Hit(c)
    PROVE  Kept(b)
<1>1. DOMAIN pc = Calls /\ DOMAIN input = Calls /\ DOMAIN cache = Keys /\ DOMAIN got = Calls
  BY DEF ControlInv, PcOK, InputOK, ReadInv
<1>2. CASE UNCHANGED allVars \/ (\E c \in Calls : Database(c)) \/ \E x \in Keys : Expire(x)
  BY <1>2 DEF Kept, allVars, apiVars, Database, Expire
<1>3. CASE Crash
  BY <1>3 DEF Kept, Crash, Handling
<1>4. ASSUME NEW c \in Calls, Lead(c) \/ Join(c) \/ HitL2(c) \/ Query(c) \/ StartWrite(c)
      PROVE  Kept(b)
  <2>1. PICK at \in Loading \cup {"waiting", "inserting"} : pc' = [pc EXCEPT ![c] = at]
    BY <1>4 DEF Lead, Join, HitL2, Query, StartWrite
  <2>2. input' = input /\ (got' = got \/ \E r : got' = [got EXCEPT ![c] = r])
    BY <1>4 DEF Lead, Join, HitL2, Query, StartWrite
  <2> QED BY <1>1, <2>1, <2>2 DEF Kept
<1>5. ASSUME NEW c \in Calls, FinishGet(c) PROVE Kept(b)
  BY <1>1, <1>5 DEF Kept, FinishGet, Answer
<1>6. ASSUME NEW c \in Calls, CheckAccept(c) \/ FinishWrite(c) PROVE Kept(b)
  <2>1. input[c].kind # "get"
    BY <1>6 DEF CheckAccept, FinishWrite, ControlInv, InputOK
  <2>2. input' = input /\ pc' \in {[pc EXCEPT ![c] = "done"], [pc EXCEPT ![c] = "insert"]}
    BY <1>6 DEF CheckAccept, FinishWrite, Answer
  <2>3. got' = got \/ got' = [got EXCEPT ![c] = NoResult]
    BY <1>6 DEF CheckAccept, FinishWrite
  <2> QED BY <1>1, <2>1, <2>2, <2>3 DEF Kept
<1>7. ASSUME NEW c \in Calls \ {b}, FailRead(c) \/ ReadDirect(c) \/ Hit(c) PROVE Kept(b)
  <2>1. /\ input' = input
        /\ \E at : pc' = [pc EXCEPT ![c] = at]
        /\ \E r : got' = [got EXCEPT ![c] = r]
    BY <1>7 DEF FailRead, ReadDirect, Hit, Get
  <2> QED BY <1>1, <2>1 DEF Kept
<1>8. ASSUME NEW c \in Calls \ {b}, Receive(c) PROVE Kept(b)
  <2>1. ASSUME NEW err, Reject(c, err)
        PROVE  got' = got /\ input'[b] = input[b] /\ pc'[b] = pc[b]
    BY <1>1, <1>8, <2>1 DEF Reject, Answer
  <2>2. ASSUME NEW kind, NEW order, NEW who, NEW seen, NEW at,
               Pass(c, kind, order, who, seen, at)
        PROVE  got' = got /\ input'[b] = input[b] /\ pc'[b] = pc[b]
    BY <1>1, <1>8, <2>2 DEF Pass
  <2>3. got' = got /\ input'[b] = input[b] /\ pc'[b] = pc[b]
    BY <1>8, <2>1, <2>2 DEF Receive, PostOrder, GetOrder, AcceptOrder
  <2> QED BY <2>3 DEF Kept
<1> QED BY <1>2, <1>3, <1>4, <1>5, <1>6, <1>7, <1>8

\* The status last shown under a key is known.
LEMMA ShownIsKnown ==
    ASSUME WriteInv, ReadInv, ControlInv, NEW k, Shown(k) > 0
    PROVE  \E b \in Calls : Known(b, k, Shown(k))
<1> DEFINE reads == {b \in Calls : pc[b] = "done" /\ reply[b].status = 200
                                     /\ input[b].order = k}
<1>1. ASSUME NEW b \in reads
      PROVE  /\ b \in Calls /\ pc[b] = "done" /\ input[b] # NoInput
             /\ input[b].kind = "get" /\ Key(b) = k
             /\ got[b].view \in Views
  <2>1. b \in Calls /\ pc[b] = "done" /\ reply[b].status = 200 /\ Key(b) = k
    BY DEF Key
  <2>2. ShownOK(b)
    BY <2>1 DEF WriteInv, AnswerOK, CreatedOK, ConflictOK, RefusedOK
  <2>3. input[b].order.id \in OrderIds
    BY <2>1, <2>2, KeysName DEF ShownOK, ControlInv
  <2>4. got[b] \in GoodResults[input[b].order.id] /\ got[b].err = Nil
    BY <2>1, <2>2 DEF ShownOK, ReadInv
  <2>5. got[b].view \in GoodViews[input[b].order.id]
    BY <2>3, <2>4, ErrorsReturned, ResultsAre
  <2> QED BY <2>1, <2>2, <2>3, <2>5 DEF ShownOK, GoodViews
<1>2. \A v \in Views : v # NoView /\ v.status \in {"requested", "accepted"}
  BY DEF Views, NoView
<1>3. Shown(k) = IF \E b \in reads : got[b].view.status = "accepted" THEN 2
                 ELSE IF reads # {} THEN 1 ELSE 0
  BY DEF Shown
<1>4. Rank("accepted") = 2 /\ Rank("requested") = 1
  BY DEF Rank
<1> HIDE DEF reads
<1>5. CASE \E b \in reads : got[b].view.status = "accepted"
  <2>1. PICK b \in reads : got[b].view.status = "accepted"
    BY <1>5
  <2>2. Known(b, k, 2)
    BY <1>1, <1>2, <1>4, <2>1 DEF Known
  <2> QED BY <1>1, <1>3, <1>5, <2>2
<1>6. CASE ~ \E b \in reads : got[b].view.status = "accepted"
  <2>1. PICK b \in reads : TRUE
    BY <1>3, <1>6
  <2>2. got[b].view.status = "requested" /\ got[b].view # NoView
    BY <1>1, <1>2, <1>6
  <2>3. Known(b, k, 1)
    BY <1>1, <1>4, <2>2 DEF Known
  <2> QED BY <1>1, <1>3, <1>6, <2>1, <2>3
<1> QED BY <1>5, <1>6

\* A read that arrives is promised what was shown, nothing else.
LEMMA ReceiveIsKnown ==
    ASSUME WriteInv, ReadInv, ControlInv, NEW c \in Calls, Receive(c),
           NEW k, NEW rank \in 0..2, Known(c, k, rank)'
    PROVE  \E b \in Calls : Known(b, k, rank)
<1>1. DOMAIN pc = Calls /\ DOMAIN input = Calls
  BY DEF ControlInv, PcOK, InputOK
<1>2. ASSUME NEW err, Reject(c, err) PROVE FALSE
  <2>1. pc[c] = "new" /\ input' = input
    BY <1>2 DEF Reject, Receive, PostOrder, GetOrder, AcceptOrder
  <2> QED BY <2>1 DEF Known, ControlInv, InputOK
<1>3. ASSUME NEW kind, NEW order, NEW who, NEW seen, NEW at \in {"read", "insert"},
             Pass(c, kind, order, who, seen, at)
      PROVE  kind = "get" /\ k = order /\ rank = seen /\ rank > 0
  <2> DEFINE in == [kind |-> kind, order |-> order, who |-> who, seen |-> seen]
  <2>1. input'[c] = in /\ pc'[c] = at
    BY <1>1, <1>3 DEF Pass
  <2>2. in.kind = kind /\ in.order = order /\ in.seen = seen
    OBVIOUS
  <2> HIDE DEF in
  <2> QED BY <2>1, <2>2 DEF Known, Key
<1>4. GetOrder(c)
  <2>1. CASE PostOrder(c)
    <3>1. ASSUME NEW o, NEW r, Pass(c, "request", o, r, 0, "insert") PROVE FALSE
      BY <1>3, <3>1
    <3> QED BY <1>2, <2>1, <3>1 DEF PostOrder
  <2>2. CASE AcceptOrder(c)
    <3>1. ASSUME NEW o, NEW r, NEW at \in {"read", "insert"}, Pass(c, "accept", o, r, 0, at)
          PROVE  FALSE
      BY <1>3, <3>1
    <3> QED BY <1>2, <2>2, <3>1 DEF AcceptOrder
  <2> QED BY <2>1, <2>2 DEF Receive
<1>5. PICK o, w : Pass(c, "get", o, w, Shown(o), "read")
  BY <1>2, <1>4 DEF GetOrder
<1>6. k = o /\ rank = Shown(o) /\ rank > 0
  BY <1>3, <1>5
<1> QED BY <1>6, ShownIsKnown

\* No one else loads what c has just found.
LEMMA NobodyLoads ==
    ASSUME FlightInv, NEW k \in Keys,
           \/ cache[k] # NoView \/ ~ HasCache
           \/ \E c \in Calls : pc[c] \in Loaded /\ Key(c) = k /\ pc'[c] \notin Loaded,
           input' = input, \A b \in Calls : pc'[b] \in Loaded => pc[b] \in Loaded
    PROVE  \A b \in Calls : ~ (pc'[b] \in Loaded /\ Key(b)' = k)
<1> SUFFICES ASSUME NEW b \in Calls, pc'[b] \in Loaded, Key(b)' = k PROVE FALSE
  OBVIOUS
<1>1. pc[b] \in Loaded /\ Key(b) = k
  BY DEF Key
<1>2. flight[k] = {b} /\ HasCache
  BY <1>1 DEF FlightInv
<1>3. cache[k] = NoView
  BY <1>2 DEF FlightInv
<1>4. \A c \in Calls : pc[c] \in Loaded /\ Key(c) = k => c = b
  BY <1>2 DEF FlightInv
<1> QED BY <1>2, <1>3, <1>4

\* What a read returns is fresh.
LEMMA FoundIsFresh ==
    ASSUME LevelsInv, AloneWithCache, FlightInv, ReadInv, ControlInv, StoreInv,
           NEW c \in Calls,
           ReadDirect(c) \/ Hit(c) \/ Deliver(c),
           NEW b \in Calls, ~ Kept(b), NEW k \in Keys, NEW rank \in 0..2,
           Known(b, k, rank)', ~ Known(b, k, rank)
    PROVE  Fresh(k, rank)'
<1>1. DOMAIN pc = Calls /\ DOMAIN cache = Keys /\ DOMAIN got = Calls /\ InputOK
  BY DEF ControlInv, PcOK, ReadInv
<1>2. input' = input /\ UNCHANGED storeVars
  BY DEF ReadDirect, Hit, Deliver
<1>3. /\ input[b] # NoInput /\ Key(b) = k /\ got'[b].view # NoView
      /\ rank = Rank(got'[b].view.status)
  BY <1>2 DEF Known, Key
<1>4. CurrentStatus(k.id)' = CurrentStatus(k.id)
  BY <1>2 DEF storeVars, CurrentStatus, HistoryOf, LastRow
<1>5. k.id \in OrderIds
  BY KeysName
<1>6. \A v \in GoodViews[k.id] : Rank(v.status) <= Rank(CurrentStatus(k.id))
  BY <1>5, GoodMeans
<1>7. CASE ReadDirect(c) \/ Hit(c)
  <2>1. PICK r : got' = [got EXCEPT ![c] = r] /\ pc' = [pc EXCEPT ![c] = "got"]
    BY <1>7 DEF ReadDirect, Hit, Get
  <2>2. b = c
    BY <1>1, <1>2, <2>1 DEF Kept
  <2>3. cache' = cache /\ redis' = redis
    BY <1>7 DEF ReadDirect, Hit
  <2>4. /\ cache[k] # NoView \/ ~ HasCache
        /\ ~ HasCache => cache[k] = NoView /\ redis[k] = NoView
    BY <1>3, <1>7, <2>2 DEF ReadDirect, Hit, FlightInv, LevelsInv
  <2>5. \A x \in Calls : pc'[x] \in Loaded => pc[x] \in Loaded
    BY <1>1, <2>1
  <2>6. \A x \in Calls : ~ (pc'[x] \in Loaded /\ Key(x)' = k)
    BY <1>2, <2>4, <2>5, NobodyLoads
  <2>7. CASE ReadDirect(c)
    <3>1. got'[c] = Load(k.id) /\ ~ HasCache
      BY <1>1, <1>3, <2>2, <2>7 DEF ReadDirect, Get
    <3>2. Load(k.id).err = Nil
      BY <1>3, <2>2, <3>1 DEF Load
    <3>3. rank = RankOf[k.id]
      BY <1>3, <1>5, <2>2, <3>1, <3>2, LoadIsTrue
    <3> QED BY <1>4, <1>5, <2>3, <2>4, <2>6, <3>1, <3>3 DEF Fresh, RankOf
  <2>8. CASE Hit(c)
    <3>1. got'[c].view = cache[k] /\ cache[k] # NoView
      BY <1>1, <1>3, <2>2, <2>8 DEF Hit, Get
    <3>2. cache[k] \in GoodViews[k.id] /\ redis[k] \in {NoView, cache[k]}
      BY <3>1 DEF ReadInv, LevelsInv
    <3> QED BY <1>3, <1>4, <1>6, <2>2, <2>3, <2>6, <3>1, <3>2 DEF Fresh
  <2> QED BY <1>7, <2>7, <2>8
<1>8. CASE Deliver(c)
  <2>1. /\ Key(b) = Key(c) /\ got'[b].view = got[c].view
        /\ got[c] \in GoodResults[k.id]
    BY <1>2, <1>3, <1>8, DeliveredResults DEF Kept
  <2>2. /\ pc[c] \in Loaded /\ pc'[c] \notin Loaded
        /\ \A x \in Calls : pc'[x] \in Loaded => pc[x] \in Loaded
    BY <1>8 DEF Deliver
  <2>3. \A x \in Calls : ~ (pc'[x] \in Loaded /\ Key(x)' = k)
    BY <1>2, <1>3, <2>1, <2>2, NobodyLoads
  <2>4. got[c].err = Nil /\ got[c].view \in GoodViews[k.id]
    BY <1>3, <1>5, <2>1 DEF GoodResults
  <2>5. cache'[k] = got[c].view /\ redis'[k] \in {NoView, got[c].view}
    <3>1. DOMAIN redis = Keys /\ k = Key(c) /\ (~ OwnL2 => redis[k] = NoView)
      BY <1>3, <2>1 DEF ReadInv, LevelsInv
    <3>2. pc[c] = "fetched" => redis[k] \in {NoView, got[c].view}
      BY <3>1 DEF LevelsInv
    <3> QED BY <1>1, <1>8, <2>2, <2>4, <3>1, <3>2, DeliverStores
  <2> QED BY <1>3, <1>4, <1>6, <2>1, <2>3, <2>4, <2>5 DEF Fresh
<1> QED BY <1>7, <1>8

\* Every step keeps what is known fresh.
LEMMA OrderStep ==
    ASSUME OrderInv, LevelsInv, AloneWithCache, FlightInv, WriteInv, ReadInv, ControlInv,
           StoreInv, StoreInv', [StoreNext]_storeVars, [ApiNext]_allVars
    PROVE  OrderInv'
<1> SUFFICES ASSUME NEW b \in Calls, NEW k \in Keys, NEW rank \in 0..2,
                    Known(b, k, rank)'
             PROVE  Fresh(k, rank)'
  BY DEF OrderInv
<1>1. (\E a \in Calls : Known(a, k, rank)) => Fresh(k, rank)'
  BY FreshStays DEF OrderInv
<1>2. CASE Kept(b)
  BY <1>1, <1>2, KeptIsKnown
<1>3. CASE ~ Kept(b)
  <2>1. \E c \in Calls : Receive(c) \/ FailRead(c) \/ ReadDirect(c) \/ Hit(c) \/ Deliver(c)
    BY <1>3, OthersKeep DEF ApiNext, Serve, Handle, AllAnswered
  <2>2. ASSUME NEW c \in Calls, Receive(c) PROVE Fresh(k, rank)'
    <3>1. b = c
      BY <1>3, <2>2, OthersKeep
    <3> QED BY <1>1, <2>2, <3>1, ReceiveIsKnown
  <2>3. ASSUME NEW c \in Calls, FailRead(c) PROVE Fresh(k, rank)'
    <3>1. b = c
      BY <1>3, <2>3, OthersKeep
    <3>2. input' = input /\ got'[c].view = NoView
      BY <2>3 DEF FailRead, Get, Failed, ReadInv
    <3>3. Known(b, k, rank)
      BY <3>1, <3>2 DEF Known, Key
    <3> QED BY <1>1, <3>3
  <2>4. ASSUME NEW c \in Calls, ReadDirect(c) \/ Hit(c) \/ Deliver(c) PROVE Fresh(k, rank)'
    BY <1>1, <1>3, <2>4, FoundIsFresh
  <2> QED BY <2>1, <2>2, <2>3, <2>4
<1> QED BY <1>2, <1>3

\* What a read was promised when it arrived is fresh.
LEMMA PromiseIsFresh ==
    ASSUME OrderInv, ControlInv, NEW b \in Calls, input[b] # NoInput, input[b].kind = "get"
    PROVE  /\ Key(b) \in Keys /\ Key(b).id \in OrderIds /\ input[b].seen \in 0..2
           /\ input[b].seen > 0 => Fresh(Key(b), input[b].seen)
<1>1. input[b] \in Inputs /\ Key(b) \in Keys /\ Key(b).id \in OrderIds
  BY KeysName DEF ControlInv
<1>2. input[b].seen \in 0..2
  BY <1>1 DEF Inputs
<1>3. input[b].seen > 0 => Known(b, Key(b), input[b].seen)
  BY DEF Known
<1> QED BY <1>1, <1>2, <1>3 DEF OrderInv

\* A read that ends keeps its promise.
LEMMA FoundAsSeen ==
    ASSUME OrderInv, FlightInv, WriteInv, ReadInv, ControlInv, StoreInv, NEW c \in Calls,
           ReadDirect(c) \/ Hit(c) \/ Deliver(c) \/ FailRead(c),
           NEW b \in Calls, ~ Kept(b), input[b] # NoInput, input[b].kind = "get",
           pc'[b] \in {"got", "done"}
    PROVE  /\ got'[b].err = Nil => Rank(got'[b].view.status) >= input[b].seen
           /\ got'[b].err = NotFound => input[b].seen = 0
           /\ reply'[b].status = 0
<1> DEFINE k == Key(b)
           seen == input[b].seen
<1>1. DOMAIN pc = Calls /\ DOMAIN cache = Keys /\ DOMAIN got = Calls /\ InputOK
  BY DEF ControlInv, PcOK, ReadInv
<1>2. /\ k \in Keys /\ k.id \in OrderIds /\ seen \in 0..2
      /\ seen > 0 => Fresh(k, seen)
  BY PromiseIsFresh
<1>3. input' = input /\ reply' = reply
  BY DEF ReadDirect, Hit, Deliver, FailRead
<1>4. \A v \in Views : Rank(v.status) \in 1..2
  BY DEF Views, Rank
<1>5. GoodViews[k.id] \subseteq Views
  BY <1>2 DEF GoodViews
<1> HIDE DEF k, seen
<1>6. CASE ReadDirect(c) \/ Hit(c) \/ FailRead(c)
  <2>1. /\ \E r : got' = [got EXCEPT ![c] = r]
        /\ \E at : pc' = [pc EXCEPT ![c] = at]
    BY <1>6 DEF ReadDirect, Hit, FailRead, Get
  <2>2. b = c
    BY <1>1, <1>3, <2>1 DEF Kept
  <2>3. pc[c] # "done" /\ reply'[b].status = 0
    BY <1>3, <1>6, <2>2 DEF ReadDirect, Hit, FailRead, WriteInv
  <2>4. CASE ReadDirect(c)
    <3>1. got'[c] = Load(k.id)
      BY <1>1, <2>2, <2>4 DEF ReadDirect, Get, k
    <3>2. /\ Load(k.id).err = Nil => Rank(Load(k.id).view.status) = RankOf[k.id]
          /\ Load(k.id).err = NotFound => RankOf[k.id] = 0
          /\ RankOf[k.id] \in 0..2
      <4>1. RankOf[k.id] \in 0..2
        BY <1>2 DEF RankOf, Rank, CurrentStatus
      <4> QED BY <1>2, <4>1, LoadIsTrue
    <3>3. RankOf[k.id] >= seen
      BY <1>2, <3>2 DEF Fresh, RankOf
    <3> QED BY <1>2, <2>2, <2>3, <3>1, <3>2, <3>3 DEF seen
  <2>5. CASE Hit(c)
    <3>1. got'[c].view = cache[k] /\ got'[c].err = Nil /\ cache[k] # NoView
      BY <1>1, <2>2, <2>5 DEF Hit, Get, k
    <3>2. Rank(cache[k].status) \in 1..2
      BY <1>2, <1>4, <1>5, <3>1 DEF ReadInv
    <3>3. Rank(cache[k].status) >= seen
      BY <1>2, <3>1, <3>2 DEF Fresh
    <3> QED BY <2>2, <2>3, <3>1, <3>3, ErrorsReturned DEF seen
  <2>6. CASE FailRead(c)
    <3>1. got'[c].err = DbError
      BY <1>1, <2>6 DEF FailRead, Get, Failed
    <3> QED BY <2>2, <2>3, <3>1, ErrorsReturned
  <2> QED BY <1>6, <2>4, <2>5, <2>6
<1>7. CASE Deliver(c)
  <2>1. /\ Key(c) = k /\ pc[b] # "done" /\ pc[c] \in Loaded
        /\ got'[b].view = got[c].view /\ got'[b].err = got[c].err
        /\ got[c] \in GoodResults[k.id]
    <3>1. pc[c] \in Loaded
      BY <1>7 DEF Deliver
    <3>2. ~ (pc'[b] = pc[b] /\ got'[b] = got[b])
      BY <1>3 DEF Kept
    <3>3. /\ got[c] \in GoodResults[Key(c).id]
          /\ Key(b) = Key(c) /\ pc[b] \in Loaded \cup {"waiting"}
          /\ got'[b].view = got[c].view /\ got'[b].err = got[c].err
      BY <1>7, <3>2, DeliveredResults
    <3> QED BY <3>1, <3>3 DEF k
  <2>2. reply'[b].status = 0
    BY <1>3, <2>1 DEF WriteInv
  <2>3. got[c].err = Nil => Rank(got[c].view.status) \in 1..2
    <3>1. got[c].err = Nil => got[c].view \in GoodViews[k.id]
      BY <1>2, <2>1, ErrorsReturned, ResultsAre
    <3> QED BY <1>4, <1>5, <3>1
  <2>4. /\ got[c].err = Nil => Rank(got[c].view.status) >= seen
        /\ got[c].err = NotFound => seen = 0
    BY <1>2, <2>1, <2>3 DEF Fresh
  <2> QED BY <2>1, <2>2, <2>4 DEF seen
<1> QED BY <1>6, <1>7

\* Every step keeps the promises.
LEMMA SeenStep ==
    ASSUME SeenInv, OrderInv, FlightInv, WriteInv, ReadInv, ControlInv, StoreInv,
           [ApiNext]_allVars
    PROVE  SeenInv'
<1> SUFFICES ASSUME NEW b \in Calls, pc'[b] \in {"got", "done"}, input'[b] # NoInput,
                    input'[b].kind = "get"
             PROVE  /\ got'[b].err = Nil => Rank(got'[b].view.status) >= input'[b].seen
                    /\ got'[b].err = NotFound => input'[b].seen = 0
                    /\ reply'[b].status = 404 => got'[b].err \in {Nil, NotFound}
  BY DEF SeenInv
<1>1. DOMAIN pc = Calls /\ DOMAIN input = Calls /\ DOMAIN reply = Calls
  BY DEF ControlInv, PcOK, InputOK, WriteInv
<1>2. CASE Kept(b) /\ reply'[b] = reply[b]
  BY <1>2 DEF Kept, SeenInv
<1>3. CASE Kept(b) /\ reply'[b] # reply[b]
  <2>1. PICK c \in Calls : \/ Receive(c) \/ FinishGet(c) \/ CheckAccept(c) \/ FinishWrite(c)
    BY <1>3 DEF ApiNext, Serve, Handle, AllAnswered, Crash, Expire, Database, FailRead,
                ReadDirect, Hit, Lead, Join, HitL2, Query, Deliver, StartWrite, allVars, apiVars
  <2>2. b = c
    <3>1. reply' = reply \/ \E a : reply' = [reply EXCEPT ![c] = a]
      BY <2>1 DEF Receive, PostOrder, GetOrder, AcceptOrder, Reject, Pass, FinishGet,
                  CheckAccept, FinishWrite, Answer
    <3> QED BY <1>1, <1>3, <3>1
  <2>3. FinishGet(c)
    <3>1. pc[b] \in {"got", "done"} /\ input[b].kind = "get"
      BY <1>3 DEF Kept
    <3> QED BY <2>1, <2>2, <3>1 DEF Receive, PostOrder, GetOrder, AcceptOrder, CheckAccept,
                                  FinishWrite
  <2>4. got[c].err \in {Nil, NotFound, DbError}
    <3>1. input[c] # NoInput /\ input[c].order.id \in OrderIds
      BY <1>3, <2>2, KeysName DEF Kept, ControlInv
    <3>2. got[c] = NoResult \/ got[c] \in GoodResults[input[c].order.id]
      BY DEF ReadInv
    <3> QED BY <3>1, <3>2 DEF NoResult, GoodResults
  <2>5. got[c].err = DbError => reply'[c].status = 500
    <3>1. got[c].err = DbError => reply'[c] = AnswerOf(DbError, 200)
      BY <1>1, <2>3, ErrorsReturned DEF FinishGet, Answer
    <3> QED BY <3>1, KnownAnswers
  <2>6. got' = got /\ input' = input /\ pc[c] = "got"
    BY <2>3 DEF FinishGet
  <2> QED BY <1>3, <2>2, <2>4, <2>5, <2>6 DEF Kept, SeenInv
<1>4. CASE ~ Kept(b)
  <2>1. \E c \in Calls : Receive(c) \/ FailRead(c) \/ ReadDirect(c) \/ Hit(c) \/ Deliver(c)
    BY <1>4, OthersKeep DEF ApiNext, Serve, Handle, AllAnswered
  <2>2. ASSUME NEW c \in Calls, Receive(c) PROVE FALSE
    <3>1. b = c
      BY <1>4, <2>2, OthersKeep
    <3>2. pc[c] = "new"
      BY <2>2 DEF Receive, PostOrder, GetOrder, AcceptOrder
    <3>3. ASSUME NEW err, Reject(c, err) PROVE FALSE
      BY <3>1, <3>2, <3>3 DEF Reject, ControlInv, InputOK
    <3>4. ASSUME NEW kind, NEW order, NEW who, NEW seen, NEW at \in {"read", "insert"},
                 Pass(c, kind, order, who, seen, at)
          PROVE  FALSE
      BY <1>1, <3>1, <3>4 DEF Pass
    <3> QED BY <2>2, <3>3, <3>4 DEF Receive, PostOrder, GetOrder, AcceptOrder
  <2>3. ASSUME NEW c \in Calls, FailRead(c) \/ ReadDirect(c) \/ Hit(c) \/ Deliver(c)
        PROVE  /\ got'[b].err = Nil => Rank(got'[b].view.status) >= input'[b].seen
               /\ got'[b].err = NotFound => input'[b].seen = 0
               /\ reply'[b].status = 404 => got'[b].err \in {Nil, NotFound}
    <3>1. input' = input
      BY <2>3 DEF FailRead, ReadDirect, Hit, Deliver
    <3> QED BY <1>4, <2>3, <3>1, FoundAsSeen
  <2> QED BY <2>1, <2>2, <2>3
<1> QED BY <1>2, <1>3, <1>4

\* A process that is alone with its cache never shows a rider less than it has shown
\* before under the same id text: neither evictions nor slow loads move a view back,
\* nor, without L2, failures and crashes (orders/service.go:60-75).
THEOREM ReadsAdvance == ApiSpec => []ReadsNeverGoBack
<1> DEFINE Inv == AloneWithCache => LevelsInv /\ OrderInv /\ SeenInv
<1>1. ApiInit => Inv
  <2> SUFFICES ASSUME ApiInit PROVE Inv
    OBVIOUS
  <2>1. \A c \in Calls : input[c] = NoInput
    BY DEF ApiInit
  <2>2. AloneWithCache => LevelsInv
    BY DEF ApiInit, AloneWithCache, LevelsInv, SharedL2, OwnL2, HasCache
  <2> QED BY <2>1, <2>2 DEF OrderInv, Known, SeenInv
<1>2. ApiInv /\ ApiInv' /\ FlightInv /\ Inv /\ [ApiNext]_allVars => Inv'
  <2> SUFFICES ASSUME ApiInv, ApiInv', FlightInv, Inv, [ApiNext]_allVars, AloneWithCache'
               PROVE  LevelsInv' /\ OrderInv' /\ SeenInv'
    OBVIOUS
  <2>a. AloneWithCache /\ LevelsInv /\ OrderInv /\ SeenInv
    BY DEF ApiNext, allVars, apiVars, AloneWithCache, OwnL2
  <2>1. /\ WriteInv /\ ReadInv /\ ControlInv /\ StoreInv /\ StoreInv'
        /\ [StoreNext]_storeVars
    BY ApiStep DEF ApiInv
  <2> QED BY <2>a, <2>1, LevelsStep, OrderStep, SeenStep
<1>3. ApiInv /\ Inv => ReadsNeverGoBack
  <2> SUFFICES ASSUME ApiInv, Inv, AloneWithCache, NEW c \in Calls, pc[c] = "done", input[c] # NoInput,
                      input[c].kind = "get"
               PROVE  /\ reply[c].status = 200 => Rank(got[c].view.status) >= input[c].seen
                      /\ reply[c].status = 404 /\ input[c].seen > 0 => got[c].err = Nil
    BY DEF ReadsNeverGoBack
  <2>1. reply[c].status = 200 => got[c].err = Nil
    BY AnswersHaveReasons DEF AnswerOK, ShownOK, CreatedOK, ConflictOK, RefusedOK
  <2> QED BY <2>1 DEF SeenInv
<1> HIDE DEF Inv
<1> QED BY <1>1, <1>2, <1>3, ApiInvariance, FlightInvariance, PTL DEF ApiSpec

-----------------------------------------------------------------------------
(* Nothing twice: answers and statements stay what they are. *)

\* A step of the tables leaves the plans alone.
LEMMA PlanStays == ASSUME [StoreNext]_storeVars PROVE plan' = plan
<1> QED BY DEF StoreNext, StoreStep, AllEnded, BeginRequested, BeginAccepted, Progress, Commit,
               LoseReply, Publish, Abort, Insert, storeVars

\* A statement stays its caller's, and stays as it is once it has ended.
LEMMA StatementsStay ==
    ASSUME ControlInv, StoreInv, StoreInv', [ApiNext]_allVars, NEW b \in Calls
    PROVE  /\ stmt[b] # Idle => /\ stmt'[b] # Idle /\ stmt'[b].op = stmt[b].op
                                /\ stmt'[b].order = stmt[b].order /\ stmt'[b].who = stmt[b].who
                                /\ ~ Running(b) => stmt'[b] = stmt[b]
           /\ stmt[b] = Idle /\ pc[b] # "insert" => stmt'[b] = Idle
<1>1. CASE stmt' = stmt
  BY <1>1
<1>2. ASSUME NEW c \in Calls, StartWrite(c)
      PROVE  \A a \in Calls : stmt'[a] = stmt[a] \/ (stmt[a] = Idle /\ pc[a] = "insert")
  BY <1>2, StartWriteBegins DEF StartWrite
<1>3. ASSUME NEW c \in Calls, Database(c)
      PROVE  \A a \in Calls : \/ stmt'[a] = stmt[a]
                              \/ /\ Running(a) /\ stmt'[a] # Idle
                                 /\ stmt'[a].op = stmt[a].op /\ stmt'[a].order = stmt[a].order
                                 /\ stmt'[a].who = stmt[a].who
  BY <1>3, DatabaseStep
<1>4. ASSUME NEW c \in Calls, Receive(c) \/ Handle(c) \/ FailRead(c), ~ StartWrite(c)
      PROVE  stmt' = stmt
  BY <1>4, PostKeepsControl, GetKeepsControl, AcceptKeepsControl, ReadsKeepControl
     DEF Receive, Handle, storeVars
<1>5. ASSUME Crash \/ (\E k \in Keys : Expire(k)) \/ AllAnswered \/ UNCHANGED allVars
      PROVE  stmt' = stmt
  BY <1>5 DEF Crash, Expire, AllAnswered, allVars, storeVars
<1>6. ~ (Running(b) /\ stmt[b] = Idle)
  BY DEF Running, Idle
<1>7. \/ stmt' = stmt
      \/ \E c \in Calls : StartWrite(c)
      \/ \E c \in Calls : Database(c)
  BY <1>4, <1>5 DEF ApiNext, Serve
<1> QED BY <1>1, <1>2, <1>3, <1>6, <1>7

\* Who has been answered is left alone.
LEMMA DoneStays ==
    ASSUME ControlInv, ReadInv, WriteInv, [ApiNext]_allVars, NEW b \in Calls, pc[b] = "done"
    PROVE  /\ pc'[b] = "done" /\ reply'[b] = reply[b] /\ got'[b] = got[b]
           /\ input'[b] = input[b]
<1> DEFINE Same == /\ pc'[b] = pc[b] /\ reply'[b] = reply[b] /\ got'[b] = got[b]
                   /\ input'[b] = input[b]
<1>1. /\ DOMAIN pc = Calls /\ DOMAIN input = Calls /\ DOMAIN reply = Calls /\ DOMAIN got = Calls
  BY DEF ControlInv, PcOK, InputOK, ReadInv, WriteInv
<1>2. ASSUME NEW c \in Calls, Receive(c) PROVE Same
  <2>0. pc[c] = "new"
    BY <1>2 DEF Receive, PostOrder, GetOrder, AcceptOrder
  <2>1. ASSUME NEW err, Reject(c, err) PROVE Same
    BY <1>1, <2>0, <2>1 DEF Reject, Answer
  <2>2. ASSUME NEW kind, NEW order, NEW who, NEW seen, NEW at, Pass(c, kind, order, who, seen, at)
        PROVE  Same
    BY <1>1, <2>0, <2>2 DEF Pass
  <2> QED BY <1>2, <2>1, <2>2 DEF Receive, PostOrder, GetOrder, AcceptOrder
<1>3. ASSUME NEW c \in Calls,
             \/ ReadDirect(c) \/ Hit(c) \/ Lead(c) \/ Join(c) \/ HitL2(c) \/ Query(c)
             \/ FailRead(c)
      PROVE  Same
  BY <1>1, <1>3 DEF ReadDirect, Hit, Lead, Join, HitL2, Query, FailRead, Get
<1>4. ASSUME NEW c \in Calls, Deliver(c) PROVE Same
  BY <1>1, <1>4 DEF Deliver
<1>5. ASSUME NEW c \in Calls, FinishGet(c) \/ CheckAccept(c) \/ StartWrite(c) \/ FinishWrite(c)
      PROVE  Same
  BY <1>1, <1>5 DEF FinishGet, CheckAccept, StartWrite, FinishWrite, Answer
<1>6. ASSUME NEW c \in Calls, Database(c) PROVE Same
  BY <1>6 DEF Database, apiVars
<1>7. CASE Crash
  BY <1>7 DEF Crash, Handling
<1>8. CASE (\E k \in Keys : Expire(k)) \/ AllAnswered \/ UNCHANGED allVars
  BY <1>8 DEF Expire, AllAnswered, allVars, apiVars
<1> QED BY <1>2, <1>3, <1>4, <1>5, <1>6, <1>7, <1>8 DEF ApiNext, Serve, Handle

\* No request is answered twice or sends a second statement, whatever fails
\* (orders/service.go:105, drivers/service.go:107): a retry is the caller's own, a
\* request of its own.
THEOREM NothingHappensTwice == ApiSpec => NothingTwice
<1>1. ApiInv /\ ApiInv' /\ [ApiNext]_allVars =>
          \A c \in Calls :
              /\ reply[c].status # 0 => reply'[c] = reply[c]
              /\ stmt[c] # Idle => /\ stmt'[c] # Idle /\ stmt'[c].op = stmt[c].op
                                   /\ stmt'[c].order = stmt[c].order /\ stmt'[c].who = stmt[c].who
  <2> SUFFICES ASSUME ApiInv, ApiInv', [ApiNext]_allVars, NEW c \in Calls
               PROVE  /\ reply[c].status # 0 => reply'[c] = reply[c]
                      /\ stmt[c] # Idle => /\ stmt'[c] # Idle /\ stmt'[c].op = stmt[c].op
                                           /\ stmt'[c].order = stmt[c].order
                                           /\ stmt'[c].who = stmt[c].who
    OBVIOUS
  <2>1. ControlInv /\ ReadInv /\ WriteInv /\ StoreInv /\ StoreInv'
    BY DEF ApiInv
  <2>2. reply[c].status # 0 => pc[c] = "done"
    BY <2>1 DEF WriteInv
  <2> QED BY <2>1, <2>2, DoneStays, StatementsStay
<1> QED BY <1>1, ApiInvariance, PTL DEF ApiSpec, NothingTwice

-----------------------------------------------------------------------------
(* Every answer is what its read or its statement says, and nothing else. *)

\* What FinishGet makes of the result of c's read.
ShownError(c) ==
    IF got[c].err # Nil THEN got[c].err
    ELSE IF Canon(got[c].view.rider) # input[c].who THEN NotFound ELSE Nil

\* What FinishWrite makes of the end of c's statement.
WriteError(c) == IF input[c].kind = "request" THEN RequestedError(c) ELSE AcceptedError(c)

\* How c came to its answer: by the input checks, its read, the early check of an
\* accept, or its statement.
AnsweredBy(c) ==
    \/ input[c] = NoInput /\ reply[c].status = 400
    \/ /\ input[c] # NoInput /\ input[c].kind = "get"
       /\ reply[c] = AnswerOf(ShownError(c), 200)
    \/ /\ input[c] # NoInput /\ input[c].kind = "accept"
       /\ reply[c].status = 409 /\ stmt[c] = Idle
    \/ Writes(c) /\ stmt[c].state \in Ended /\ reply[c] = AnswerOf(WriteError(c), 201)

AnswersInv == \A c \in Calls : pc[c] = "done" => AnsweredBy(c)

\* What an answer was made of does not change any more.
LEMMA AnsweredStays ==
    ASSUME ControlInv, ReadInv, WriteInv, StoreInv, StoreInv', [ApiNext]_allVars,
           NEW b \in Calls, pc[b] = "done", AnsweredBy(b)
    PROVE  AnsweredBy(b)'
<1>1. reply'[b] = reply[b] /\ got'[b] = got[b] /\ input'[b] = input[b]
  BY DoneStays
<1>2. /\ stmt[b] = Idle => stmt'[b] = Idle
      /\ stmt[b] # Idle /\ ~ Running(b) => stmt'[b] = stmt[b]
  BY StatementsStay
<1>3. CASE input[b] = NoInput /\ reply[b].status = 400
  BY <1>1, <1>3 DEF AnsweredBy
<1>4. CASE /\ input[b] # NoInput /\ input[b].kind = "get"
           /\ reply[b] = AnswerOf(ShownError(b), 200)
  <2>1. ShownError(b)' = ShownError(b)
    BY <1>1 DEF ShownError
  <2>2. AnswerOf(ShownError(b), 200)' = AnswerOf(ShownError(b), 200)
    BY <2>1 DEF AnswerOf
  <2> QED BY <1>1, <1>4, <2>2 DEF AnsweredBy
<1>5. CASE /\ input[b] # NoInput /\ input[b].kind = "accept"
           /\ reply[b].status = 409 /\ stmt[b] = Idle
  BY <1>1, <1>2, <1>5 DEF AnsweredBy
<1>6. CASE Writes(b) /\ stmt[b].state \in Ended /\ reply[b] = AnswerOf(WriteError(b), 201)
  <2>1. stmt'[b] = stmt[b]
    BY <1>2, <1>6 DEF Writes, Running, Ended
  <2>2. StatementError(b)' = StatementError(b)
    BY <2>1 DEF StatementError
  <2>3. WriteError(b)' = WriteError(b)
    BY <1>1, <2>1, <2>2 DEF WriteError, RequestedError, AcceptedError
  <2>4. AnswerOf(WriteError(b), 201)' = AnswerOf(WriteError(b), 201)
    BY <2>3 DEF AnswerOf
  <2>5. Writes(b)'
    BY <1>1, <1>6, <2>1 DEF Writes
  <2> QED BY <1>1, <1>6, <2>1, <2>4, <2>5 DEF AnsweredBy
<1> QED BY <1>3, <1>4, <1>5, <1>6 DEF AnsweredBy

\* Four steps answer a request.
LEMMA WhoAnswers ==
    ASSUME ControlInv, [ApiNext]_allVars, NEW b \in Calls, pc[b] # "done", pc'[b] = "done"
    PROVE  \/ pc[b] = "new" /\ Reject(b, ValidationError)
           \/ FinishGet(b) \/ CheckAccept(b) \/ FinishWrite(b)
<1>1. DOMAIN pc = Calls
  BY DEF ControlInv, PcOK
<1>2. ASSUME NEW c \in Calls, Receive(c)
      PROVE  pc[b] = "new" /\ Reject(b, ValidationError)
  <2>0. pc[c] = "new"
    BY <1>2 DEF Receive, PostOrder, GetOrder, AcceptOrder
  <2>1. CASE Reject(c, ValidationError)
    BY <1>1, <2>0, <2>1 DEF Reject, Answer
  <2>2. ASSUME NEW kind, NEW order, NEW who, NEW seen, NEW at \in {"read", "insert"},
               Pass(c, kind, order, who, seen, at)
        PROVE  FALSE
    BY <1>1, <2>2 DEF Pass
  <2> QED BY <1>2, <2>1, <2>2, WorkerKeeps DEF Receive, PostOrder, GetOrder, AcceptOrder
<1>3. ASSUME NEW c \in Calls,
             \/ ReadDirect(c) \/ Hit(c) \/ Lead(c) \/ Join(c) \/ HitL2(c) \/ Query(c)
             \/ FailRead(c)
      PROVE  FALSE
  BY <1>1, <1>3 DEF ReadDirect, Hit, Lead, Join, HitL2, Query, FailRead, Get
<1>4. ASSUME NEW c \in Calls, Deliver(c) PROVE FALSE
  BY <1>1, <1>4 DEF Deliver
<1>5. ASSUME NEW c \in Calls, FinishGet(c) \/ CheckAccept(c) \/ FinishWrite(c)
      PROVE  FinishGet(b) \/ CheckAccept(b) \/ FinishWrite(b)
  <2>1. \A a \in Calls \ {c} : pc'[a] = pc[a]
    BY <1>1, <1>5 DEF FinishGet, CheckAccept, FinishWrite, Answer
  <2> QED BY <1>5, <2>1
<1>6. ASSUME NEW c \in Calls, StartWrite(c) PROVE FALSE
  BY <1>1, <1>6 DEF StartWrite
<1>7. ASSUME NEW c \in Calls, Database(c) PROVE FALSE
  BY <1>7 DEF Database, apiVars
<1>8. ASSUME Crash \/ (\E k \in Keys : Expire(k)) \/ AllAnswered \/ UNCHANGED allVars
      PROVE  FALSE
  BY <1>8 DEF Crash, Expire, AllAnswered, allVars, apiVars
<1> QED BY <1>2, <1>3, <1>4, <1>5, <1>6, <1>7, <1>8 DEF ApiNext, Serve, Handle

\* Every answer is made of what its request found.
LEMMA AnswersStep ==
    ASSUME AnswersInv, ControlInv, ReadInv, WriteInv, StoreInv, StoreInv', [ApiNext]_allVars
    PROVE  AnswersInv'
<1> SUFFICES ASSUME NEW b \in Calls, pc'[b] = "done" PROVE AnsweredBy(b)'
  BY DEF AnswersInv
<1>1. CASE pc[b] = "done"
  BY <1>1, AnsweredStays DEF AnswersInv
<1>2. /\ InputOK /\ DOMAIN pc = Calls /\ DOMAIN reply = Calls /\ DOMAIN got = Calls
  BY DEF ControlInv, PcOK, WriteInv, ReadInv
<1>3. ASSUME pc[b] = "new", Reject(b, ValidationError) PROVE AnsweredBy(b)'
  <2>1. input[b] = NoInput /\ input' = input
    BY <1>2, <1>3 DEF InputOK, Reject
  <2>2. reply'[b].status = 400
    BY <1>2, <1>3, KnownAnswers DEF Reject, Answer
  <2> QED BY <2>1, <2>2 DEF AnsweredBy
<1>4. ASSUME FinishGet(b) PROVE AnsweredBy(b)'
  <2>1. /\ pc[b] = "got" /\ input[b].kind = "get" /\ input' = input /\ got' = got
        /\ Answer(b, AnswerOf(ShownError(b), 200))
    BY <1>4 DEF FinishGet, ShownError
  <2>2. input[b] # NoInput
    BY <1>2, <2>1 DEF InputOK, Handling
  <2>3. reply'[b] = AnswerOf(ShownError(b), 200)
    BY <1>2, <2>1 DEF Answer
  <2>4. ShownError(b)' = ShownError(b)
    BY <2>1 DEF ShownError
  <2>5. AnswerOf(ShownError(b), 200)' = AnswerOf(ShownError(b), 200)
    BY <2>4 DEF AnswerOf
  <2> QED BY <2>1, <2>2, <2>3, <2>5 DEF AnsweredBy
<1>5. ASSUME CheckAccept(b) PROVE AnsweredBy(b)'
  <2>1. /\ pc[b] = "got" /\ input[b].kind = "accept" /\ input' = input /\ stmt' = stmt
        /\ reply' = [reply EXCEPT ![b] = AnswerOf(NotAcceptable, 201)]
    BY <1>2, <1>5, WorkerKeeps DEF CheckAccept, Answer, storeVars
  <2>2. input[b] # NoInput /\ stmt[b] = Idle
    BY <1>2, <2>1 DEF InputOK, Handling, WriteInv
  <2>3. reply'[b].status = 409
    BY <1>2, <2>1, KnownAnswers
  <2> QED BY <2>1, <2>2, <2>3 DEF AnsweredBy
<1>6. ASSUME FinishWrite(b) PROVE AnsweredBy(b)'
  <2>1. /\ pc[b] = "inserting" /\ stmt[b].state \in Ended /\ input' = input /\ stmt' = stmt
        /\ Answer(b, AnswerOf(Worker(WriteError(b)), 201))
    BY <1>6 DEF FinishWrite, WriteError, storeVars
  <2>2. reply'[b] = AnswerOf(WriteError(b), 201) /\ Writes(b)
    BY <1>2, <2>1, WorkerKeeps DEF Answer, WriteInv
  <2>3. StatementError(b)' = StatementError(b)
    BY <2>1 DEF StatementError
  <2>4. WriteError(b)' = WriteError(b)
    BY <2>1, <2>3 DEF WriteError, RequestedError, AcceptedError
  <2>5. AnswerOf(WriteError(b), 201)' = AnswerOf(WriteError(b), 201)
    BY <2>4 DEF AnswerOf
  <2>6. Writes(b)'
    BY <2>1, <2>2 DEF Writes
  <2> QED BY <2>1, <2>2, <2>5, <2>6 DEF AnsweredBy
<1> QED BY <1>1, <1>3, <1>4, <1>5, <1>6, WhoAnswers

\* For every request that has been answered, the answer follows from its input, what
\* it read and how its statement ended: no step in between loses or mixes them up.
THEOREM AnswersFollow == ApiSpec => []AnswersInv
<1>1. ApiInit => AnswersInv
  BY DEF ApiInit, AnswersInv
<1>2. ApiInv /\ ApiInv' /\ AnswersInv /\ [ApiNext]_allVars => AnswersInv'
  BY AnswersStep DEF ApiInv
<1> QED BY <1>1, <1>2, ApiInvariance, PTL DEF ApiSpec

-----------------------------------------------------------------------------
(* Where internal errors come from. *)

\* The keys are taken in order, and nobody waits in a circle, in the service too.
THEOREM ApiTakesKeysInOrder == ApiSpec => [](KeysInOrder /\ HoldersCanGo)
<1> QED BY ApiUsesTheStore, LosersAreStoppedFirst, NobodyWaitsInACircle, PTL DEF UsesTheStore

\* errors.As finds the database's error that a service got.
LEMMA PgErrorFound ==
    ASSUME NEW code, NEW constraint
    PROVE  PgErrorOf(<<PgError(code, constraint)>>) = {PgError(code, constraint)}
<1> DEFINE pg == PgError(code, constraint)
<1>1. pg.kind = "pg"
  BY DEF PgError
<1> HIDE DEF pg
<1>2. DOMAIN <<pg>> = {1} /\ <<pg>>[1] = pg
  OBVIOUS
<1>3. PgErrorOf(<<pg>>) = {pg}
  BY <1>1, <1>2 DEF PgErrorOf
<1> QED BY <1>3 DEF pg

\* Every end of a statement but a failure has its own answer, except the history's key
\* for an accept (orders/service.go:173-185, drivers/service.go:109-127).
LEMMA WriteAnswers ==
    ASSUME KeysInOrder, NEW c \in Calls, Writes(c), stmt[c].state \in Ended
    PROVE  \/ AnswerOf(WriteError(c), 201).status \in {201, 409}
           \/ stmt[c].state = "failed"
           \/ /\ input[c].kind # "request" /\ stmt[c].state = "unique"
              /\ plan["accepted"] = "historyFirst"
<1> DEFINE constraint == Constraint[stmt[c].hit]
<1>1. stmt[c].state \in {"ok", "norows", "unique", "failed"}
  BY DEF Ended
<1>2. /\ stmt[c].state = "unique" => StatementError(c) = <<PgError("23505", constraint)>>
      /\ stmt[c].state \in {"ok", "norows"} => StatementError(c) = Nil
  BY DEF StatementError
<1>3. /\ PgError("23505", constraint).constraint = constraint
      /\ PgError("23505", constraint).code = "23505"
      /\ PgError("23505", constraint).kind = "pg"
  BY DEF PgError
<1>4. CASE stmt[c].state = "ok"
  <2>1. PgErrorOf(Nil) = {}
    BY DEF PgErrorOf, Nil
  <2>2. WriteError(c) = Nil
    BY <1>2, <1>4, <2>1 DEF WriteError, RequestedError, AcceptedError
  <2> QED BY <2>2, SuccessAnswer
<1>5. CASE stmt[c].state = "norows"
  <2>1. input[c].kind # "request"
    BY <1>5 DEF Writes
  <2>2. NotAcceptable # Nil /\ NotAcceptable[1].kind = "http"
        /\ NotAcceptable[1].code = "ORDER_NOT_ACCEPTABLE"
    BY DEF NotAcceptable, NewError, HTTPError, Nil
  <2>3. WriteError(c) = NotAcceptable
    BY <1>5, <2>1, <2>2 DEF WriteError, AcceptedError
  <2> QED BY <2>3, KnownAnswers
<1>6. CASE stmt[c].state = "unique" /\ input[c].kind = "request"
  <2>1. stmt[c].hit \in {"orders", "history"}
    BY <1>6 DEF KeysInOrder, FirstTable, Writes
  <2>2. constraint \in {"orders_pkey", "order_status_history_order_id_sequence_key"}
    BY <2>1 DEF Constraint
  <2> HIDE DEF constraint
  <2>3. \E e \in PgErrorOf(StatementError(c)) : IsDuplicateOrder(e)
    BY <1>2, <1>3, <1>6, <2>2, PgErrorFound DEF IsDuplicateOrder
  <2>4. WriteError(c) = AlreadyExists
    BY <1>6, <2>3 DEF WriteError, RequestedError
  <2> QED BY <2>4, KnownAnswers
<1>7. CASE stmt[c].state = "unique" /\ input[c].kind # "request" /\ plan["accepted"] # "historyFirst"
  <2>1. stmt[c].hit = "acceptances"
    BY <1>7 DEF KeysInOrder, FirstTable, Writes
  <2>2. constraint = "uq_order_acceptances_order"
    BY <2>1 DEF Constraint
  <2> HIDE DEF constraint
  <2> DEFINE pg == PgError("23505", constraint)
  <2>3. StatementError(c) = <<pg>> /\ pg.kind = "pg" /\ pg = PgError("23505", "uq_order_acceptances_order")
    BY <1>2, <1>3, <1>7, <2>2
  <2> HIDE DEF pg
  <2>4. <<pg>> # Nil /\ <<pg>>[1] = pg
    BY DEF Nil
  <2>5. WriteError(c) = AlreadyAccepted
    BY <1>7, <2>3, <2>4 DEF WriteError, AcceptedError
  <2> QED BY <2>5, KnownAnswers
<1> QED BY <1>1, <1>4, <1>5, <1>6, <1>7

\* As long as nothing breaks there is no error of the database's or the cache's making.
Unbroken == Faults \/ \A c \in Calls : got[c].err # DbError /\ stmt[c].state # "failed"

\* No statement fails by itself.
LEMMA StatementsUnbroken ==
    ASSUME StoreInv, ~ Faults, [StoreNext]_storeVars,
           NEW b \in Calls, stmt[b].state # "failed"
    PROVE  stmt'[b].state # "failed"
<1>1. DOMAIN stmt = Calls /\ \A c \in Calls : Running(c) => stmt[c] \in Statement
  BY DEF StoreInv, StoreTypeOK, Running, Idle
<1>2. ASSUME NEW c \in Calls, NEW o, NEW r, BeginRequested(c, o, r) \/ BeginAccepted(c, o, r)
      PROVE  stmt'[b].state # "failed"
  BY <1>1, <1>2 DEF BeginRequested, BeginAccepted, Start
<1>3. ASSUME NEW c \in Calls, Commit(c) PROVE stmt'[b].state # "failed"
  <2>1. Running(c) /\ stmt' = [stmt EXCEPT ![c].state = "ok", ![c].wrote = {}]
    BY <1>3 DEF Commit, Publish
  <2> QED BY <1>1, <2>1 DEF Statement
<1>4. ASSUME NEW c \in Calls, NEW t, Insert(c, t) PROVE stmt'[b].state # "failed"
  <2>1. Running(c)
    BY <1>4 DEF Insert
  <2>2. CASE Taken(c, t)
    <3>1. stmt' = [stmt EXCEPT ![c].state = "unique", ![c].hit = t, ![c].wrote = {}]
      BY <1>4, <2>2 DEF Insert
    <3> QED BY <1>1, <2>1, <3>1 DEF Statement
  <2>3. CASE ~ Taken(c, t)
    <3>1. stmt' = [stmt EXCEPT ![c].wrote = stmt[c].wrote \cup {t}]
      BY <1>4, <2>3 DEF Insert
    <3> QED BY <1>1, <2>1, <3>1 DEF Statement
  <2> QED BY <2>2, <2>3
<1> QED BY <1>2, <1>3, <1>4 DEF StoreNext, StoreStep, AllEnded, Progress, LoseReply, Abort, storeVars

\* Nor does a read.
LEMMA ReadsUnbroken ==
    ASSUME ControlInv, ReadInv, StoreInv, ~ Faults, [ApiNext]_allVars,
           \A b \in Calls : got[b].err # DbError,
           NEW b \in Calls
    PROVE  got'[b].err # DbError
<1>1. /\ DOMAIN got = Calls /\ DOMAIN pc = Calls /\ InputOK
      /\ NoResult.err = Nil /\ Nil # DbError /\ NotFound # DbError
  BY ErrorsReturned DEF ReadInv, ControlInv, PcOK, NoResult
<1>2. \A o \in OrderIds : Load(o).err # DbError
  BY <1>1 DEF Load
<1>3. ASSUME NEW c \in Calls, Receive(c) \/ FinishGet(c) \/ StartWrite(c) \/ FinishWrite(c)
                                \/ Database(c) \/ Lead(c) \/ Join(c)
      PROVE  got' = got
  BY <1>3 DEF Receive, PostOrder, GetOrder, AcceptOrder, Pass, Reject, FinishGet, StartWrite,
              FinishWrite, Database, Lead, Join, apiVars
<1>4. ASSUME NEW c \in Calls, ReadDirect(c) \/ Query(c)
      PROVE  got'[b].err # DbError
  <2>1. input[c] # NoInput
    BY <1>1, <1>4 DEF ReadDirect, Query, InputOK, Handling
  <2>2. Key(c).id \in OrderIds
    BY <1>1, <2>1, KeysName
  <2>3. got' = [got EXCEPT ![c] = Load(Key(c).id)]
    BY <1>4 DEF ReadDirect, Query, Get
  <2> QED BY <1>1, <1>2, <2>2, <2>3
<1>5. ASSUME NEW c \in Calls, Hit(c) \/ HitL2(c) \/ CheckAccept(c)
      PROVE  got'[b].err # DbError
  BY <1>1, <1>5 DEF Hit, HitL2, CheckAccept, Get
<1>6. ASSUME NEW c \in Calls, Deliver(c)
      PROVE  got'[b].err # DbError
  <2>1. got[c].err \in {Nil, NotFound}
    <3>1. pc[c] \in Loaded
      BY <1>6 DEF Deliver
    <3>2. input[c] # NoInput /\ got[c] \in GoodResults[input[c].order.id]
      BY <3>1 DEF ReadInv
    <3>3. input[c].order.id \in OrderIds
      BY <1>1, <3>2, KeysName
    <3> QED BY <3>2, <3>3, ResultsAre
  <2>2. \/ got'[b] = got[b]
        \/ \E err \in {got[c].err} \cup (IF got[c].err = Nil THEN {} ELSE {Flatten(got[c].err)}) :
               got'[b].err = Returned(err)
    BY <1>6 DEF Deliver
  <2> QED BY <1>1, <2>1, <2>2, ErrorsReturned
<1>7. CASE Crash
  BY <1>7 DEF Crash
<1>8. ASSUME NEW c \in Calls, FailRead(c) PROVE FALSE
  BY <1>8 DEF FailRead
<1>9. CASE (\E k \in Keys : Expire(k)) \/ AllAnswered \/ UNCHANGED allVars
  BY <1>9 DEF Expire, AllAnswered, allVars, apiVars
<1> QED BY <1>3, <1>4, <1>5, <1>6, <1>7, <1>8, <1>9 DEF ApiNext, Serve, Handle

\* Errors of the database or the cache come with faults only: the service makes none.
LEMMA ErrorsComeWithFaults == ApiSpec => []Unbroken
<1>1. ApiInit => Unbroken
  <2> SUFFICES ASSUME ApiInit PROVE Unbroken
    OBVIOUS
  <2>1. \A c \in Calls : got[c] = NoResult /\ stmt[c] = Idle
    BY DEF ApiInit, StoreInit
  <2>2. NoResult.err # DbError /\ Idle.state # "failed"
    BY ErrorsReturned DEF NoResult, Idle
  <2> QED BY <2>1, <2>2 DEF Unbroken
<1>2. ApiInv /\ Unbroken /\ [ApiNext]_allVars => Unbroken'
  <2> SUFFICES ASSUME ApiInv, Unbroken, [ApiNext]_allVars, ~ Faults PROVE Unbroken'
    BY DEF Unbroken
  <2>1. ControlInv /\ ReadInv /\ StoreInv /\ [StoreNext]_storeVars
    BY ApiStep DEF ApiInv
  <2>2. \A c \in Calls : got[c].err # DbError /\ stmt[c].state # "failed"
    BY DEF Unbroken
  <2>3. ASSUME NEW c \in Calls PROVE got'[c].err # DbError /\ stmt'[c].state # "failed"
    BY <2>1, <2>2, StatementsUnbroken, ReadsUnbroken
  <2> QED BY <2>3 DEF Unbroken
<1> QED BY <1>1, <1>2, ApiInvariance, PTL DEF ApiSpec

\* What a read is answered.
LEMMA GetAnswers ==
    ASSUME ReadInv, InputOK, NEW c \in Calls, input[c] # NoInput
    PROVE  \/ got[c].err = DbError
           \/ /\ ShownError(c) = NotFound /\ AnswerOf(ShownError(c), 200).status = 404
           \/ /\ ShownError(c) = Nil /\ AnswerOf(ShownError(c), 200).status = 200
<1>1. input[c].order.id \in OrderIds
  BY KeysName
<1>2. got[c].err \in {Nil, NotFound, DbError}
  BY <1>1, ResultsAre DEF ReadInv, NoResult
<1>3. ShownError(c) \in {Nil, NotFound, DbError} /\ (ShownError(c) = DbError => got[c].err = DbError)
  BY <1>2, ErrorsReturned DEF ShownError
<1>4. CASE ShownError(c) = Nil
  BY <1>4, SuccessAnswer
<1>5. CASE ShownError(c) = NotFound
  BY <1>5, KnownAnswers
<1> QED BY <1>3, <1>4, <1>5

\* For every request: a 500 is a failure of the database or the cache, or an accept
\* that lost on the history's key.  An order that is missing, taken or already there
\* is never answered so (orders/service.go:76-81 and 173-185,
\* drivers/service.go:109-127).
THEOREM ErrorsAreExplained == ApiSpec => []ServerErrorsHaveCauses
<1>1. ApiInv /\ AnswersInv /\ Unbroken /\ KeysInOrder => ServerErrorsHaveCauses
  <2> SUFFICES ASSUME ApiInv, AnswersInv, Unbroken, KeysInOrder,
                      NEW c \in Calls, reply[c].status = 500
               PROVE  \/ Faults /\ (got[c].err = DbError \/ stmt[c].state = "failed")
                      \/ /\ input[c].kind = "accept" /\ stmt[c].state = "unique"
                         /\ plan["accepted"] = "historyFirst"
    BY DEF ServerErrorsHaveCauses
  <2>1. ReadInv /\ InputOK /\ pc[c] = "done"
    BY DEF ApiInv, WriteInv, ControlInv
  <2>2. AnsweredBy(c)
    BY <2>1 DEF AnswersInv
  <2>3. CASE /\ input[c] # NoInput /\ input[c].kind = "get"
             /\ reply[c] = AnswerOf(ShownError(c), 200)
    BY <2>1, <2>3, GetAnswers DEF Unbroken
  <2>4. CASE Writes(c) /\ stmt[c].state \in Ended /\ reply[c] = AnswerOf(WriteError(c), 201)
    <3>1. input[c] \in Inputs /\ input[c].kind # "get"
      BY <2>1, <2>4 DEF Writes, InputOK
    <3>2. input[c].kind \in {"request", "accept"}
      BY <3>1 DEF Inputs
    <3> QED BY <2>4, <3>2, WriteAnswers DEF Unbroken
  <2> QED BY <2>2, <2>3, <2>4 DEF AnsweredBy
<1> QED BY <1>1, ApiInvariance, AnswersFollow, ErrorsComeWithFaults, ApiTakesKeysInOrder, PTL

\* README.md:88 is right of accepts, for any number of drivers, where nothing breaks
\* and acceptedSQL inserts into the history last: the planner's choice is all that
\* makes the run accept_race fail.
THEOREM AcceptsKeepTheirWord ==
    ApiSpec => [](~ Faults /\ plan["accepted"] # "historyFirst" => AcceptsGet201Or409)
<1>1. ApiInv /\ AnswersInv /\ Unbroken /\ KeysInOrder =>
          (~ Faults /\ plan["accepted"] # "historyFirst" => AcceptsGet201Or409)
  <2> SUFFICES ASSUME ApiInv, AnswersInv, Unbroken, KeysInOrder,
                      ~ Faults, plan["accepted"] # "historyFirst",
                      NEW c \in Calls, pc[c] = "done", input[c] # NoInput,
                      input[c].kind = "accept"
               PROVE  reply[c].status \in {201, 409}
    BY DEF AcceptsGet201Or409
  <2>1. AnsweredBy(c) /\ stmt[c].state # "failed"
    BY DEF AnswersInv, Unbroken
  <2> QED BY <2>1, WriteAnswers DEF AnsweredBy
<1> QED BY <1>1, ApiInvariance, AnswersFollow, ErrorsComeWithFaults, ApiTakesKeysInOrder, PTL

\* And README.md:89 is right of riders who write their id in the canonical form: the
\* comparison of texts in orders/handler.go:105 is all that makes the run owner_text
\* fail.
THEOREM OwnersAreShown == ApiSpec => [](Forms = {"canonical"} => OwnersSeeTheirOrders)
<1>1. ApiInv /\ AnswersInv => (Forms = {"canonical"} => OwnersSeeTheirOrders)
  <2> SUFFICES ASSUME ApiInv, AnswersInv, Forms = {"canonical"},
                      NEW c \in Calls, pc[c] = "done", input[c] # NoInput,
                      input[c].kind = "get", got[c].err = Nil,
                      got[c].view.rider = input[c].who.id
               PROVE  reply[c].status = 200
    BY DEF OwnersSeeTheirOrders
  <2>1. input[c].who \in TextsOf(Riders)
    BY DEF ApiInv, ControlInv, InputOK, Inputs
  <2>2. input[c].who = Canon(input[c].who.id)
    BY <2>1 DEF TextsOf, Text, Canon
  <2>3. ShownError(c) = Nil
    BY <2>2 DEF ShownError
  <2>4. AnsweredBy(c)
    BY DEF AnswersInv
  <2> QED BY <2>3, <2>4, SuccessAnswer DEF AnsweredBy, Writes
<1> QED BY <1>1, ApiInvariance, AnswersFollow, PTL

-----------------------------------------------------------------------------
(* Nobody is left behind: every flight has somebody who ends it. *)

\* A flight is led by a request that is still loading, nobody waits without one, and
\* only requests that read wait.
LedInv ==
    /\ \A k \in Keys : flight[k] # {} =>
           \E b \in Calls : flight[k] = {b} /\ pc[b] \in Loading /\ Key(b) = k
    /\ \A c \in Calls : pc[c] = "waiting" => flight[Key(c)] # {}
    /\ \A c \in Calls : pc[c] \in Loading \cup {"read", "waiting", "got"} =>
           input[c].kind \in {"get", "accept"}

\* What neither starts nor ends a flight keeps LedInv, if it lets the leaders load.
LEMMA LedFrame ==
    ASSUME LedInv, flight' = flight,
           \A b \in Calls : pc[b] \in Loading =>
               pc'[b] \in Loading /\ input'[b] = input[b],
           \A b \in Calls : pc'[b] = "waiting" =>
               /\ input'[b] = input[b]
               /\ pc[b] = "waiting" \/ flight[Key(b)] # {},
           \A b \in Calls : pc'[b] \in Loading \cup {"read", "waiting", "got"} =>
               input'[b].kind \in {"get", "accept"}
    PROVE  LedInv'
<1>1. ASSUME NEW k \in Keys, flight'[k] # {}
      PROVE  \E b \in Calls : /\ flight'[k] = {b} /\ pc'[b] \in Loading
                              /\ Key(b)' = k
  <2>1. PICK b \in Calls : flight[k] = {b} /\ pc[b] \in Loading /\ Key(b) = k
    BY <1>1 DEF LedInv
  <2> QED BY <2>1 DEF Key
<1>2. \A b \in Calls : pc'[b] = "waiting" => flight'[Key(b)'] # {}
  BY DEF LedInv, Key
<1> QED BY <1>1, <1>2 DEF LedInv

\* The leader's result ends its flight and no other, and frees all who wait for it
\* (orders/service.go:69-82).
LEMMA DeliverEndsFlight ==
    ASSUME LedInv, FlightInv, ControlInv, NEW c \in Calls, Deliver(c)
    PROVE  LedInv'
<1> DEFINE k == Key(c)
           all == {c} \cup {b \in Calls : pc[b] = "waiting" /\ Key(b) = k}
<1>1. /\ pc[c] \in Loaded /\ flight' = [flight EXCEPT ![k] = {}] /\ input' = input
      /\ pc' = [b \in Calls |-> IF b \in all THEN "got" ELSE pc[b]]
  BY DEF Deliver
<1>2. DOMAIN flight = Keys /\ InputOK /\ \A b \in Calls : Key(b)' = Key(b)
  BY <1>1 DEF FlightInv, ControlInv, Key
<1>3. ASSUME NEW x \in Keys, flight'[x] # {}
      PROVE  \E b \in Calls : /\ flight'[x] = {b} /\ pc'[b] \in Loading
                              /\ Key(b)' = x
  <2>1. x # k /\ flight'[x] = flight[x]
    BY <1>1, <1>2, <1>3
  <2>2. PICK b \in Calls : flight[x] = {b} /\ pc[b] \in Loading /\ Key(b) = x
    BY <1>3, <2>1 DEF LedInv
  <2>3. b \notin all
    BY <2>1, <2>2
  <2> QED BY <1>1, <1>2, <2>1, <2>2, <2>3
<1>4. ASSUME NEW b \in Calls, pc'[b] = "waiting" PROVE flight'[Key(b)'] # {}
  <2>1. pc[b] = "waiting" /\ Key(b) # k
    BY <1>1, <1>4
  <2>2. Key(b) \in Keys
    BY <1>2, <2>1, KeysName DEF InputOK, Handling
  <2> QED BY <1>1, <1>2, <2>1, <2>2 DEF LedInv
<1>5. ASSUME NEW b \in Calls, pc'[b] \in Loading \cup {"read", "waiting", "got"}
      PROVE  input'[b].kind \in {"get", "accept"}
  BY <1>1, <1>5 DEF LedInv
<1> HIDE DEF all, k
<1> QED BY <1>3, <1>4, <1>5 DEF LedInv

\* The first request that misses leads, and is there to end what it starts.
LEMMA LeadStartsFlight ==
    ASSUME LedInv, FlightInv, ControlInv, NEW c \in Calls, Lead(c)
    PROVE  LedInv'
<1> DEFINE k == Key(c)
<1>1. /\ pc[c] = "read" /\ flight[k] = {} /\ flight' = [flight EXCEPT ![k] = {c}]
      /\ input' = input /\ pc' = [pc EXCEPT ![c] = "leading"]
  BY DEF Lead
<1>2. /\ DOMAIN flight = Keys /\ DOMAIN pc = Calls /\ InputOK
      /\ \A b \in Calls : Key(b)' = Key(b)
  BY <1>1 DEF FlightInv, ControlInv, PcOK, Key
<1>3. ASSUME NEW x \in Keys, flight'[x] # {}
      PROVE  \E b \in Calls : /\ flight'[x] = {b} /\ pc'[b] \in Loading
                              /\ Key(b)' = x
  <2>1. CASE x = k
    BY <1>1, <1>2, <2>1
  <2>2. CASE x # k
    <3>1. PICK b \in Calls : flight[x] = {b} /\ pc[b] \in Loading /\ Key(b) = x
      BY <1>1, <1>2, <1>3, <2>2 DEF LedInv
    <3> QED BY <1>1, <1>2, <2>2, <3>1
  <2> QED BY <2>1, <2>2
<1>4. ASSUME NEW b \in Calls, pc'[b] = "waiting" PROVE flight'[Key(b)'] # {}
  <2>1. pc[b] = "waiting"
    BY <1>1, <1>2, <1>4
  <2>2. Key(b) \in Keys /\ flight[Key(b)] # {}
    BY <1>2, <2>1, KeysName DEF InputOK, Handling, LedInv
  <2> QED BY <1>1, <1>2, <2>2
<1>5. ASSUME NEW b \in Calls, pc'[b] \in Loading \cup {"read", "waiting", "got"}
      PROVE  input'[b].kind \in {"get", "accept"}
  BY <1>1, <1>2, <1>5 DEF LedInv
<1> HIDE DEF k
<1> QED BY <1>3, <1>4, <1>5 DEF LedInv

\* Every step leaves the flights led.
LEMMA LedStep ==
    ASSUME LedInv, FlightInv, ControlInv, [ApiNext]_allVars
    PROVE  LedInv'
<1>1. DOMAIN pc = Calls /\ DOMAIN input = Calls
  BY DEF ControlInv, PcOK, InputOK
<1>2. ASSUME NEW c \in Calls, Receive(c) PROVE LedInv'
  <2>1. ASSUME NEW err, Reject(c, err)
        PROVE  flight' = flight /\ input' = input /\ pc' = [pc EXCEPT ![c] = "done"]
    BY <2>1 DEF Reject, Answer
  <2>2. ASSUME NEW kind, NEW order, NEW who, NEW seen, NEW at \in {"read", "insert"},
               at = "read" => kind \in {"get", "accept"},
               Pass(c, kind, order, who, seen, at)
        PROVE  /\ flight' = flight /\ pc' = [pc EXCEPT ![c] = at]
               /\ at = "read" => input'[c].kind \in {"get", "accept"}
               /\ \A b \in Calls \ {c} : input'[b] = input[b]
    BY <1>1, <2>2 DEF Pass
  <2>3. /\ flight' = flight /\ pc[c] = "new" /\ pc'[c] \in {"done", "read", "insert"}
        /\ pc'[c] = "read" => input'[c].kind \in {"get", "accept"}
        /\ \A b \in Calls \ {c} : input'[b] = input[b] /\ pc'[b] = pc[b]
    BY <1>1, <1>2, <2>1, <2>2 DEF Receive, PostOrder, GetOrder, AcceptOrder
  <2> QED BY <2>3, LedFrame DEF LedInv
<1>3. ASSUME NEW c \in Calls,
             \/ ReadDirect(c) \/ Hit(c) \/ Join(c) \/ HitL2(c) \/ Query(c)
             \/ FinishGet(c) \/ CheckAccept(c) \/ StartWrite(c) \/ FinishWrite(c)
             \/ FailRead(c)
      PROVE  LedInv'
  <2>1. flight' = flight /\ input' = input
    BY <1>3 DEF ReadDirect, Hit, Join, HitL2, Query, FinishGet, CheckAccept,
                StartWrite, FinishWrite, FailRead
  <2>2. PICK at \in Loaded \cup {"got", "waiting", "done", "insert", "inserting"} :
            /\ pc' = [pc EXCEPT ![c] = at]
            /\ at \in Loaded \cup {"got", "waiting"} =>
                   pc[c] \in {"read", "waiting", "leading"}
            /\ at \in Loaded <=> pc[c] = "leading"
            /\ at = "waiting" => flight[Key(c)] # {}
            /\ pc[c] \notin Loaded
    BY <1>3 DEF ReadDirect, Hit, Join, HitL2, Query, FinishGet, CheckAccept,
                StartWrite, FinishWrite, FailRead, Get, Answer
  <2>3. \A b \in Calls \ {c} : pc'[b] = pc[b]
    BY <2>2, <1>1
  <2>4. pc'[c] = at
    BY <2>2, <1>1
  <2> QED BY <2>1, <2>2, <2>3, <2>4, LedFrame DEF LedInv
<1>4. ASSUME NEW c \in Calls, Database(c) PROVE LedInv'
  BY <1>4, LedFrame DEF Database, apiVars, LedInv
<1>5. CASE Crash
  BY <1>5 DEF Crash, Handling, LedInv
<1>6. CASE (\E k \in Keys : Expire(k)) \/ AllAnswered \/ UNCHANGED allVars
  BY <1>6, LedFrame DEF Expire, AllAnswered, allVars, apiVars, LedInv
<1> QED BY <1>2, <1>3, <1>4, <1>5, <1>6, DeliverEndsFlight, LeadStartsFlight
        DEF ApiNext, Serve, Handle

\* Every flight has a leader that will end it, whatever fails, expires or dies.
LEMMA FlightsAreLed == ApiSpec => []LedInv
<1>1. ApiInit => LedInv
  BY DEF ApiInit, LedInv
<1>2. ApiInv /\ FlightInv /\ LedInv /\ [ApiNext]_allVars => LedInv'
  BY LedStep DEF ApiInv
<1> QED BY <1>1, <1>2, ApiInvariance, FlightInvariance, PTL DEF ApiSpec

\* For any number of requests, and whatever has failed or died before: whoever cannot
\* go on waits for somebody who can.  With the fairness of goroutines and statements
\* this is why every request is answered.
THEOREM SomebodyGoesOn == ApiSpec => []NobodyIsStuck
<1>1. ApiInv /\ LedInv /\ HoldersCanGo => NobodyIsStuck
  <2> SUFFICES ASSUME ApiInv, LedInv, HoldersCanGo, NEW c \in Calls
               PROVE  /\ pc[c] = "waiting" =>
                             \E b \in Calls : /\ flight[Key(c)] = {b} /\ Key(b) = Key(c)
                                              /\ pc[b] \in Loading
                      /\ pc[c] = "got" => input[c].kind \in {"get", "accept"}
                      /\ pc[c] = "insert" => stmt[c] = Idle
                      /\ pc[c] = "inserting" => \/ stmt[c].state \in Ended \/ CanGo(c)
                                                \/ \E b \in Calls : WaitsFor(c, b) /\ CanGo(b)
    BY DEF NobodyIsStuck
  <2>1. ASSUME pc[c] = "waiting"
        PROVE  \E b \in Calls : /\ flight[Key(c)] = {b} /\ Key(b) = Key(c)
                                /\ pc[b] \in Loading
    <3>1. Key(c) \in Keys
      BY <2>1, KeysName DEF ApiInv, ControlInv, InputOK, Handling
    <3> QED BY <2>1, <3>1 DEF LedInv
  <2>2. pc[c] = "got" => input[c].kind \in {"get", "accept"}
    BY DEF LedInv
  <2>3. pc[c] = "insert" => stmt[c] = Idle
    BY DEF ApiInv, WriteInv, Handling
  <2>4. ASSUME pc[c] = "inserting"
        PROVE  \/ stmt[c].state \in Ended \/ CanGo(c)
               \/ \E b \in Calls : WaitsFor(c, b) /\ CanGo(b)
    <3>1. stmt[c] # Idle
      BY <2>4 DEF ApiInv, WriteInv, Writes
    <3>2. stmt[c] \in Statement
      BY <3>1 DEF ApiInv, StoreInv, StoreTypeOK
    <3>3. stmt[c].state \in Ended \/ Running(c)
      BY <3>2 DEF Statement, Running
    <3> QED BY <3>3 DEF HoldersCanGo
  <2> QED BY <2>1, <2>2, <2>3, <2>4
<1> QED BY <1>1, ApiInvariance, FlightsAreLed, ApiTakesKeysInOrder, PTL
=============================================================================
