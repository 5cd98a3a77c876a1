-------------------------- MODULE OrderStoreProofs --------------------------
(***************************************************************************)
(* What OrderStore guarantees for every number of calls, orders, riders    *)
(* and drivers, with and without faults: the inductive invariant StoreInv, *)
(* the safety properties that follow from it, and that the tables          *)
(* implement the abstract ride service (module Ride).                      *)
(***************************************************************************)
EXTENDS OrderStore, TLAPS

(***************************************************************************)
(* What viewSQL, the guard and MAX(sequence) find, in the three shapes the *)
(* history of an order can have.                                           *)
(***************************************************************************)
HasSeq(o, n) == \E h \in history : h.order = o /\ h.seq = n

HistoryShape(o) ==
    /\ ~ HasSeq(o, 1) => /\ HistoryOf(o) = {}
                         /\ CurrentStatus(o) = "none"
                         /\ NextSeq(o) = 1
                         /\ ~ Guard(o)
    /\ HasSeq(o, 1) /\ ~ HasSeq(o, 2) => /\ CurrentStatus(o) = "requested"
                                         /\ NextSeq(o) = 2
                                         /\ Guard(o)
    /\ HasSeq(o, 2) => /\ HasSeq(o, 1)
                       /\ CurrentStatus(o) = "accepted"
                       /\ NextSeq(o) = 3
                       /\ ~ Guard(o)

\* acceptedSQL's guard, MAX(sequence) and viewSQL's last row are read off the
\* history rows alone: while these stay as HistoryInStep says, the three never
\* disagree about an order.
LEMMA ShapeOfHistory ==
    StoreTypeOK /\ HistoryInStep => \A o \in OrderIds : HistoryShape(o)
<1> SUFFICES ASSUME StoreTypeOK, HistoryInStep, NEW o \in OrderIds
             PROVE  HistoryShape(o)
  OBVIOUS
<1> USE DEF Requested, Accepted
<1>1. \A h \in HistoryOf(o) :
         /\ h \in history /\ h.order = o
         /\ h.seq \in Nat
         /\ \/ h.seq = 1 /\ h.status = Requested
            \/ h.seq = 2 /\ h.status = Accepted
  BY DEF HistoryOf, StoreTypeOK, HistoryInStep
<1>2. \A g, h \in HistoryOf(o) : g.seq = h.seq => g = h
  BY <1>1 DEF HistoryInStep
<1>3. \A h \in history : h.order = o => h \in HistoryOf(o)
  BY DEF HistoryOf
<1>4. HasSeq(o, 2) => HasSeq(o, 1)
  <2> SUFFICES ASSUME NEW h \in history, h.order = o, h.seq = 2
               PROVE  HasSeq(o, 1)
    BY DEF HasSeq
  <2>1. PICK a \in acceptances : a.order = o
    BY DEF HistoryInStep
  <2> QED BY <2>1 DEF HistoryInStep, HasSeq
<1>5. ASSUME NEW h \in HistoryOf(o), \A g \in HistoryOf(o) : g.seq <= h.seq
      PROVE  LastRow(o) = h
  <2>1. /\ LastRow(o) \in HistoryOf(o)
        /\ \A g \in HistoryOf(o) : g.seq <= LastRow(o).seq
    BY <1>5 DEF LastRow
  <2>2. LastRow(o).seq = h.seq
    BY <2>1, <1>5, <1>1
  <2> QED BY <2>1, <2>2, <1>2
<1>6. CASE ~ HasSeq(o, 1)
  <2>1. HistoryOf(o) = {}
    BY <1>1, <1>4, <1>6 DEF HasSeq
  <2> QED BY <2>1, <1>4, <1>6 DEF HistoryShape, CurrentStatus, NextSeq, Guard
<1>7. CASE HasSeq(o, 1) /\ ~ HasSeq(o, 2)
  <2>1. PICK h \in HistoryOf(o) : h.seq = 1
    BY <1>7, <1>3 DEF HasSeq
  <2>2. \A g \in HistoryOf(o) : g = h
    BY <2>1, <1>1, <1>2, <1>7 DEF HasSeq
  <2>3. LastRow(o) = h
    BY <2>1, <2>2, <1>5
  <2>4. h.status = Requested
    BY <2>1, <1>1
  <2> QED BY <1>7, <2>1, <2>2, <2>3, <2>4
          DEF HistoryShape, CurrentStatus, NextSeq, Guard
<1>8. CASE HasSeq(o, 2)
  <2>1. PICK h \in HistoryOf(o) : h.seq = 2
    BY <1>8, <1>3 DEF HasSeq
  <2>2. \A g \in HistoryOf(o) : g.seq <= h.seq
    BY <2>1, <1>1
  <2>3. LastRow(o) = h
    BY <2>2, <1>5
  <2>4. h.status = Accepted
    BY <2>1, <1>1
  <2> QED BY <1>4, <1>8, <2>1, <2>3, <2>4
          DEF HistoryShape, CurrentStatus, NextSeq, Guard
<1> QED BY <1>6, <1>7, <1>8

(***************************************************************************)
(* The steps of one statement.                                             *)
(***************************************************************************)

\* Before the first call nothing is written and no statement runs.
LEMMA InitEstablishes == StoreInit => StoreInv
<1> SUFFICES ASSUME StoreInit PROVE StoreInv
  OBVIOUS
<1>1. \A c \in Calls : stmt[c] = [state |-> "idle"]
  BY DEF StoreInit, Idle
<1>2. StoreTypeOK
  BY <1>1 DEF StoreInit, StoreTypeOK, Idle, Running
<1>3. OneEventPerChange /\ OneDriverPerOrder /\ HistoryInStep /\ RowsOfCalls
  BY DEF StoreInit, OneEventPerChange, OneDriverPerOrder, HistoryInStep,
         RowsOfCalls
<1>4. KeysHeld /\ SnapshotHolds /\ OutcomeIsTrue /\ LoserHasWinner
  BY <1>1 DEF KeysHeld, SnapshotHolds, OutcomeIsTrue, LoserHasWinner, Running
<1> QED BY <1>2, <1>3, <1>4 DEF StoreInv

\* A call that starts requestedSQL holds no key yet.
LEMMA BeginRequestedPreserves ==
    ASSUME StoreInv, NEW c \in Calls, NEW o \in OrderIds, NEW r \in Riders,
           BeginRequested(c, o, r)
    PROVE  StoreInv'
<1> DEFINE s == Start("requested", o, r, 1, "running")
<1>1. /\ stmt' = [stmt EXCEPT ![c] = s]
      /\ stmt[c].state = "idle"
      /\ UNCHANGED <<orders, history, acceptances, outbox, plan>>
  BY DEF BeginRequested, Idle
<1>2. /\ stmt'[c] = s
      /\ \A b \in Calls \ {c} : stmt'[b] = stmt[b]
  BY <1>1 DEF StoreInv, StoreTypeOK
<1>3. /\ s \in Statement
      /\ s.state = "running" /\ s.op = "requested" /\ s.order = o
      /\ s.who = r /\ s.seq = 1 /\ s.wrote = {}
  BY DEF Start, Statement, Ops, Ended
<1> HIDE DEF s
<1>4. StoreTypeOK'
  BY <1>1, <1>2, <1>3 DEF StoreInv, StoreTypeOK, Running
<1>5. KeysHeld'
  BY <1>1, <1>2, <1>3
     DEF StoreInv, KeysHeld, Running, Taken, Blocked, SameKey
<1>6. SnapshotHolds'
  BY <1>1, <1>2, <1>3 DEF StoreInv, SnapshotHolds, Running
<1>7. RowsOfCalls' /\ OutcomeIsTrue' /\ LoserHasWinner'
  BY <1>1, <1>2, <1>3 DEF StoreInv, RowsOfCalls, OutcomeIsTrue, LoserHasWinner
<1>8. OneEventPerChange' /\ OneDriverPerOrder' /\ HistoryInStep'
  BY <1>1 DEF StoreInv, OneEventPerChange, OneDriverPerOrder, HistoryInStep
<1> QED BY <1>4, <1>5, <1>6, <1>7, <1>8 DEF StoreInv

\* A call that starts acceptedSQL with a true guard has seen the order's
\* "requested" row and nothing after it; with a false one, and a history, it
\* has seen another call's acceptance.
LEMMA BeginAcceptedPreserves ==
    ASSUME StoreInv, NEW c \in Calls, NEW o \in OrderIds, NEW d \in Drivers,
           BeginAccepted(c, o, d)
    PROVE  StoreInv'
<1> DEFINE state == IF Guard(o) THEN "running" ELSE "norows"
           s == Start("accepted", o, d, NextSeq(o), state)
<1>1. /\ stmt' = [stmt EXCEPT ![c] = s]
      /\ stmt[c].state = "idle"
      /\ UNCHANGED <<orders, history, acceptances, outbox, plan>>
  BY DEF BeginAccepted, Idle
<1>2. /\ stmt'[c] = s
      /\ \A b \in Calls \ {c} : stmt'[b] = stmt[b]
  BY <1>1 DEF StoreInv, StoreTypeOK
<1>3. HistoryShape(o)
  BY ShapeOfHistory DEF StoreInv
<1>4. /\ NextSeq(o) \in {1, 2, 3}
      /\ Guard(o) => NextSeq(o) = 2 /\ HasSeq(o, 1)
      /\ ~ Guard(o) /\ NextSeq(o) > 1 => HasSeq(o, 2)
  BY <1>3 DEF HistoryShape
<1>5. /\ s \in Statement
      /\ s.state \in {"running", "norows"}
      /\ s.state = "running" <=> Guard(o)
      /\ s.op = "accepted" /\ s.order = o
      /\ s.who = d /\ s.seq = NextSeq(o) /\ s.wrote = {}
  BY <1>4 DEF Start, Statement, Ops, Ended
<1> HIDE DEF s, state
<1>6. StoreTypeOK'
  BY <1>1, <1>2, <1>5 DEF StoreInv, StoreTypeOK, Running
<1>7. KeysHeld'
  BY <1>1, <1>2, <1>5
     DEF StoreInv, KeysHeld, Running, Taken, Blocked, SameKey
<1>8. SnapshotHolds'
  BY <1>1, <1>2, <1>4, <1>5 DEF StoreInv, SnapshotHolds, Running, HasSeq
<1>9. RowsOfCalls' /\ OutcomeIsTrue'
  BY <1>1, <1>2, <1>5 DEF StoreInv, RowsOfCalls, OutcomeIsTrue
<1>10. LoserHasWinner'
  <2>1. s.state = "norows" /\ s.seq > 1 =>
            \E a \in acceptances : a.order = o /\ a.id # c
    BY <1>1, <1>4, <1>5
       DEF StoreInv, HistoryInStep, RowsOfCalls, HasSeq, Requested, Accepted
  <2> QED BY <2>1, <1>1, <1>2, <1>5 DEF StoreInv, LoserHasWinner
<1>11. OneEventPerChange' /\ OneDriverPerOrder' /\ HistoryInStep'
  BY <1>1 DEF StoreInv, OneEventPerChange, OneDriverPerOrder, HistoryInStep
<1> QED BY <1>6, <1>7, <1>8, <1>9, <1>10, <1>11 DEF StoreInv

\* An insertion either takes a key nobody has or ends the statement; a key that
\* is taken belongs to a call that got through.
LEMMA InsertPreserves ==
    ASSUME StoreInv, NEW c \in Calls,
           NEW t \in {"orders", "history", "acceptances"}, Insert(c, t)
    PROVE  StoreInv'
<1> DEFINE s == stmt'[c]
<1>1. /\ stmt[c].state = "running"
      /\ t \in Indexed[stmt[c].op]
      /\ ~ Blocked(c, t)
      /\ UNCHANGED <<orders, history, acceptances, outbox, plan>>
  BY DEF Insert, Running, Inserts
<1>2. /\ stmt'[c] = s
      /\ stmt' = [stmt EXCEPT ![c] = s]
      /\ \A b \in Calls \ {c} : stmt'[b] = stmt[b]
  BY DEF Insert, StoreInv, StoreTypeOK
<1>3. stmt[c] \in Statement
  BY <1>1 DEF StoreInv, StoreTypeOK, Idle
<1>4. /\ s \in Statement
      /\ s.op = stmt[c].op /\ s.order = stmt[c].order
      /\ s.who = stmt[c].who /\ s.seq = stmt[c].seq
      /\ Taken(c, t) => s.state = "unique" /\ s.wrote = {}
      /\ ~ Taken(c, t) => /\ s.state = "running"
                          /\ s.wrote = stmt[c].wrote \cup {t}
  BY <1>1, <1>3 DEF Insert, StoreInv, StoreTypeOK, Statement, Ended
<1> HIDE DEF s
<1>5. StoreTypeOK'
  BY <1>1, <1>2, <1>4 DEF StoreInv, StoreTypeOK, Running
<1>6. KeysHeld'
  <2> SUFFICES ASSUME NEW b \in Calls,
                      NEW u \in {"orders", "history", "acceptances"},
                      Running(b)', u \in stmt'[b].wrote
               PROVE  /\ u \in Indexed[stmt'[b].op]
                      /\ ~ Taken(b, u)'
                      /\ ~ Blocked(b, u)'
    BY DEF KeysHeld
  <2>1. CASE b = c /\ u = t
    <3>1. ~ Taken(c, t)
      BY <2>1, <1>2, <1>4
    <3>2. ~ Taken(b, u)'
      BY <2>1, <3>1, <1>1, <1>2, <1>4 DEF Taken
    <3>3. ~ Blocked(b, u)'
      BY <2>1, <1>1, <1>2, <1>4 DEF Blocked, Running, SameKey
    <3> QED BY <2>1, <3>2, <3>3, <1>1, <1>2, <1>4
  <2>2. CASE b = c /\ u # t
    <3>1. u \in stmt[c].wrote
      BY <2>2, <1>2, <1>4
    <3>2. u \in Indexed[stmt[c].op] /\ ~ Taken(c, u) /\ ~ Blocked(c, u)
      BY <3>1, <1>1 DEF StoreInv, KeysHeld, Running
    <3>3. ~ Taken(b, u)'
      BY <2>2, <3>2, <1>1, <1>2, <1>4 DEF Taken
    <3>4. ~ Blocked(b, u)'
      BY <2>2, <3>2, <1>1, <1>2, <1>4 DEF Blocked, Running, SameKey
    <3> QED BY <2>2, <3>2, <3>3, <3>4, <1>2, <1>4
  <2>3. CASE b # c
    <3>1. stmt'[b] = stmt[b]
      BY <2>3, <1>2
    <3>2. u \in Indexed[stmt[b].op] /\ ~ Taken(b, u) /\ ~ Blocked(b, u)
      BY <3>1 DEF StoreInv, KeysHeld, Running
    <3>3. ~ Taken(b, u)'
      BY <3>1, <3>2, <1>1 DEF Taken
    <3>4. ~ (stmt[b].state = "running" /\ t \in stmt[b].wrote /\ SameKey(b, c, t))
      BY <2>3, <1>1 DEF Blocked, Running
    <3>5. ~ Blocked(b, u)'
      <4> SUFFICES ASSUME Running(c)', u \in stmt'[c].wrote, SameKey(c, b, u)'
                   PROVE  FALSE
        BY <3>1, <3>2, <1>2 DEF Blocked, Running, SameKey
      <4>1. SameKey(c, b, u) /\ SameKey(b, c, u)
        BY <3>1, <1>2, <1>4 DEF SameKey
      <4>2. CASE u = t
        BY <4>1, <4>2, <3>1, <3>4 DEF Running
      <4>3. CASE u # t
        BY <4>1, <4>3, <3>2, <2>3, <1>1, <1>2, <1>4 DEF Blocked, Running
      <4> QED BY <4>2, <4>3
    <3> QED BY <3>1, <3>2, <3>3, <3>5
  <2> QED BY <2>1, <2>2, <2>3
<1>7. SnapshotHolds'
  BY <1>1, <1>2, <1>4 DEF StoreInv, SnapshotHolds, Running
<1>8. RowsOfCalls'
  BY <1>1, <1>2, <1>4 DEF StoreInv, RowsOfCalls
<1>9. OutcomeIsTrue'
  <2>1. stmt'[c].state = "unique" \/ stmt'[c].state = "running"
    BY <1>2, <1>4
  <2> QED BY <2>1, <1>1, <1>2, <1>8 DEF StoreInv, RowsOfCalls, OutcomeIsTrue
<1>10. LoserHasWinner'
  <2>1. CASE Taken(c, t)
    <3>1. \E e \in outbox : /\ e.order = stmt[c].order /\ e.id # c
                            /\ e.type = stmt[c].op
      <4>1. stmt[c].op \in {"requested", "accepted"}
        BY <1>3 DEF Statement, Ops
      <4>2. \A e \in outbox : e.id # c
        BY <1>1 DEF StoreInv, RowsOfCalls
      <4>3. CASE stmt[c].op = "requested"
        <5>1. \E x \in orders : x.id = stmt[c].order
          BY <2>1, <4>3, <1>1
             DEF Taken, Indexed, Ops, StoreInv, HistoryInStep, SnapshotHolds, Running
        <5> QED BY <5>1, <4>2, <4>3 DEF StoreInv, OneEventPerChange
      <4>4. CASE stmt[c].op = "accepted"
        <5>1. \E a \in acceptances : a.order = stmt[c].order
          BY <2>1, <4>4, <1>1
             DEF Taken, Indexed, Ops, StoreInv, HistoryInStep, SnapshotHolds, Running
        <5> QED BY <5>1, <4>2, <4>4 DEF StoreInv, OneEventPerChange
      <4> QED BY <4>1, <4>3, <4>4
    <3> QED BY <2>1, <3>1, <1>1, <1>2, <1>4 DEF StoreInv, LoserHasWinner
  <2>2. CASE ~ Taken(c, t)
    BY <2>2, <1>1, <1>2, <1>4 DEF StoreInv, LoserHasWinner
  <2> QED BY <2>1, <2>2
<1>11. OneEventPerChange' /\ OneDriverPerOrder' /\ HistoryInStep'
  BY <1>1 DEF StoreInv, OneEventPerChange, OneDriverPerOrder, HistoryInStep
<1> QED BY <1>5, <1>6, <1>7, <1>8, <1>9, <1>10, <1>11 DEF StoreInv

\* A statement that is rolled back releases its keys and leaves no row.
LEMMA AbortPreserves ==
    ASSUME StoreInv, NEW c \in Calls, Abort(c)
    PROVE  StoreInv'
<1> DEFINE s == stmt'[c]
<1>1. /\ stmt[c].state = "running"
      /\ UNCHANGED <<orders, history, acceptances, outbox, plan>>
  BY DEF Abort, Running
<1>2. /\ stmt'[c] = s
      /\ stmt' = [stmt EXCEPT ![c] = s]
      /\ \A b \in Calls \ {c} : stmt'[b] = stmt[b]
  BY DEF Abort, StoreInv, StoreTypeOK
<1>3. stmt[c] \in Statement
  BY <1>1 DEF StoreInv, StoreTypeOK, Idle
<1>4. s \in Statement /\ s.state = "failed" /\ s.wrote = {}
  BY <1>1, <1>3 DEF Abort, StoreInv, StoreTypeOK, Statement, Ended
<1> HIDE DEF s
<1>5. StoreTypeOK'
  BY <1>1, <1>2, <1>4 DEF StoreInv, StoreTypeOK, Running
<1>6. KeysHeld'
  BY <1>1, <1>2, <1>4
     DEF StoreInv, KeysHeld, Running, Taken, Blocked, SameKey
<1>7. SnapshotHolds'
  BY <1>1, <1>2, <1>4 DEF StoreInv, SnapshotHolds, Running
<1>8. RowsOfCalls' /\ OutcomeIsTrue' /\ LoserHasWinner'
  BY <1>1, <1>2, <1>4 DEF StoreInv, RowsOfCalls, OutcomeIsTrue, LoserHasWinner
<1>9. OneEventPerChange' /\ OneDriverPerOrder' /\ HistoryInStep'
  BY <1>1 DEF StoreInv, OneEventPerChange, OneDriverPerOrder, HistoryInStep
<1> QED BY <1>5, <1>6, <1>7, <1>8, <1>9 DEF StoreInv

\* The rows a statement publishes: what its keys and its snapshot say of them.
\* Shared by the invariance of StoreInv and by the refinement.
LEMMA RowsPublished ==
    ASSUME StoreInv, NEW c \in Calls, NEW result \in {"ok", "failed"},
           Publish(c, result)
    PROVE  LET o == stmt[c].order
               w == stmt[c].who
           IN  /\ stmt[c] \in Statement
               /\ o \in OrderIds
               /\ \A x \in history \cup acceptances \cup outbox : x.id # c
               /\ outbox' = outbox \cup
                    {[id |-> c, type |-> stmt[c].op, order |-> o, who |-> w]}
               /\ \/ /\ stmt[c].op = "requested" /\ w \in Riders
                     /\ \A x \in orders : x.id # o
                     /\ ~ HasSeq(o, 1) /\ ~ HasSeq(o, 2)
                     /\ orders' = orders \cup {[id |-> o, rider |-> w]}
                     /\ acceptances' = acceptances
                     /\ history' = history \cup
                          {[id |-> c, order |-> o, seq |-> 1, status |-> Requested]}
                  \/ /\ stmt[c].op = "accepted" /\ w \in Drivers
                     /\ \A a \in acceptances : a.order # o
                     /\ HasSeq(o, 1) /\ ~ HasSeq(o, 2)
                     /\ orders' = orders
                     /\ acceptances' = acceptances \cup
                          {[id |-> c, order |-> o, driver |-> w]}
                     /\ history' = history \cup
                          {[id |-> c, order |-> o, seq |-> 2, status |-> Accepted]}
<1>1. /\ stmt[c].state = "running"
      /\ stmt[c].wrote = Indexed[stmt[c].op]
  BY DEF Publish, Running
<1>2. /\ stmt[c] \in Statement
      /\ stmt[c].order \in OrderIds
      /\ stmt[c].op \in {"requested", "accepted"}
  BY <1>1 DEF StoreInv, StoreTypeOK, Idle, Statement, Ops
<1>3. \A x \in history \cup acceptances \cup outbox : x.id # c
  BY <1>1 DEF StoreInv, RowsOfCalls
<1>4. \A t \in {"orders", "history", "acceptances"} :
          t \in stmt[c].wrote => ~ Taken(c, t)
  BY <1>1 DEF StoreInv, KeysHeld, Running
<1>5. CASE stmt[c].op = "requested"
  <2>1. stmt[c].wrote = {"orders", "history"} /\ stmt[c].seq = 1
    BY <1>1, <1>5 DEF Indexed, Ops, StoreInv, SnapshotHolds, Running
  <2>2. /\ \A x \in orders : x.id # stmt[c].order
        /\ ~ HasSeq(stmt[c].order, 1)
    BY <2>1, <1>4 DEF Taken, HasSeq
  <2>3. ~ HasSeq(stmt[c].order, 2)
    BY <2>2, <1>2, ShapeOfHistory DEF StoreInv, HistoryShape
  <2>4. stmt[c].who \in Riders
    BY <1>1, <1>5 DEF StoreInv, StoreTypeOK, Running
  <2> QED BY <1>2, <1>3, <1>5, <2>1, <2>2, <2>3, <2>4 DEF Publish
<1>6. CASE stmt[c].op = "accepted"
  <2>1. stmt[c].wrote = {"acceptances", "history"} /\ stmt[c].seq = 2
    BY <1>1, <1>6 DEF Indexed, Ops, StoreInv, SnapshotHolds, Running
  <2>2. /\ \A a \in acceptances : a.order # stmt[c].order
        /\ ~ HasSeq(stmt[c].order, 2)
    BY <2>1, <1>4 DEF Taken, HasSeq
  <2>3. HasSeq(stmt[c].order, 1)
    BY <1>1, <1>6 DEF HasSeq, StoreInv, SnapshotHolds, Running
  <2>4. stmt[c].who \in Drivers
    BY <1>1, <1>6 DEF StoreInv, StoreTypeOK, Running
  <2> QED BY <1>2, <1>3, <1>6, <2>1, <2>2, <2>3, <2>4 DEF Publish
<1> QED BY <1>2, <1>5, <1>6

\* Committing keeps the tables in step with each other and takes no key that
\* another running statement has inserted.
LEMMA PublishPreserves ==
    ASSUME StoreInv, NEW c \in Calls, NEW result \in {"ok", "failed"},
           Publish(c, result)
    PROVE  StoreInv'
<1> DEFINE s == stmt'[c]
           o == stmt[c].order
           w == stmt[c].who
           isRequest == stmt[c].op = "requested"
           event == [id |-> c, type |-> stmt[c].op, order |-> o, who |-> w]
           order == [id |-> o, rider |-> w]
           acceptance == [id |-> c, order |-> o, driver |-> w]
           row == [id |-> c, order |-> o, seq |-> stmt[c].seq,
                   status |-> IF isRequest THEN Requested ELSE Accepted]
<1>1. /\ stmt[c].state = "running"
      /\ stmt[c].wrote = Indexed[stmt[c].op]
      /\ plan' = plan
  BY DEF Publish, Running
<1>2. /\ stmt'[c] = s
      /\ stmt' = [stmt EXCEPT ![c] = s]
      /\ \A b \in Calls \ {c} : stmt'[b] = stmt[b]
  BY DEF Publish, StoreInv, StoreTypeOK
<1>3. /\ stmt[c] \in Statement
      /\ o \in OrderIds
      /\ \A x \in history \cup acceptances \cup outbox : x.id # c
      /\ outbox' = outbox \cup {event}
  BY RowsPublished
<1>4. s \in Statement /\ s.state = result /\ s.wrote = {}
  BY <1>1, <1>3 DEF Publish, StoreInv, StoreTypeOK, Statement, Ended
<1>5. history' = history \cup {row}
  BY DEF Publish
<1>6. \/ /\ isRequest /\ w \in Riders
         /\ \A x \in orders : x.id # o
         /\ ~ HasSeq(o, 1) /\ ~ HasSeq(o, 2)
         /\ orders' = orders \cup {order}
         /\ acceptances' = acceptances
         /\ row.seq = 1 /\ row.status = Requested
      \/ /\ stmt[c].op = "accepted" /\ w \in Drivers
         /\ \A a \in acceptances : a.order # o
         /\ HasSeq(o, 1) /\ ~ HasSeq(o, 2)
         /\ orders' = orders
         /\ acceptances' = acceptances \cup {acceptance}
         /\ row.seq = 2 /\ row.status = Accepted
  <2>1. isRequest => stmt[c].seq = 1
    BY <1>1 DEF StoreInv, SnapshotHolds, Running
  <2>2. stmt[c].op = "accepted" => stmt[c].seq = 2
    BY <1>1 DEF StoreInv, SnapshotHolds, Running
  <2> QED BY RowsPublished, <2>1, <2>2
<1>7. /\ event.id = c /\ event.type = stmt[c].op
      /\ event.order = o /\ event.who = w
      /\ order.id = o /\ order.rider = w
      /\ acceptance.id = c /\ acceptance.order = o /\ acceptance.driver = w
      /\ row.id = c /\ row.order = o /\ row.seq = stmt[c].seq
  OBVIOUS
<1>8. StoreTypeOK'
  <2>1. /\ row \in [id : Calls, order : OrderIds, seq : Nat,
                    status : {Requested, Accepted}]
        /\ event \in [id : Calls, type : Ops, order : OrderIds,
                      who : Riders \cup Drivers]
    BY <1>3, <1>6 DEF Statement
  <2>2. \/ isRequest /\ order \in [id : OrderIds, rider : Riders]
        \/ /\ stmt[c].op = "accepted"
           /\ acceptance \in [id : Calls, order : OrderIds, driver : Drivers]
    BY <1>3, <1>6
  <2>3. /\ orders' \subseteq [id : OrderIds, rider : Riders]
        /\ acceptances' \subseteq [id : Calls, order : OrderIds, driver : Drivers]
    BY <1>3, <1>6 DEF StoreInv, StoreTypeOK
  <2>4. /\ stmt' \in [Calls -> Statement \cup {Idle}]
        /\ \A b \in Calls : Running(b)' =>
             stmt'[b].who \in IF stmt'[b].op = "requested" THEN Riders ELSE Drivers
    BY <1>2, <1>4 DEF StoreInv, StoreTypeOK, Running
  <2> HIDE DEF row, event
  <2> QED BY <1>1, <1>3, <1>5, <2>1, <2>3, <2>4 DEF StoreInv, StoreTypeOK
<1> HIDE DEF s, isRequest, event, order, acceptance, row
<1>9. OneDriverPerOrder'
  BY <1>6, <1>7 DEF StoreInv, OneDriverPerOrder
<1>10. OneEventPerChange'
  <2>1. ASSUME NEW x \in orders'
        PROVE  \E e \in outbox' :
                  /\ e.type = "requested" /\ e.order = x.id /\ e.who = x.rider
                  /\ \A f \in outbox' :
                        f.type = "requested" /\ f.order = x.id => f = e
    <3>1. CASE x \in orders
      <4>1. event.type = "requested" => event.order # x.id
        BY <3>1, <1>6, <1>7
      <4> QED BY <3>1, <4>1, <1>3 DEF StoreInv, OneEventPerChange
    <3>2. CASE x \notin orders
      <4>1. x = order /\ stmt[c].op = "requested"
        BY <3>2, <1>6 DEF isRequest
      <4>2. \A e \in outbox : e.type = "requested" => e.order # o
        BY <4>1, <1>6 DEF isRequest, StoreInv, OneEventPerChange
      <4> QED BY <4>1, <4>2, <1>3, <1>7
    <3> QED BY <3>1, <3>2
  <2>2. ASSUME NEW a \in acceptances'
        PROVE  \E e \in outbox' :
                  /\ e.type = "accepted" /\ e.order = a.order /\ e.who = a.driver
                  /\ \A f \in outbox' :
                        f.type = "accepted" /\ f.order = a.order => f = e
    <3>1. CASE a \in acceptances
      <4>1. event.type = "accepted" => event.order # a.order
        BY <3>1, <1>6, <1>7 DEF isRequest
      <4> QED BY <3>1, <4>1, <1>3 DEF StoreInv, OneEventPerChange
    <3>2. CASE a \notin acceptances
      <4>1. a = acceptance /\ stmt[c].op = "accepted"
        BY <3>2, <1>6
      <4>2. \A e \in outbox : e.type = "accepted" => e.order # o
        BY <4>1, <1>6 DEF isRequest, StoreInv, OneEventPerChange
      <4> QED BY <4>1, <4>2, <1>3, <1>7
    <3> QED BY <3>1, <3>2
  <2>3. ASSUME NEW e \in outbox'
        PROVE  IF e.type = "requested"
               THEN [id |-> e.order, rider |-> e.who] \in orders'
               ELSE [id |-> e.id, order |-> e.order, driver |-> e.who]
                      \in acceptances'
    <3>1. CASE e \in outbox
      BY <3>1, <1>6 DEF StoreInv, OneEventPerChange
    <3>2. CASE e = event
      BY <3>2, <1>6, <1>7 DEF isRequest, order, acceptance
    <3> QED BY <3>1, <3>2, <1>3
  <2> QED BY <2>1, <2>2, <2>3 DEF OneEventPerChange
<1>11. HistoryInStep'
  <2>1. CASE isRequest
    <3>1. /\ stmt[c].op = "requested"
          /\ \A h \in history : ~ (h.order = o /\ h.seq = 1)
      BY <2>1, <1>6 DEF isRequest, HasSeq
    <3> QED BY <3>1, <1>5, <1>6, <1>7 DEF StoreInv, HistoryInStep
  <2>2. CASE stmt[c].op = "accepted"
    <3>1. /\ ~ isRequest
          /\ \A h \in history : ~ (h.order = o /\ h.seq = 2)
          /\ \E h \in history : h.order = o /\ h.seq = 1
      BY <2>2, <1>6 DEF isRequest, HasSeq
    <3> QED BY <3>1, <1>5, <1>6, <1>7 DEF StoreInv, HistoryInStep
  <2> QED BY <1>6, <2>1, <2>2
<1>12. KeysHeld'
  <2> SUFFICES ASSUME NEW b \in Calls,
                      NEW u \in {"orders", "history", "acceptances"},
                      Running(b)', u \in stmt'[b].wrote
               PROVE  /\ u \in Indexed[stmt'[b].op]
                      /\ ~ Taken(b, u)'
                      /\ ~ Blocked(b, u)'
    BY DEF KeysHeld
  <2>1. b # c /\ stmt'[b] = stmt[b]
    BY <1>2, <1>4
  <2>2. u \in Indexed[stmt[b].op] /\ ~ Taken(b, u) /\ ~ Blocked(b, u)
    BY <2>1 DEF StoreInv, KeysHeld, Running
  <2>3. ~ (u \in Indexed[stmt[c].op] /\ SameKey(c, b, u))
    BY <2>1, <2>2, <1>1 DEF Blocked, Running
  <2>4. ~ Taken(b, u)'
    <3>1. isRequest => Indexed[stmt[c].op] = {"orders", "history"}
      BY DEF Indexed, Ops, isRequest
    <3>2. stmt[c].op = "accepted" => Indexed[stmt[c].op] = {"acceptances", "history"}
      BY DEF Indexed, Ops
    <3> QED BY <3>1, <3>2, <2>1, <2>2, <2>3, <1>5, <1>6, <1>7
            DEF Taken, SameKey, isRequest
  <2>5. ~ Blocked(b, u)'
    BY <2>1, <2>2, <1>2, <1>4 DEF Blocked, Running, SameKey
  <2> QED BY <2>1, <2>2, <2>4, <2>5
<1>13. SnapshotHolds'
  BY <1>2, <1>4, <1>5 DEF StoreInv, SnapshotHolds, Running
<1>14. RowsOfCalls'
  <2> SUFFICES ASSUME NEW b \in Calls,
                      stmt'[b].state \in {"idle", "running", "norows", "unique"}
               PROVE  /\ \A e \in outbox' : e.id # b
                      /\ \A h \in history' : h.id # b
                      /\ \A a \in acceptances' : a.id # b
    BY DEF RowsOfCalls
  <2>1. b # c /\ stmt'[b] = stmt[b]
    BY <1>2, <1>4
  <2> QED BY <2>1, <1>3, <1>5, <1>6, <1>7 DEF StoreInv, RowsOfCalls
<1>15. OutcomeIsTrue'
  <2> SUFFICES ASSUME NEW b \in Calls, stmt'[b].state = "ok"
               PROVE  /\ \E e \in outbox' : e.id = b
                      /\ \E h \in history' : h.id = b
    BY <1>14 DEF OutcomeIsTrue, RowsOfCalls
  <2>1. CASE b = c
    BY <2>1, <1>3, <1>5, <1>7
  <2>2. CASE b # c
    BY <2>2, <1>2, <1>3, <1>5 DEF StoreInv, OutcomeIsTrue
  <2> QED BY <2>1, <2>2
<1>16. LoserHasWinner'
  BY <1>2, <1>3, <1>4, <1>6 DEF StoreInv, LoserHasWinner
<1> QED BY <1>8, <1>9, <1>10, <1>11, <1>12, <1>13, <1>14, <1>15, <1>16
        DEF StoreInv

\* Every step of every call, and doing nothing, preserves StoreInv.
LEMMA NextPreserves == StoreInv /\ [StoreNext]_storeVars => StoreInv'
<1> SUFFICES ASSUME StoreInv, [StoreNext]_storeVars PROVE StoreInv'
  OBVIOUS
<1>1. CASE UNCHANGED storeVars
  BY <1>1 DEF storeVars, StoreInv, StoreTypeOK, OneEventPerChange,
     OneDriverPerOrder, HistoryInStep, KeysHeld, SnapshotHolds, RowsOfCalls,
     OutcomeIsTrue, LoserHasWinner, Running, Taken, Blocked, SameKey
<1>2. CASE AllEnded
  BY <1>1, <1>2 DEF AllEnded
<1>3. ASSUME NEW c \in Calls, NEW o \in OrderIds, NEW r \in Riders,
             BeginRequested(c, o, r)
      PROVE  StoreInv'
  BY <1>3, BeginRequestedPreserves
<1>4. ASSUME NEW c \in Calls, NEW o \in OrderIds, NEW d \in Drivers,
             BeginAccepted(c, o, d)
      PROVE  StoreInv'
  BY <1>4, BeginAcceptedPreserves
<1>5. ASSUME NEW c \in Calls, NEW t \in {"orders", "history", "acceptances"},
             Insert(c, t)
      PROVE  StoreInv'
  BY <1>5, InsertPreserves
<1>6. ASSUME NEW c \in Calls, Commit(c)
      PROVE  StoreInv'
  BY <1>6, PublishPreserves DEF Commit
<1>7. ASSUME NEW c \in Calls, LoseReply(c)
      PROVE  StoreInv'
  BY <1>7, PublishPreserves DEF LoseReply
<1>8. ASSUME NEW c \in Calls, Abort(c)
      PROVE  StoreInv'
  BY <1>8, AbortPreserves
<1> QED BY <1>1, <1>2, <1>3, <1>4, <1>5, <1>6, <1>7, <1>8
        DEF StoreNext, StoreStep, Progress

\* The inductive invariant: the tables stay in step, keys are held by one
\* statement, and what calls report is what they did.
THEOREM StoreInvariance == StoreSpec => []StoreInv
<1> QED BY InitEstablishes, NextPreserves, PTL DEF StoreSpec

\* The columns of the tables and the states of the statements keep their types.
THEOREM TypesHold == StoreSpec => []StoreTypeOK
<1>1. StoreInv => StoreTypeOK
  BY DEF StoreInv
<1> QED BY <1>1, StoreInvariance, PTL

\* Each order and each acceptance has exactly one event, and each event its row.
THEOREM EventsMatchChanges == StoreSpec => []OneEventPerChange
<1>1. StoreInv => OneEventPerChange
  BY DEF StoreInv
<1> QED BY <1>1, StoreInvariance, PTL

\* However many drivers race for an order, one at most gets it.
THEOREM OneDriverWins == StoreSpec => []OneDriverPerOrder
<1>1. StoreInv => OneDriverPerOrder
  BY DEF StoreInv
<1> QED BY <1>1, StoreInvariance, PTL

\* A call that is told success has its rows; one that is told a rejection has
\* none.
THEOREM OutcomesAreTrue == StoreSpec => []OutcomeIsTrue
<1>1. StoreInv => OutcomeIsTrue
  BY DEF StoreInv
<1> QED BY <1>1, StoreInvariance, PTL

\* A call that is rejected lost to a call that got through.
THEOREM LosersHaveWinners == StoreSpec => []LoserHasWinner
<1>1. StoreInv => LoserHasWinner
  BY DEF StoreInv
<1> QED BY <1>1, StoreInvariance, PTL

\* The guard's question (do these rows exist?) is the question meant (is this
\* the current status?).
THEOREM GuardIsSound == StoreSpec => []GuardIsCurrentStatus
<1>1. StoreInv => GuardIsCurrentStatus
  BY ShapeOfHistory DEF StoreInv, GuardIsCurrentStatus, HistoryShape
<1> QED BY <1>1, StoreInvariance, PTL

\* The status column a reader sees agrees with the orders and acceptances rows.
THEOREM StatusIsSound == StoreSpec => []StatusAgreesWithRows
<1>1. StoreInv => StatusAgreesWithRows
  <2> SUFFICES ASSUME StoreInv, NEW o \in OrderIds
               PROVE  LET requested == \E x \in orders : x.id = o
                          accepted == \E a \in acceptances : a.order = o
                      IN  CurrentStatus(o) = IF accepted THEN "accepted"
                                             ELSE IF requested THEN "requested"
                                             ELSE "none"
    BY DEF StatusAgreesWithRows
  <2>1. /\ HasSeq(o, 1) <=> \E x \in orders : x.id = o
        /\ HasSeq(o, 2) <=> \E a \in acceptances : a.order = o
    BY DEF StoreInv, HistoryInStep, HasSeq
  <2> QED BY <2>1, ShapeOfHistory DEF StoreInv, HistoryShape
<1> QED BY <1>1, StoreInvariance, PTL

(***************************************************************************)
(* Who waits for whom.                                                     *)
(***************************************************************************)

\* The two tables of a statement, the first and the other one.
LEMMA TwoTables ==
    ASSUME NEW op \in Ops
    PROVE  /\ FirstTable(op) \in Indexed[op]
           /\ Indexed[op] \subseteq {"orders", "history", "acceptances"}
           /\ \E other : /\ other # FirstTable(op)
                         /\ Indexed[op] = {FirstTable(op), other}
           /\ \A t \in Indexed[op] :
                  (t = "history") = (plan[op] = "historyFirst") => t = FirstTable(op)
<1>1. Indexed[op] = IF op = "requested" THEN {"orders", "history"}
                                        ELSE {"acceptances", "history"}
  BY DEF Indexed
<1>2. CASE plan[op] = "historyFirst"
  BY <1>1, <1>2 DEF FirstTable
<1>3. CASE plan[op] # "historyFirst"
  <2>1. FirstTable(op) = IF op = "requested" THEN "orders" ELSE "acceptances"
    BY <1>3 DEF FirstTable
  <2> QED BY <1>1, <1>3, <2>1
<1> QED BY <1>2, <1>3

\* The first insertion is into the first table.
LEMMA FirstInsert ==
    ASSUME NEW c \in Calls, stmt[c].op \in Ops, stmt[c].wrote = {},
           NEW t, Inserts(c, t)
    PROVE  t = FirstTable(stmt[c].op)
<1>1. /\ t \in Indexed[stmt[c].op]
      /\ \/ (t = "history") = (plan[stmt[c].op] = "historyFirst")
         \/ Indexed[stmt[c].op] = {t}
  BY DEF Inserts
<1> QED BY <1>1, TwoTables

\* Whoever has inserted into one table finds the key of the other one free: a
\* committed row or a rival that has it would have the first one as well.
LEMMA SecondIsFree ==
    ASSUME StoreInv, KeysInOrder, NEW c \in Calls, Running(c),
           stmt[c].wrote = {FirstTable(stmt[c].op)}, NEW t, Inserts(c, t)
    PROVE  /\ t # FirstTable(stmt[c].op) /\ Indexed[stmt[c].op] = {FirstTable(stmt[c].op), t}
           /\ ~ Taken(c, t)
           /\ ~ Blocked(c, t)
<1> DEFINE op == stmt[c].op
           first == FirstTable(op)
<1>1. stmt[c] \in Statement /\ op \in Ops
  BY DEF StoreInv, StoreTypeOK, Running, Idle, Statement
<1>2. first \in {"orders", "history", "acceptances"} /\ first \in Indexed[op]
  BY <1>1, TwoTables
<1>3. t # first /\ Indexed[op] = {first, t}
  <2>1. t \in Indexed[op] /\ t \notin {first}
    BY DEF Inserts
  <2>2. PICK other : other # first /\ Indexed[op] = {first, other}
    BY <1>1, TwoTables
  <2> QED BY <2>1, <2>2
<1>4. ~ Taken(c, first) /\ ~ Blocked(c, first)
  BY <1>2 DEF StoreInv, KeysHeld
<1>5. Indexed[op] = IF op = "requested" THEN {"orders", "history"}
                                        ELSE {"acceptances", "history"}
  BY <1>1 DEF Indexed
<1>6. stmt[c].seq = IF op = "requested" THEN 1 ELSE 2
  BY DEF StoreInv, SnapshotHolds
<1>7. ~ Taken(c, t)
  <2>1. CASE op = "requested"
    <3>1. (\E x \in orders : x.id = stmt[c].order) <=>
              (\E x \in history : x.order = stmt[c].order /\ x.seq = 1)
      BY DEF StoreInv, HistoryInStep
    <3> QED BY <1>3, <1>4, <1>5, <1>6, <2>1, <3>1 DEF Taken
  <2>2. CASE op = "accepted"
    <3>1. (\E x \in acceptances : x.order = stmt[c].order) <=>
              (\E x \in history : x.order = stmt[c].order /\ x.seq = 2)
      BY DEF StoreInv, HistoryInStep
    <3> QED BY <1>3, <1>4, <1>5, <1>6, <2>2, <3>1 DEF Taken
  <2> QED BY <1>1, <2>1, <2>2 DEF Ops
<1>8. ~ Blocked(c, t)
  <2> SUFFICES ASSUME NEW b \in Calls \ {c}, Running(b), t \in stmt[b].wrote,
                      SameKey(b, c, t)
               PROVE  FALSE
    BY DEF Blocked
  <2>1. stmt[b].op \in Ops /\ t \in Indexed[stmt[b].op]
    <3>1. stmt[b] \in Statement
      BY DEF StoreInv, StoreTypeOK, Running, Idle
    <3>2. t \in {"orders", "history", "acceptances"}
      BY <1>1, <1>3, TwoTables
    <3> QED BY <3>1, <3>2 DEF Statement, StoreInv, KeysHeld
  <2>2. stmt[b].seq = IF stmt[b].op = "requested" THEN 1 ELSE 2
    BY DEF StoreInv, SnapshotHolds
  <2>3. stmt[b].op = op /\ stmt[b].order = stmt[c].order /\ stmt[b].seq = stmt[c].seq
    <3>1. Indexed[stmt[b].op] = IF stmt[b].op = "requested" THEN {"orders", "history"}
                                                  ELSE {"acceptances", "history"}
      BY <2>1 DEF Indexed
    <3> QED BY <1>1, <1>3, <1>5, <1>6, <2>1, <2>2, <3>1 DEF SameKey, Ops
  <2>4. first \in stmt[b].wrote
    BY <1>2, <1>3, <2>3 DEF KeysInOrder
  <2>5. Blocked(c, first)
    BY <2>3, <2>4 DEF Blocked, SameKey
  <2> QED BY <1>4, <2>5
<1> QED BY <1>3, <1>7, <1>8

\* An insertion goes on along the plan, or fails on the first key.
LEMMA InsertKeepsOrder ==
    ASSUME StoreInv, KeysInOrder, NEW c \in Calls,
           NEW t \in {"orders", "history", "acceptances"}, Insert(c, t)
    PROVE  KeysInOrder'
<1> DEFINE s == stmt'[c]
           first == FirstTable(stmt[c].op)
<1>1. /\ Running(c) /\ Inserts(c, t) /\ plan' = plan
      /\ stmt[c] \in Statement /\ stmt[c].op \in Ops
  BY DEF Insert, StoreInv, StoreTypeOK, Running, Idle, Statement
<1>2. \A b \in Calls \ {c} : stmt'[b] = stmt[b]
  BY DEF Insert, StoreInv, StoreTypeOK
<1>3. /\ s.op = stmt[c].op
      /\ Taken(c, t) => s.state = "unique" /\ s.hit = t
      /\ ~ Taken(c, t) => s.state = "running" /\ s.wrote = stmt[c].wrote \cup {t}
  BY <1>1 DEF Insert, StoreInv, StoreTypeOK, Statement, Running
<1>4. stmt[c].wrote \in {{}, {first}}
  BY <1>1 DEF KeysInOrder, Inserts
<1>5. /\ Taken(c, t) => t = first
      /\ stmt[c].wrote \cup {t} = {first} \/ stmt[c].wrote \cup {t} = Indexed[stmt[c].op]
  <2>1. CASE stmt[c].wrote = {}
    BY <1>1, <2>1, FirstInsert
  <2>2. CASE stmt[c].wrote = {first}
    BY <1>1, <2>2, SecondIsFree
  <2> QED BY <1>4, <2>1, <2>2
<1>6. \A op : FirstTable(op)' = FirstTable(op)
  BY <1>1 DEF FirstTable
<1> HIDE DEF s, first
<1>7. /\ Running(c)' => \/ stmt'[c].wrote \in {{}, {FirstTable(stmt[c].op)}}
                        \/ stmt'[c].wrote = Indexed[stmt[c].op]
      /\ stmt'[c].state = "unique" => stmt'[c].hit = FirstTable(stmt[c].op)
  BY <1>3, <1>5 DEF s, first, Running
<1> QED BY <1>2, <1>3, <1>6, <1>7 DEF KeysInOrder, Running, s

\* No step takes keys out of order.
LEMMA KeysStep ==
    ASSUME StoreInv, KeysInOrder, [StoreNext]_storeVars
    PROVE  KeysInOrder'
<1>1. CASE \E c \in Calls, t \in {"orders", "history", "acceptances"} : Insert(c, t)
  BY <1>1, InsertKeepsOrder
<1>2. ASSUME NEW c \in Calls, plan' = plan, \A b \in Calls \ {c} : stmt'[b] = stmt[b],
             stmt'[c].wrote = {}, stmt'[c].state # "unique"
      PROVE  KeysInOrder'
  <2>1. \A op : FirstTable(op)' = FirstTable(op)
    BY <1>2 DEF FirstTable
  <2> QED BY <1>2, <2>1 DEF KeysInOrder, Running
<1>3. DOMAIN stmt = Calls /\ \A c \in Calls : Running(c) => stmt[c] \in Statement
  BY DEF StoreInv, StoreTypeOK, Running, Idle
<1>4. ASSUME NEW c \in Calls, NEW o \in OrderIds, NEW r \in Riders, BeginRequested(c, o, r)
      PROVE  KeysInOrder'
  <2>1. stmt'[c].wrote = {} /\ stmt'[c].state # "unique"
    BY <1>3, <1>4 DEF BeginRequested, Start
  <2> QED BY <1>2, <1>3, <1>4, <2>1 DEF BeginRequested
<1>5. ASSUME NEW c \in Calls, NEW o \in OrderIds, NEW d \in Drivers, BeginAccepted(c, o, d)
      PROVE  KeysInOrder'
  <2>1. stmt'[c].wrote = {} /\ stmt'[c].state # "unique"
    BY <1>3, <1>5 DEF BeginAccepted, Start
  <2> QED BY <1>2, <1>3, <1>5, <2>1 DEF BeginAccepted
<1>6. ASSUME NEW c \in Calls, NEW result \in {"ok", "failed"}, Publish(c, result)
      PROVE  KeysInOrder'
  <2>1. Running(c) /\ stmt' = [stmt EXCEPT ![c].state = result, ![c].wrote = {}] /\ plan' = plan
    BY <1>6 DEF Publish
  <2>2. stmt'[c].wrote = {} /\ stmt'[c].state # "unique"
    BY <1>3, <2>1 DEF Statement
  <2> QED BY <1>2, <1>3, <2>1, <2>2
<1>7. ASSUME NEW c \in Calls, Abort(c)
      PROVE  KeysInOrder'
  <2>1. Running(c) /\ stmt' = [stmt EXCEPT ![c].state = "failed", ![c].wrote = {}] /\ plan' = plan
    BY <1>7 DEF Abort
  <2>2. stmt'[c].wrote = {} /\ stmt'[c].state # "unique"
    BY <1>3, <2>1 DEF Statement
  <2> QED BY <1>2, <1>3, <2>1, <2>2
<1>8. CASE UNCHANGED storeVars
  BY <1>8 DEF storeVars, KeysInOrder, Running, FirstTable
<1> QED BY <1>1, <1>4, <1>5, <1>6, <1>7, <1>8
        DEF StoreNext, StoreStep, Progress, AllEnded, Commit, LoseReply

\* Losers of a race are stopped at the first key of the plan
\* (drivers/repository.go:32-47): which constraint a service has to recognise is
\* the planner's choice, never the course of the race.
THEOREM LosersAreStoppedFirst == StoreSpec => []KeysInOrder
<1>1. StoreInit => KeysInOrder
  <2> SUFFICES ASSUME StoreInit PROVE KeysInOrder
    OBVIOUS
  <2>1. \A c \in Calls : stmt[c].state = "idle"
    BY DEF StoreInit, Idle
  <2> QED BY <2>1 DEF KeysInOrder, Running
<1>2. StoreInv /\ KeysInOrder /\ [StoreNext]_storeVars => KeysInOrder'
  BY KeysStep
<1> QED BY <1>1, <1>2, StoreInvariance, PTL DEF StoreSpec

\* A statement that holds a key can go on.
LEMMA HolderGoes ==
    ASSUME StoreInv, KeysInOrder, NEW b \in Calls, Running(b), stmt[b].wrote # {}
    PROVE  CanGo(b)
<1>1. stmt[b].op \in Ops
  BY DEF StoreInv, StoreTypeOK, Running, Idle, Statement
<1>2. CASE stmt[b].wrote = Indexed[stmt[b].op]
  BY <1>2 DEF CanGo
<1>3. CASE stmt[b].wrote = {FirstTable(stmt[b].op)}
  <2>1. PICK t : /\ t # FirstTable(stmt[b].op)
                 /\ Indexed[stmt[b].op] = {FirstTable(stmt[b].op), t}
    BY <1>1, TwoTables
  <2>2. Inserts(b, t)
    BY <1>3, <2>1 DEF Inserts
  <2>3. t \in {"orders", "history", "acceptances"}
    BY <1>1, <2>1, TwoTables
  <2>4. ~ Blocked(b, t)
    BY <1>3, <2>2, SecondIsFree
  <2> QED BY <2>2, <2>3, <2>4 DEF CanGo
<1> QED BY <1>2, <1>3 DEF KeysInOrder

\* For any number of statements, whoever waits waits for one that can go on: there
\* is no circle, and no queue behind a queue (drivers/repository.go:32-47).
THEOREM NobodyWaitsInACircle == StoreSpec => []HoldersCanGo
<1>1. StoreInv /\ KeysInOrder => HoldersCanGo
  <2> SUFFICES ASSUME StoreInv, KeysInOrder, NEW c \in Calls, Running(c), ~ CanGo(c)
               PROVE  \E b \in Calls : WaitsFor(c, b) /\ CanGo(b)
    BY DEF HoldersCanGo
  <2>1. stmt[c].op \in Ops /\ stmt[c].wrote = {}
    BY HolderGoes DEF StoreInv, StoreTypeOK, Running, Idle, Statement
  <2> DEFINE first == FirstTable(stmt[c].op)
  <2>2. first \in {"orders", "history", "acceptances"} /\ Inserts(c, first)
    <3>1. (first = "history") = (plan[stmt[c].op] = "historyFirst")
      BY <2>1 DEF FirstTable, Ops
    <3> QED BY <2>1, <3>1, TwoTables DEF Inserts
  <2>3. PICK b \in Calls \ {c} : Running(b) /\ first \in stmt[b].wrote /\ SameKey(b, c, first)
    BY <2>2 DEF CanGo, Blocked
  <2>4. WaitsFor(c, b)
    <3>1. SameKey(c, b, first)
      BY <2>3 DEF SameKey
    <3> QED BY <2>2, <2>3, <3>1 DEF WaitsFor
  <2>5. CanGo(b)
    BY <2>3, HolderGoes
  <2> QED BY <2>4, <2>5
<1> QED BY <1>1, StoreInvariance, LosersAreStoppedFirst, PTL

(***************************************************************************)
(* The tables implement the abstract ride service: a commit is one of its  *)
(* steps, every other step of a statement is invisible to it.              *)
(***************************************************************************)

AllShapes == \A o \in OrderIds : HistoryShape(o)

\* The histories keep their shape after a step as well.
LEMMA ShapeAfterStep == StoreInv' => AllShapes'
<1>1. StoreInv => AllShapes
  BY ShapeOfHistory DEF StoreInv, AllShapes
<1> QED BY <1>1, PTL

\* One more row in the history changes the shape of one order only.
LEMMA RowAdded ==
    ASSUME NEW p \in OrderIds, NEW n \in {1, 2}, NEW row,
           row.order = p, row.seq = n, history' = history \cup {row}
    PROVE  \A o \in OrderIds, m \in {1, 2} :
               HasSeq(o, m)' <=> HasSeq(o, m) \/ (o = p /\ m = n)
<1> QED BY DEF HasSeq

\* So the status of that order changes, and of no other.
LEMMA StatusAfterRow ==
    ASSUME StoreInv, StoreInv', NEW p \in OrderIds, NEW n \in {1, 2}, NEW row,
           row.order = p, row.seq = n, history' = history \cup {row},
           ~ HasSeq(p, n), n = 2 => HasSeq(p, 1), n = 1 => ~ HasSeq(p, 2)
    PROVE  /\ CurrentStatus(p) = IF n = 1 THEN "none" ELSE "requested"
           /\ [o \in OrderIds |-> CurrentStatus(o)]' =
                [[o \in OrderIds |-> CurrentStatus(o)] EXCEPT
                    ![p] = IF n = 1 THEN "requested" ELSE "accepted"]
<1>1. ASSUME NEW o \in OrderIds
      PROVE  /\ CurrentStatus(o) = IF HasSeq(o, 2) THEN "accepted"
                   ELSE IF HasSeq(o, 1) THEN "requested" ELSE "none"
             /\ CurrentStatus(o)' = IF HasSeq(o, 2)' THEN "accepted"
                   ELSE IF HasSeq(o, 1)' THEN "requested" ELSE "none"
  <2>1. HistoryShape(o) /\ HistoryShape(o)'
    BY ShapeOfHistory, ShapeAfterStep DEF StoreInv, AllShapes
  <2> QED BY <2>1 DEF HistoryShape
<1>2. \A o \in OrderIds, m \in {1, 2} :
          HasSeq(o, m)' <=> HasSeq(o, m) \/ (o = p /\ m = n)
  BY RowAdded
<1>3. ASSUME NEW o \in OrderIds
      PROVE  CurrentStatus(o)' =
               IF o # p THEN CurrentStatus(o)
               ELSE IF n = 1 THEN "requested" ELSE "accepted"
  BY <1>1, <1>2
<1> QED BY <1>1, <1>3

\* A commit of requestedSQL is Request, one of acceptedSQL is Accept.
LEMMA PublishIsAbstractStep ==
    ASSUME StoreInv, StoreInv', NEW c \in Calls, NEW result \in {"ok", "failed"},
           Publish(c, result)
    PROVE  R!RideNext
<1> DEFINE p == stmt[c].order
           w == stmt[c].who
           row(n, st) == [id |-> c, order |-> p, seq |-> n, status |-> st]
<1>1. /\ p \in OrderIds
      /\ \A x \in outbox : x.id # c
      /\ outbox' = outbox \cup
           {[id |-> c, type |-> stmt[c].op, order |-> p, who |-> w]}
  BY RowsPublished
<1>2. CASE stmt[c].op = "requested"
  <2>1. /\ w \in Riders
        /\ ~ HasSeq(p, 1) /\ ~ HasSeq(p, 2)
        /\ orders' = orders \cup {[id |-> p, rider |-> w]}
        /\ acceptances' = acceptances
        /\ history' = history \cup {row(1, Requested)}
    BY <1>2, RowsPublished
  <2>2. row(1, Requested).order = p /\ row(1, Requested).seq = 1
    OBVIOUS
  <2> HIDE DEF p, row
  <2>3. /\ CurrentStatus(p) = "none"
        /\ [o \in OrderIds |-> CurrentStatus(o)]' =
             [[o \in OrderIds |-> CurrentStatus(o)] EXCEPT ![p] = "requested"]
    BY <1>1, <2>1, <2>2, StatusAfterRow
  <2>4. R!Request(c, p, w)
    BY <1>1, <1>2, <2>1, <2>3 DEF R!Request, R!Fresh, R!Event
  <2> QED BY <1>1, <2>1, <2>4 DEF R!RideNext
<1>3. CASE stmt[c].op = "accepted"
  <2>1. /\ w \in Drivers
        /\ HasSeq(p, 1) /\ ~ HasSeq(p, 2)
        /\ orders' = orders
        /\ acceptances' = acceptances \cup
             {[id |-> c, order |-> p, driver |-> w]}
        /\ history' = history \cup {row(2, Accepted)}
    BY <1>3, RowsPublished
  <2>2. row(2, Accepted).order = p /\ row(2, Accepted).seq = 2
    OBVIOUS
  <2> HIDE DEF p, row
  <2>3. /\ CurrentStatus(p) = "requested"
        /\ [o \in OrderIds |-> CurrentStatus(o)]' =
             [[o \in OrderIds |-> CurrentStatus(o)] EXCEPT ![p] = "accepted"]
    BY <1>1, <2>1, <2>2, StatusAfterRow
  <2>4. R!Accept(c, p, w)
    BY <1>1, <1>3, <2>1, <2>3 DEF R!Accept, R!Fresh, R!Event
  <2> QED BY <1>1, <2>1, <2>4 DEF R!RideNext
<1> QED BY <1>2, <1>3, RowsPublished

\* A step of a statement that does not commit leaves the tables alone.
LEMMA StepRefines == StoreInv /\ StoreInv' /\ [StoreNext]_storeVars => [R!RideNext]_R!rideVars
<1> SUFFICES ASSUME StoreInv, StoreInv', [StoreNext]_storeVars
             PROVE  [R!RideNext]_R!rideVars
  OBVIOUS
<1>1. CASE UNCHANGED tables
  <2>1. \A o \in OrderIds : CurrentStatus(o)' = CurrentStatus(o)
    BY <1>1 DEF tables, CurrentStatus, HistoryOf, LastRow
  <2> QED BY <1>1, <2>1 DEF tables, R!rideVars
<1>2. ASSUME NEW c \in Calls, Commit(c)
      PROVE  R!RideNext
  BY <1>2, PublishIsAbstractStep DEF Commit
<1>3. ASSUME NEW c \in Calls, LoseReply(c)
      PROVE  R!RideNext
  BY <1>3, PublishIsAbstractStep DEF LoseReply
<1> QED BY <1>1, <1>2, <1>3
        DEF StoreNext, StoreStep, Progress, BeginRequested, BeginAccepted, Insert,
            Abort, AllEnded, storeVars, tables

\* Whatever the interleaving of the two INSERT statements, the rows they leave
\* are those of a service that takes requests and acceptances one at a time.
THEOREM StoreImplementsRide == StoreSpec => ImplementsRide
<1>1. StoreInit => R!RideInit
  BY DEF StoreInit, R!RideInit, CurrentStatus, HistoryOf
<1> QED BY <1>1, StepRefines, StoreInvariance, PTL
        DEF StoreSpec, ImplementsRide, R!RideSpec
=============================================================================
