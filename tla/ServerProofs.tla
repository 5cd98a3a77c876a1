---------------------------- MODULE ServerProofs ----------------------------
(***************************************************************************)
(* The safety properties of Server for any number of connections.          *)
(***************************************************************************)
EXTENDS Server, Integers, TLAPS

\* Pushing a deferred close, and running it.
LEMMA PushPop ==
    ASSUME NEW S, NEW r \in S, NEW q \in Seq(S)
    PROVE  /\ <<r>> \o q \in Seq(S) /\ <<r>> \o q # <<>>
           /\ Head(<<r>> \o q) = r /\ Tail(<<r>> \o q) = q
           /\ Elements(<<r>> \o q) = {r} \cup Elements(q)
<1> DEFINE p == <<r>> \o q
<1>1. p \in Seq(S) /\ Len(p) = Len(q) + 1 /\ p[1] = r
  OBVIOUS
<1>2. \A i \in 1..Len(q) : p[i + 1] = q[i]
  OBVIOUS
<1>3. \A i \in 2..Len(p) : p[i] = q[i - 1]
  BY <1>1, <1>2
<1>4. Head(p) = r /\ p # <<>>
  BY <1>1
<1>5. Tail(p) = q
  OBVIOUS
<1>6. {p[i] : i \in DOMAIN p} = {r} \cup {q[i] : i \in DOMAIN q}
  <2>1. ASSUME NEW x \in {p[i] : i \in DOMAIN p}
        PROVE  x \in {r} \cup {q[i] : i \in DOMAIN q}
    <3>1. PICK i \in 1..Len(p) : x = p[i]
      BY <1>1
    <3>2. CASE i = 1
      BY <3>1, <3>2, <1>1
    <3>3. CASE i # 1
      BY <3>1, <3>3, <1>1, <1>3
    <3> QED BY <3>2, <3>3
  <2>2. ASSUME NEW i \in DOMAIN q
        PROVE  q[i] \in {p[j] : j \in DOMAIN p}
    <3>1. i + 1 \in DOMAIN p /\ p[i + 1] = q[i]
      BY <1>1, <1>2
    <3> QED BY <3>1
  <2>3. r \in {p[j] : j \in DOMAIN p}
    BY <1>1
  <2> QED BY <2>1, <2>2, <2>3
<1> QED BY <1>1, <1>4, <1>5, <1>6 DEF Elements

\* The stacks of deferred closes, one on top of the other.
LEMMA Stacks ==
    /\ {Stack1, Stack2, Stack3, Stack4, <<>>} \subseteq Seq(Resources)
    /\ Stack1 # <<>> /\ Tail(Stack1) = <<>> /\ Head(Stack1) = "signals"
    /\ Stack2 # <<>> /\ Tail(Stack2) = Stack1 /\ Head(Stack2) = "telemetry"
    /\ Stack3 # <<>> /\ Tail(Stack3) = Stack2 /\ Head(Stack3) = "database"
    /\ Stack4 # <<>> /\ Tail(Stack4) = Stack3 /\ Head(Stack4) = "cache"
    /\ Elements(<<>>) = {}
    /\ Elements(Stack1) = {"signals"}
    /\ Elements(Stack2) = {"signals", "telemetry"}
    /\ Elements(Stack3) = {"signals", "telemetry", "database"}
    /\ Elements(Stack4) = {"signals", "telemetry", "database", "cache"}
<1>0. <<>> \in Seq(Resources) /\ Elements(<<>>) = {}
  BY DEF Elements
<1>r. Resources = {"signals", "telemetry", "database", "cache"}
  BY DEF Resources
<1>1. /\ Stack1 \in Seq(Resources) /\ Stack1 # <<>>
      /\ Tail(Stack1) = <<>> /\ Head(Stack1) = "signals"
      /\ Elements(Stack1) = {"signals"} \cup Elements(<<>>)
  <2>1. "signals" \in Resources
    BY <1>r
  <2>2. <<>> \in Seq(Resources)
    BY <1>0
  <2> QED BY <2>1, <2>2, PushPop, Zenon DEF Stack1
<1>2. /\ Stack2 \in Seq(Resources) /\ Stack2 # <<>>
      /\ Tail(Stack2) = Stack1 /\ Head(Stack2) = "telemetry"
      /\ Elements(Stack2) = {"telemetry"} \cup Elements(Stack1)
  <2>1. "telemetry" \in Resources
    BY <1>r
  <2>2. Stack1 \in Seq(Resources)
    BY <1>1
  <2> QED BY <2>1, <2>2, PushPop, Zenon DEF Stack2
<1>3. /\ Stack3 \in Seq(Resources) /\ Stack3 # <<>>
      /\ Tail(Stack3) = Stack2 /\ Head(Stack3) = "database"
      /\ Elements(Stack3) = {"database"} \cup Elements(Stack2)
  <2>1. "database" \in Resources
    BY <1>r
  <2>2. Stack2 \in Seq(Resources)
    BY <1>2
  <2> QED BY <2>1, <2>2, PushPop, Zenon DEF Stack3
<1>4. /\ Stack4 \in Seq(Resources) /\ Stack4 # <<>>
      /\ Tail(Stack4) = Stack3 /\ Head(Stack4) = "cache"
      /\ Elements(Stack4) = {"cache"} \cup Elements(Stack3)
  <2>1. "cache" \in Resources
    BY <1>r
  <2>2. Stack3 \in Seq(Resources)
    BY <1>3
  <2> QED BY <2>1, <2>2, PushPop, Zenon DEF Stack4
<1> QED BY <1>0, <1>1, <1>2, <1>3, <1>4

\* The process starts with nothing open.
LEMMA InitServer == ServerInit => ServerInv
<1> SUFFICES ASSUME ServerInit PROVE ServerInv
  OBVIOUS
<1>1. <<>> \in Seq(Resources)
  OBVIOUS
<1>2. ServerTypeOK
  BY <1>1 DEF ServerInit, ServerTypeOK, Stages
<1>3. DefersMatchOpen
  BY Stacks DEF ServerInit, DefersMatchOpen, StackAt
<1> QED BY <1>2, <1>3 DEF ServerInit, ServerInv, StoppingIsFinal, DrainedOnSuccess

\* What main.run opens is what it defers, at every stage on the way in.
LEMMA OpensKeeps ==
    ASSUME ServerInv,
           \/ Context \/ NewConfig \/ NewTelemetry \/ NewDatabase \/ Warmup \/ NewCache
    PROVE  ServerInv'
<1> USE DEF ServerInv, Resources, Stages
<1>1. /\ UNCHANGED <<signalled, stopping, network>>
      /\ main \notin {"select", "shutdown", "draining", "unwind", "exited"}
      /\ main' \notin {"select", "shutdown", "draining", "exited"}
      /\ \/ result' = result /\ main' # "unwind"
         \/ result' = "error" /\ main' = "unwind"
  BY DEF Context, NewConfig, NewTelemetry, NewDatabase, Warmup, NewCache, Opens, At,
         Return
<1>2. main' \in Stages
  BY DEF Context, NewConfig, NewTelemetry, NewDatabase, Warmup, NewCache, Opens, At,
         Return
<1>3. DefersMatchOpen'
  <2>1. CASE Context
    BY <2>1, Stacks DEF Context, Opens, At, Return, DefersMatchOpen, StackAt, Stack1
  <2>2. CASE NewConfig \/ Warmup
    BY <2>2 DEF NewConfig, Warmup, At, Return, DefersMatchOpen, StackAt
  <2>3. CASE NewTelemetry
    BY <2>3, Stacks DEF NewTelemetry, Opens, At, Return, DefersMatchOpen, StackAt, Stack2
  <2>4. CASE NewDatabase
    BY <2>4, Stacks DEF NewDatabase, Opens, At, Return, DefersMatchOpen, StackAt, Stack3
  <2>5. CASE NewCache
    BY <2>5, Stacks DEF NewCache, Opens, At, Return, DefersMatchOpen, StackAt, Stack4
  <2> QED BY <2>1, <2>2, <2>3, <2>4, <2>5
<1>4. ServerTypeOK'
  <2>1. defers' \in Seq(Resources) /\ open' \subseteq Resources
    BY <1>3, Stacks DEF DefersMatchOpen, StackAt
  <2> QED BY <1>1, <1>2, <2>1 DEF ServerTypeOK, network
<1>5. StoppingIsFinal' /\ DrainedOnSuccess'
  BY <1>1 DEF StoppingIsFinal, DrainedOnSuccess, network
<1> QED BY <1>3, <1>4, <1>5

\* Serving and draining leave what is open alone.
LEMMA RunKeeps ==
    ASSUME ServerInv, GoListen \/ ServeEnded \/ ContextDone \/ Poll \/ DrainTimeout
    PROVE  ServerInv'
<1> USE DEF ServerInv
<1>1. /\ UNCHANGED <<open, defers, signalled>>
      /\ main \in {"listen", "select", "shutdown", "draining"}
      /\ main' \in {"select", "shutdown", "draining", "unwind"}
  BY DEF GoListen, ServeEnded, ContextDone, Poll, DrainTimeout, At, Return
<1>2. DefersMatchOpen'
  BY <1>1 DEF DefersMatchOpen, StackAt
<1>3. CASE GoListen \/ ContextDone
  <2>1. ServerTypeOK'
    BY <1>1, <1>3 DEF GoListen, ContextDone, At, ServerTypeOK, Stages, network
  <2>2. StoppingIsFinal' /\ DrainedOnSuccess'
    BY <1>1, <1>3 DEF GoListen, ContextDone, At, StoppingIsFinal, DrainedOnSuccess,
       network
  <2> QED BY <1>2, <2>1, <2>2
<1>4. CASE ServeEnded \/ DrainTimeout
  <2>1. ServerTypeOK'
    BY <1>1, <1>4 DEF ServeEnded, DrainTimeout, Return, ServerTypeOK, Stages, network
  <2>2. result' = "error" /\ main' = "unwind"
    BY <1>4 DEF ServeEnded, DrainTimeout, Return, StoppingIsFinal
  <2>3. StoppingIsFinal' /\ DrainedOnSuccess'
    BY <1>1, <1>4, <2>2 DEF ServeEnded, DrainTimeout, StoppingIsFinal,
       DrainedOnSuccess, network
  <2> QED BY <1>2, <2>1, <2>3
<1>5. CASE Poll
  <2>1. PICK old \in SUBSET {c \in Conns : conn[c] = "new"} :
          LET gone == old \cup {c \in Conns : conn[c] = "idle"}
              busy == {c \in Conns : conn[c] \in {"new", "active"}} \ old
          IN  /\ conn' = [c \in Conns |-> IF c \in gone THEN "closed" ELSE conn[c]]
              /\ IF busy = {} THEN Return("ok")
                 ELSE main' = "draining" /\ UNCHANGED result
    BY <1>5 DEF Poll
  <2>2. /\ stopping /\ listener # "serving" /\ result = "none"
        /\ UNCHANGED <<stopping, listener, serveErr>>
    BY <1>1, <1>5 DEF Poll, StoppingIsFinal
  <2>3. result' \in {"none", "ok"} /\ (result' = "none" <=> main' = "draining")
        /\ (result' = "ok" <=> main' = "unwind")
    BY <2>1, <2>2 DEF Return
  <2>4. ServerTypeOK'
    BY <1>1, <2>1, <2>2, <2>3 DEF ServerTypeOK, Stages
  <2>5. StoppingIsFinal'
    <3>1. \A c \in Conns : conn'[c] # "cut"
      BY <1>1, <2>1 DEF StoppingIsFinal
    <3> QED BY <1>1, <2>2, <2>3, <3>1 DEF StoppingIsFinal
  <2>6. DrainedOnSuccess'
    <3> SUFFICES ASSUME result' = "ok", NEW c \in Conns
                 PROVE  conn'[c] \in {"none", "closed"}
      BY DEF DrainedOnSuccess
    <3>1. c \notin {b \in Conns : conn[b] \in {"new", "active"}} \ old
      BY <2>1, <2>2
    <3>2. conn[c] # "cut"
      BY <2>2 DEF StoppingIsFinal, ServerTypeOK
    <3> QED BY <2>1, <3>1, <3>2 DEF ServerTypeOK
  <2> QED BY <1>2, <2>4, <2>5, <2>6
<1> QED BY <1>3, <1>4, <1>5

\* The way out closes what is on top of the stack, then cuts off what is left.
LEMMA WayOutKeeps ==
    ASSUME ServerInv, RunDeferred \/ Exit
    PROVE  ServerInv'
<1> USE DEF ServerInv
<1>1. CASE RunDeferred
  <2>1. /\ main = "unwind" /\ defers \in {Stack1, Stack2, Stack3, Stack4}
        /\ open = Elements(defers)
        /\ open' = open \ {Head(defers)} /\ defers' = Tail(defers)
        /\ UNCHANGED <<main, result, signalled, stopping, network>>
    BY <1>1 DEF RunDeferred, DefersMatchOpen, StackAt
  <2>2. DefersMatchOpen'
    <3>1. CASE defers \in {Stack1, Stack2}
      BY <2>1, <3>1, Stacks DEF DefersMatchOpen, StackAt
    <3>2. CASE defers \in {Stack3, Stack4}
      BY <2>1, <3>2, Stacks DEF DefersMatchOpen, StackAt
    <3> QED BY <2>1, <3>1, <3>2
  <2>3. defers' \in Seq(Resources) /\ open' \subseteq Resources
    BY <2>1, Stacks DEF ServerTypeOK
  <2>4. ServerTypeOK'
    BY <2>1, <2>3 DEF ServerTypeOK, network
  <2>5. StoppingIsFinal' /\ DrainedOnSuccess'
    BY <2>1 DEF StoppingIsFinal, DrainedOnSuccess, network
  <2> QED BY <2>2, <2>4, <2>5
<1>2. CASE Exit
  <2>1. /\ main = "unwind" /\ main' = "exited" /\ defers = <<>>
        /\ UNCHANGED <<result, open, defers, signalled, stopping, listener, serveErr>>
        /\ \A c \in Conns : conn[c] \in {"none", "closed"} => conn'[c] = conn[c]
    BY <1>2 DEF Exit, At
  <2>2. ServerTypeOK'
    <3>1. conn' \in [Conns -> {"none", "new", "active", "idle", "closed", "cut"}]
      BY <1>2 DEF Exit, ServerTypeOK
    <3> QED BY <2>1, <3>1 DEF ServerTypeOK, Stages
  <2>3. DefersMatchOpen'
    BY <2>1 DEF DefersMatchOpen, StackAt
  <2>4. StoppingIsFinal' /\ DrainedOnSuccess'
    BY <2>1 DEF StoppingIsFinal, DrainedOnSuccess
  <2> QED BY <2>2, <2>3, <2>4
<1> QED BY <1>1, <1>2

\* A listener that has seen the server stop does not serve.
LEMMA WorldKeeps ==
    ASSUME ServerInv,
           Signal \/ Listener
             \/ \E c \in Conns : Connect(c) \/ Request(c) \/ Answered(c) \/ Hangup(c)
    PROVE  ServerInv'
<1> USE DEF ServerInv
<1>1. CASE Signal
  BY <1>1 DEF Signal, process, network, ServerTypeOK, DefersMatchOpen,
     StoppingIsFinal, DrainedOnSuccess
<1>2. CASE Listener
  <2>1. /\ UNCHANGED <<process, signalled, stopping, conn>>
        /\ listener' \in {"bound", "serving", "returned"}
        /\ listener' = "serving" => ~ stopping
        /\ serveErr' \in {serveErr, "failed", "closed"}
        /\ serveErr' = "closed" => stopping
    BY <1>2 DEF Listener, Bind, Track, AcceptEnds, StoppingIsFinal
  <2>2. ServerTypeOK' /\ DefersMatchOpen'
    BY <2>1 DEF process, ServerTypeOK, DefersMatchOpen
  <2>3. StoppingIsFinal' /\ DrainedOnSuccess'
    BY <2>1 DEF process, StoppingIsFinal, DrainedOnSuccess
  <2> QED BY <2>2, <2>3
<1>3. ASSUME NEW c \in Conns, Connect(c) \/ Request(c) \/ Answered(c) \/ Hangup(c)
      PROVE  ServerInv'
  <2>1. PICK st \in {"new", "active", "idle", "closed"} :
            /\ conn' = [conn EXCEPT ![c] = st]
            /\ conn[c] \in {"new", "active", "idle"} \/ listener = "serving"
            /\ UNCHANGED <<process, signalled, stopping, listener, serveErr>>
    BY <1>3 DEF Connect, Request, Answered, Hangup
  <2>2. ServerTypeOK' /\ DefersMatchOpen'
    BY <2>1 DEF process, ServerTypeOK, DefersMatchOpen
  <2>3. StoppingIsFinal'
    BY <2>1 DEF process, StoppingIsFinal, ServerTypeOK
  <2>4. result # "ok"
    BY <2>1 DEF StoppingIsFinal, DrainedOnSuccess
  <2> QED BY <2>1, <2>2, <2>3, <2>4 DEF process, DrainedOnSuccess
<1> QED BY <1>1, <1>2, <1>3

\* The inductive invariant of the process, its listener and its connections.
THEOREM ServerInvariance == ServerSpec => []ServerInv
<1>1. ServerInv /\ [ServerNext]_serverVars => ServerInv'
  <2> SUFFICES ASSUME ServerInv, [ServerNext]_serverVars PROVE ServerInv'
    OBVIOUS
  <2>1. CASE UNCHANGED serverVars
    BY <2>1 DEF serverVars, ServerInv, ServerTypeOK, DefersMatchOpen,
       StoppingIsFinal, DrainedOnSuccess
  <2>2. CASE Main
    BY <2>2, OpensKeeps, RunKeeps, WayOutKeeps DEF Main
  <2>3. CASE DrainTimeout \/ Signal \/ Listener
    BY <2>3, RunKeeps, WorldKeeps
  <2>4. CASE \E c \in Conns : Connect(c) \/ Request(c) \/ Answered(c) \/ Hangup(c)
    BY <2>4, WorldKeeps
  <2> QED BY <2>1, <2>2, <2>3, <2>4 DEF ServerNext, Ended
<1> QED BY <1>1, InitServer, PTL DEF ServerSpec

\* A graceful end leaves no request behind, whatever number of connections
\* arrive while the server stops.
THEOREM GracefulMeansDrained == ServerSpec => []DrainedOnSuccess
<1>1. ServerInv => DrainedOnSuccess
  BY DEF ServerInv
<1> QED BY <1>1, ServerInvariance, PTL

\* On every way out everything is closed, the telemetry client after the cache and
\* the database (main.go:32-55).
THEOREM ResourcesReleased == ServerSpec => []ReleasedInOrder
<1>1. ServerInv => ReleasedInOrder
  BY Stacks DEF ServerInv, ServerTypeOK, Stages, DefersMatchOpen, StackAt, ReleasedInOrder
<1> QED BY <1>1, ServerInvariance, PTL

\* Success is reported only to whoever told the process to end.
THEOREM SuccessWasAskedFor == ServerSpec => []EndsWellOnlyWhenTold
<1>1. ServerInv => EndsWellOnlyWhenTold
  BY DEF ServerInv, StoppingIsFinal, EndsWellOnlyWhenTold
<1> QED BY <1>1, ServerInvariance, PTL
=============================================================================
