------------------------- MODULE TraceContextProofs -------------------------
(* For any fields, values and spans: the event survives every injection, and *)
(* whoever receives it continues the trace of the last one.                  *)
EXTENDS TraceContext, TLAPS

\* A payload is an object of contents, or none.
IsPayload(p) ==
    \/ p = NoObject
    \/ /\ p = Object(p.fields)
       /\ p.fields = [f \in DOMAIN p.fields |-> p.fields[f]]
       /\ \A f \in DOMAIN p.fields : p.fields[f] \in Contents

\* What every step keeps: the reserved field holds what was injected last.
TraceInv ==
    /\ IsPayload(payload) /\ IsPayload(origin)
    /\ ctx \in Contexts /\ last \in Contexts
    /\ EventSurvives
    /\ IF last # NoSpan /\ payload.is = "object"
       THEN Key \in DOMAIN payload.fields /\ payload.fields[Key] = Carrier(last)
       ELSE payload = origin

\* Payloads are payloads.
LEMMA PayloadsArePayloads == \A p \in Payloads : IsPayload(p)
<1> TAKE p \in Payloads
<1>1. CASE p = NoObject
  BY <1>1 DEF IsPayload
<1>2. CASE \E F \in SUBSET (Fields \cup {Key}) : \E f \in [F -> Contents] : p = Object(f)
  BY <1>2 DEF IsPayload, Object
<1> QED BY <1>1, <1>2 DEF Payloads

\* An object stays one, gets the context, and decodes as before (context.go:26-39).
LEMMA Injected ==
    ASSUME NEW c \in Contexts, c # NoSpan, NEW p, IsPayload(p), p.is = "object"
    PROVE  LET q == InjectTraceContext(c, p)
           IN  /\ IsPayload(q) /\ q.is = "object"
               /\ Key \in DOMAIN q.fields /\ q.fields[Key] = Carrier(c)
               /\ Decode(q) = Decode(p)
<1> DEFINE q == InjectTraceContext(c, p)
           g == [f \in DOMAIN p.fields \cup {Key} |->
                    IF f = Key THEN Carrier(c) ELSE p.fields[f]]
<1>1. q = Object(g)
  BY DEF InjectTraceContext
<1>2. q.is = "object" /\ q.fields = g
  BY <1>1 DEF Object
<1>3. IsPayload(q)
  <2>1. \A f \in DOMAIN p.fields : p.fields[f] \in Contents
    BY DEF IsPayload, NoObject
  <2>2. Carrier(c) \in Contents
    BY DEF Contents
  <2>3. \A f \in DOMAIN g : g[f] \in Contents
    BY <2>1, <2>2
  <2> QED BY <1>1, <1>2, <2>3 DEF IsPayload
<1>4. Key \in DOMAIN g /\ g[Key] = Carrier(c)
  OBVIOUS
<1>5. [f \in DOMAIN g \ {Key} |-> g[f]] = [f \in DOMAIN p.fields \ {Key} |-> p.fields[f]]
  OBVIOUS
<1>6. Decode(q) = Decode(p)
  BY <1>2, <1>5, Zenon DEF Decode
<1> QED BY <1>2, <1>3, <1>4, <1>6

\* What was put in is taken out, whatever the receiver's own context is
\* (context.go:42-52).
LEMMA Extracted ==
    ASSUME NEW c, NEW d \in Contexts, d # NoSpan, NEW p, p.is = "object",
           Key \in DOMAIN p.fields, p.fields[Key] = Carrier(d)
    PROVE  ExtractTraceContext(c, p) = d
<1>1. PICK s \in Spans : d = [span |-> {s}]
  BY DEF Contexts
<1>2. p.fields[Key].is = "carrier" /\ p.fields[Key].span = {s}
  BY <1>1 DEF Carrier
<1> QED BY <1>1, <1>2 DEF ExtractTraceContext

\* The payload carries the event it carried at first, and the context injected
\* last: TraceInv is inductive.
THEOREM TraceInvariance == TraceSpec => []TraceInv
<1>1. TraceInit => TraceInv
  <2> SUFFICES ASSUME TraceInit PROVE TraceInv
    OBVIOUS
  <2> QED BY PayloadsArePayloads DEF TraceInit, TraceInv, EventSurvives, Contexts
<1>2. TraceInv /\ [TraceNext]_traceVars => TraceInv'
  <2> SUFFICES ASSUME TraceInv, [TraceNext]_traceVars PROVE TraceInv'
    OBVIOUS
  <2>1. CASE Inject
    <3>1. CASE ctx = NoSpan \/ payload.is # "object"
      <4>1. payload' = payload /\ (last' = last \/ payload.is # "object")
        BY <2>1, <3>1 DEF Inject, InjectTraceContext
      <4>2. last' \in Contexts /\ ctx' \in Contexts /\ origin' = origin
        BY <2>1 DEF Inject, TraceInv
      <4> QED BY <4>1, <4>2 DEF TraceInv, EventSurvives
    <3>2. CASE ~ (ctx = NoSpan \/ payload.is # "object")
      <4>1. /\ payload' = InjectTraceContext(ctx, payload) /\ last' = ctx
            /\ origin' = origin /\ ctx' = ctx
        BY <2>1, <3>2 DEF Inject
      <4>2. /\ IsPayload(payload') /\ payload'.is = "object"
            /\ Key \in DOMAIN payload'.fields /\ payload'.fields[Key] = Carrier(ctx)
            /\ Decode(payload') = Decode(payload)
        BY <3>2, <4>1, Injected DEF TraceInv
      <4> QED BY <3>2, <4>1, <4>2 DEF TraceInv, EventSurvives
    <3> QED BY <3>1, <3>2
  <2>2. CASE Receive
    <3>1. \A c \in Contexts : ExtractTraceContext(c, payload) \in Contexts
      <4>1. CASE last # NoSpan /\ payload.is = "object"
        BY <4>1, Extracted DEF TraceInv
      <4>2. CASE ~ (last # NoSpan /\ payload.is = "object")
        <5> TAKE c \in Contexts
        <5>1. CASE /\ payload.is = "object" /\ Key \in DOMAIN payload.fields
                   /\ payload.fields[Key].is = "carrier"
          <6>1. payload.fields[Key] \in Contents
            BY <5>1 DEF TraceInv, IsPayload, NoObject
          <6>2. PICK d \in Contexts : payload.fields[Key] = Carrier(d)
            BY <5>1, <6>1 DEF Contents, Data
          <6>3. [span |-> payload.fields[Key].span] = [span |-> d.span]
            BY <6>2 DEF Carrier
          <6>4. [span |-> d.span] = d
            BY DEF Contexts, NoSpan
          <6> QED BY <6>3, <6>4 DEF ExtractTraceContext
        <5>2. CASE ~ (/\ payload.is = "object" /\ Key \in DOMAIN payload.fields
                      /\ payload.fields[Key].is = "carrier")
          BY <5>2 DEF ExtractTraceContext
        <5> QED BY <5>1, <5>2
      <4> QED BY <4>1, <4>2
    <3> QED BY <2>2, <3>1 DEF Receive, TraceInv, EventSurvives
  <2>3. CASE Span
    BY <2>3 DEF Span, TraceInv, EventSurvives
  <2>4. CASE UNCHANGED traceVars
    BY <2>4 DEF traceVars, TraceInv, EventSurvives
  <2> QED BY <2>1, <2>2, <2>3, <2>4 DEF TraceNext
<1> QED BY <1>1, <1>2, PTL DEF TraceSpec

\* The event that is decoded is the one that was stored (context.go:10-13).
THEOREM EventsSurvive == TraceSpec => []EventSurvives
<1>1. TraceInv => EventSurvives
  BY DEF TraceInv
<1> QED BY <1>1, TraceInvariance, PTL

\* Receivers continue the trace of the span that injected last (context.go:42-43).
THEOREM TracesContinue == TraceSpec => []ContinuesLastTrace
<1>1. TraceInv => ContinuesLastTrace
  BY Extracted DEF TraceInv, ContinuesLastTrace
<1> QED BY <1>1, TraceInvariance, PTL
=============================================================================
