---------------------------- MODULE TraceContext ----------------------------
(***************************************************************************)
(* The trace context in the payload of an outbox row                       *)
(* (platform/context.go): InjectTraceContext puts the context of a span    *)
(* into a field of its own, ExtractTraceContext takes it out, in this      *)
(* service or in another one.  Between the two the payload is stored,      *)
(* published, delivered again, and may pass through any number of hands.   *)
(*                                                                         *)
(* A payload is a JSON object, that is a function from its fields to what  *)
(* they hold, or something else ("null", an array, no JSON at all).        *)
(***************************************************************************)
CONSTANTS Fields,       \* the fields of the events
          Values,       \* what they hold
          Spans         \* contexts of spans, as traceparent carries them

Key == "trace_context"

ASSUME TraceAssumption == Key \notin Fields

NoSpan == [span |-> {}]
Contexts == {NoSpan} \cup {[span |-> {s}] : s \in Spans}

\* A carrier is an object of strings, maybe one of which no context can be made;
\* data is any other JSON value.
Carrier(ctx) == [is |-> "carrier", span |-> ctx.span]
Data(v) == [is |-> "data", value |-> v]
Contents == {Carrier(ctx) : ctx \in Contexts} \cup {Data(v) : v \in Values}

NoObject == [is |-> "other"]
Object(fields) == [is |-> "object", fields |-> fields]

\* Events with or without the reserved field, and what else may be in a row.
Payloads == {NoObject} \cup
            UNION {{Object(f) : f \in [F -> Contents]} : F \in SUBSET (Fields \cup {Key})}

VARIABLES payload,      \* the payload on its way
          origin,       \* what it was at first
          last,         \* the span injected last, if any
          ctx           \* the context of whoever has the payload

traceVars == <<payload, origin, last, ctx>>

TraceInit ==
    /\ payload \in Payloads /\ origin = payload
    /\ last = NoSpan
    /\ ctx \in Contexts

-----------------------------------------------------------------------------
\* (Mutant: a payload that has a context keeps it.)
InjectTraceContextOnce(c, p) ==
    IF c = NoSpan \/ p.is # "object" THEN p
    ELSE Object([f \in DOMAIN p.fields \cup {Key} |->
                    IF f \in DOMAIN p.fields THEN p.fields[f] ELSE Carrier(c)])

\* (Mutant: the payload becomes the carrier.)
InjectTraceContextAlone(c, p) ==
    IF c = NoSpan \/ p.is # "object" THEN p
    ELSE Object([f \in {Key} |-> Carrier(c)])

\* Unchanged without a span and if it is no object; the reserved field is
\* overwritten, the others are kept.
InjectTraceContext(c, p) ==
    IF c = NoSpan \/ p.is # "object" THEN p
    ELSE Object([f \in DOMAIN p.fields \cup {Key} |->
                    IF f = Key THEN Carrier(c) ELSE p.fields[f]])

\* The context itself if there is nothing to take out.
ExtractTraceContext(c, p) ==
    IF /\ p.is = "object" /\ Key \in DOMAIN p.fields
       /\ p.fields[Key].is = "carrier" /\ p.fields[Key].span # {}
    THEN [span |-> p.fields[Key].span] ELSE c

\* A service stores or forwards the payload under its span.
Inject ==
    /\ payload' = InjectTraceContext(ctx, payload)
    /\ last' = IF ctx = NoSpan THEN last ELSE ctx
    /\ UNCHANGED <<origin, ctx>>

\* Somebody receives it, maybe not for the first time, and continues its trace.
Receive ==
    /\ \E c \in Contexts : ctx' = ExtractTraceContext(c, payload)
    /\ UNCHANGED <<payload, origin, last>>

\* A span of its own begins or ends.
Span == ctx' \in Contexts /\ UNCHANGED <<payload, origin, last>>

TraceNext == Inject \/ Receive \/ Span

TraceSpec == TraceInit /\ [][TraceNext]_traceVars

-----------------------------------------------------------------------------
(* Correctness. *)

\* Decoding into an event ignores the reserved field (context.go:10-13).
Decode(p) == IF p.is # "object" THEN p
             ELSE Object([f \in DOMAIN p.fields \ {Key} |-> p.fields[f]])

\* However often a context is put in, the event that is decoded is the one that
\* was stored, and what is no object is not touched (context.go:18-19).
EventSurvives == Decode(payload) = Decode(origin)

\* Whoever receives the payload continues the trace of the span that injected
\* last, whatever was in the reserved field before and whatever the own context
\* is; a payload nobody injected into is as it came (context.go:42-43, README.md:103-105).
ContinuesLastTrace ==
    IF last # NoSpan /\ payload.is = "object"
    THEN \A c \in Contexts : ExtractTraceContext(c, payload) = last
    ELSE payload = origin
=============================================================================
