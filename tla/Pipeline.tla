------------------------------ MODULE Pipeline ------------------------------
(***************************************************************************)
(* One request on its way through the engine NewRouter builds              *)
(* (platform/platform.go) and its middleware (platform/middleware.go).     *)
(*                                                                         *)
(* Middleware is nested: each one works, calls c.Next and may go on when   *)
(* that returns.  Two of them do: recovery, which catches a panic, and     *)
(* telemetry, which has put its own writer around gin's and reports at the *)
(* end what that writer saw.  gin (dispatch, its response writer) and the  *)
(* telemetry library's wrapper are external.  Logs and c.Set are left out. *)
(***************************************************************************)
EXTENDS Naturals, Sequences

CONSTANT Origins        \* the origins browsers name

VARIABLES router,       \* what NewRouter was given: origins, telemetry or nil
          req,          \* the request
          stage,        \* the middleware that runs next, or where the request is
          rw,           \* gin's response writer and the wrapper around it
          crash,        \* the response at the moment a handler panicked
          report        \* what telemetry recorded of the request

pipelineVars == <<router, req, stage, rw, crash, report>>

\* A path with a trailing slash too many is none of the routes, but gin knows
\* its route.  No OPTIONS route is registered.
Requests == [path : {"order", "probe", "slash", "unknown"},
             method : {"registered", "other", "OPTIONS"},
             asksMethod : BOOLEAN,              \* Access-Control-Request-Method
             origin : Origins \cup {"none"},
             id : {"valid", "invalid", "none"}] \* X-Request-ID

Routers == [origins : SUBSET (Origins \cup {"*"}), telemetry : BOOLEAN]

Statuses == {200, 201, 204, 301, 307, 400, 404, 405, 409, 500, 503}
Stages == {"dispatch", "telemetry", "requestID", "securityHeaders", "cors", "recovery",
           "handlers", "panic", "unwinding", "last", "done"}
None == [status |-> 0]

\* status is the one gin would send, sent and shown what the wire has of status
\* and headers; told and bytes are what the telemetry wrapper saw.
NewWriter == [status |-> 200, headers |-> {}, sent |-> 0, shown |-> {}, body |-> <<>>,
              observed |-> FALSE, told |-> 0, bytes |-> 0]

NewRouter ==
    /\ router \in Routers
    /\ req \in Requests
    /\ stage = "dispatch"
    /\ rw = NewWriter
    /\ crash = None
    /\ report = None

-----------------------------------------------------------------------------
(* The response writers. *)

\* gin: a status counts until it is sent, and is sent with the headers of then.
GinStatus(w, s) == IF w.sent = 0 THEN [w EXCEPT !.status = s] ELSE w
GinHeaderNow(w) == IF w.sent # 0 THEN w
                   ELSE [w EXCEPT !.sent = w.status, !.shown = w.headers]

\* The telemetry wrapper keeps the first status; a body without one means 200.
Tell(w, s) == IF w.told = 0 THEN [w EXCEPT !.told = s] ELSE w

\* (Mutant: gin sends before the wrapper is told.)
WriteHeaderNowLate(w) ==
    LET sent == GinHeaderNow(w)
    IN  IF sent.observed /\ sent.sent = 0 THEN Tell(sent, sent.status) ELSE sent

\* observedWriter.WriteHeaderNow: the wrapper hears of the status first.
WriteHeaderNow(w) ==
    GinHeaderNow(IF w.observed /\ w.sent = 0 THEN Tell(w, w.status) ELSE w)

\* observedWriter.Write and WriteString, or gin's own.
Write(w, part) ==
    LET now == WriteHeaderNow(w)
        told == IF now.observed THEN [Tell(now, 200) EXCEPT !.bytes = now.bytes + 1]
                ELSE now
    IN  [told EXCEPT !.body = Append(told.body, part)]

\* c.JSON and c.AbortWithStatusJSON
Json(w, s, part) == Write(GinStatus(w, s), part)

SetHeader(w, name, value) == [w EXCEPT !.headers = w.headers \cup {<<name, value>>}]

-----------------------------------------------------------------------------
(* gin.Engine: which handlers a request gets. *)

Routed == req.path \in {"order", "probe"} /\ req.method = "registered"
Redirected == req.path = "slash" /\ req.method = "registered"

\* The path with one slash less is a route: gin redirects, and runs no middleware.
Redirect ==
    /\ stage = "dispatch" /\ Redirected
    /\ \E s \in {301, 307} : rw' = Write(GinStatus(rw, s), "redirect")
    /\ stage' = "done"
    /\ UNCHANGED <<router, req, crash, report>>

Dispatch ==
    /\ stage = "dispatch" /\ ~ Redirected
    /\ rw' = GinStatus(rw, IF Routed THEN 200
                           ELSE IF req.path \in {"order", "probe"} THEN 405 ELSE 404)
    /\ stage' = "telemetry"
    /\ UNCHANGED <<router, req, crash, report>>

\* (Mutant: cross-origin handling comes before the request has its headers.)
AfterCorsFirst(s) ==
    CASE s = "telemetry" -> IF router.origins # {} THEN "cors" ELSE "requestID"
      [] s = "cors" -> "requestID"
      [] s = "requestID" -> "securityHeaders"
      [] s = "securityHeaders" -> "recovery"
      [] s = "recovery" -> "handlers"

\* The order of engine.Use; cors is there only if origins are configured.
After(s) ==
    CASE s = "telemetry" -> "requestID"
      [] s = "requestID" -> "securityHeaders"
      [] s = "securityHeaders" -> IF router.origins # {} THEN "cors" ELSE "recovery"
      [] s = "cors" -> "recovery"
      [] s = "recovery" -> "handlers"

Through(s) == stage = s /\ stage' = After(s)

-----------------------------------------------------------------------------
(* The middleware. *)

Observed == router.telemetry /\ req.path # "probe"

\* Probes are not observed, nor is anything without a telemetry client.
Telemetry ==
    /\ Through("telemetry")
    /\ rw' = [rw EXCEPT !.observed = Observed]
    /\ UNCHANGED <<router, req, crash, report>>

SanitizeRequestID(raw) == IF raw = "valid" THEN raw ELSE ""

RequestID ==
    /\ Through("requestID")
    /\ LET id == SanitizeRequestID(req.id)
       IN  rw' = SetHeader(rw, "X-Request-ID", IF id = "" THEN "generated" ELSE id)
    /\ UNCHANGED <<router, req, crash, report>>

SecurityHeaders ==
    /\ Through("securityHeaders")
    /\ rw' = SetHeader(rw, "security", "fixed")
    /\ UNCHANGED <<router, req, crash, report>>

Allowed(origin) == origin # "none" /\ router.origins \cap {"*", origin} # {}

CorsHeaders(w) ==
    IF Allowed(req.origin) THEN SetHeader(w, "Access-Control-Allow-Origin", req.origin)
                           ELSE w

Preflight == req.method = "OPTIONS" /\ req.asksMethod

\* (Mutant: the preflight of an origin that is not allowed goes on.)
CorsAllowedOnly ==
    /\ stage = "cors"
    /\ IF Preflight /\ Allowed(req.origin)
       THEN /\ rw' = WriteHeaderNow(GinStatus(CorsHeaders(rw), 204))
            /\ stage' = "unwinding"
       ELSE rw' = CorsHeaders(rw) /\ stage' = After("cors")
    /\ UNCHANGED <<router, req, crash, report>>

\* A preflight ends here, whatever its origin.
Cors ==
    /\ stage = "cors"
    /\ IF Preflight
       THEN /\ rw' = WriteHeaderNow(GinStatus(CorsHeaders(rw), 204))
            /\ stage' = "unwinding"
       ELSE rw' = CorsHeaders(rw) /\ stage' = After("cors")
    /\ UNCHANGED <<router, req, crash, report>>

Recovery == Through("recovery") /\ UNCHANGED <<router, req, rw, crash, report>>

-----------------------------------------------------------------------------
(* The handlers behind it. *)

\* (Mutant: no handlers for what has no route; gin answers in plain text.)
UnroutedPlain ==
    /\ stage = "handlers" /\ ~ Routed
    /\ rw' = Json(rw, rw.status, "text")
    /\ stage' = "unwinding"
    /\ UNCHANGED <<router, req, crash, report>>

\* NoRoute and NoMethod
Unrouted ==
    /\ stage = "handlers" /\ ~ Routed
    /\ rw' = Json(rw, IF req.path \in {"order", "probe"} THEN 405 ELSE 404, "envelope")
    /\ stage' = "unwinding"
    /\ UNCHANGED <<router, req, crash, report>>

\* The telemetry library's probes answer as they like, through gin.WrapH.
Probe ==
    /\ stage = "handlers" /\ Routed /\ req.path = "probe"
    /\ \E s \in {200, 503} : rw' = Json(rw, s, "probe")
    /\ stage' = "unwinding"
    /\ UNCHANGED <<router, req, crash, report>>

\* A handler may set a status before it answers, answers at most once with a
\* result or through AbortError, and returns, maybe without an answer.
Handle ==
    /\ stage = "handlers" /\ Routed /\ req.path = "order"
    /\ \/ rw' = GinStatus(rw, 204) /\ UNCHANGED stage
       \/ /\ rw.sent = 0
          /\ \/ \E s \in {200, 201} : rw' = Json(rw, s, "result")
             \/ \E s \in {400, 404, 409, 500} : rw' = Json(rw, s, "envelope")
          /\ UNCHANGED stage
       \/ stage' = "unwinding" /\ UNCHANGED rw
    /\ UNCHANGED <<router, req, crash, report>>

\* It may panic at any moment, after it has answered as well.
Panic ==
    /\ stage = "handlers" /\ Routed /\ req.path = "order"
    /\ crash' = rw
    /\ stage' = "panic"
    /\ UNCHANGED <<router, req, rw, report>>

-----------------------------------------------------------------------------
(* On the way back. *)

\* (Mutant: the panic is logged, not answered.)
RecoverSilently ==
    /\ stage = "panic" /\ stage' = "unwinding"
    /\ UNCHANGED <<router, req, rw, crash, report>>

\* recovery's deferred function
Recover ==
    /\ stage = "panic" /\ stage' = "unwinding"
    /\ rw' = Json(rw, 500, "envelope")
    /\ UNCHANGED <<router, req, crash, report>>

\* c.Next has returned in telemetryMiddleware: what was not written yet is
\* written through the wrapper, and the library records the request.
TelemetryReturns ==
    /\ stage = "unwinding" /\ stage' = "last"
    /\ LET w == IF rw.observed THEN WriteHeaderNow(rw) ELSE rw
       IN  /\ rw' = [w EXCEPT !.observed = FALSE]
           /\ report' = IF ~ w.observed THEN None
                        ELSE [status |-> IF w.told = 0 THEN 200 ELSE w.told,
                              bytes |-> w.bytes]
    /\ UNCHANGED <<router, req, crash>>

\* gin writes the header of an answer nobody has written.
Finish ==
    /\ stage = "last" /\ stage' = "done"
    /\ rw' = GinHeaderNow(rw)
    /\ UNCHANGED <<router, req, crash, report>>

Done == stage = "done" /\ UNCHANGED pipelineVars

PipelineNext ==
    \/ Redirect \/ Dispatch \/ Telemetry \/ RequestID \/ SecurityHeaders \/ Cors
    \/ Recovery \/ Unrouted \/ Probe \/ Handle \/ Panic \/ Recover
    \/ TelemetryReturns \/ Finish \/ Done

PipelineSpec == NewRouter /\ [][PipelineNext]_pipelineVars

-----------------------------------------------------------------------------
(* Correctness. *)

Answered == stage = "done"

PipelineTypeOK ==
    /\ router \in Routers /\ req \in Requests /\ stage \in Stages
    /\ rw.status \in Statuses
    /\ rw.sent \in Statuses \cup {0} /\ rw.told \in Statuses \cup {0}
    /\ rw.observed \in BOOLEAN
    /\ rw.bytes \in Nat /\ rw.body \in Seq({"redirect", "result", "envelope", "probe"})

\* What telemetry records of a request is what the client got: the status that
\* was sent, and all of the body.  Probes are not recorded (middleware.go:21-24,
\* 61-65), every other request that reaches the middleware is.
ReportedAsSent ==
    Answered =>
        report = IF Observed /\ ~ Redirected
                 THEN [status |-> rw.sent, bytes |-> Len(rw.body)] ELSE None

\* Every answer the middleware sees goes out with a usable request id and the
\* security headers, and with the permission of cors if and only if the origin
\* has it: errors, panics and aborted preflights as well (middleware.go:127-173).
AnswersIdentified ==
    Answered /\ ~ Redirected =>
        /\ \E id \in {"valid", "generated"} : <<"X-Request-ID", id>> \in rw.shown
        /\ <<"security", "fixed">> \in rw.shown
        /\ Allowed(req.origin) <=>
               <<"Access-Control-Allow-Origin", req.origin>> \in rw.shown

\* A panic is answered: with a 500 if nothing was sent before, and in any case
\* without a second status; the envelope then ends what there was (middleware.go:178-190).
PanicsAnswered ==
    Answered /\ crash # None =>
        /\ rw.sent = IF crash.sent = 0 THEN 500 ELSE crash.sent
        /\ rw.body = Append(crash.body, "envelope")

\* Every error is one envelope (README.md:92), unless a handler panics after
\* it has answered: of routes, of what has no route, of panics.
ErrorsAreEnvelopes ==
    Answered /\ rw.sent >= 400 /\ req.path # "probe" =>
        \/ rw.body = <<"envelope">>
        \/ crash # None /\ crash.sent # 0

\* A preflight is answered 204 and reaches no handler although no OPTIONS route
\* exists, wherever cors is configured; without it, it is a wrong method.
PreflightsEndAtCors ==
    Answered /\ Preflight =>
        rw.sent = IF router.origins # {} THEN 204
                  ELSE IF req.path \in {"order", "probe"} THEN 405 ELSE 404
=============================================================================
