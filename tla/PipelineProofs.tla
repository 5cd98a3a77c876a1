--------------------------- MODULE PipelineProofs ---------------------------
(* For any origins: what telemetry records is what was sent, every answer the *)
(* middleware sees is identified, errors are envelopes, panics are answered,  *)
(* and preflights end at cors.                                                *)
EXTENDS Pipeline, TLAPS

WriterFields ==
    {"status", "headers", "sent", "shown", "body", "observed", "told", "bytes"}
Parts == {"redirect", "result", "envelope", "probe"}

\* A response writer: nothing has a body before it has a status, and the
\* wrapper, where it listens, has heard all there is on the wire.
IsRecord(w) == w = [f \in WriterFields |-> w[f]]
FieldsOK(w) ==
    /\ w.status \in Statuses
    /\ w.sent \in Statuses \cup {0} /\ w.told \in Statuses \cup {0}
    /\ w.observed \in BOOLEAN /\ w.bytes \in Nat
    /\ w.body \in Seq(Parts)
    /\ w.sent = 0 => w.body = <<>>
    /\ w.observed => w.told = w.sent /\ w.bytes = Len(w.body)
IsWriter(w) == IsRecord(w) /\ FieldsOK(w)

Fresh(w) == w.sent = 0 /\ w.told = 0 /\ w.bytes = 0 /\ ~ w.observed

Back == {"unwinding", "last", "done"}
Inside == {"handlers", "panic"} \cup Back
PastCors == {"recovery"} \cup Inside
PastSecurity == {"cors"} \cup PastCors
PastId == {"securityHeaders"} \cup PastSecurity

OriginAllowed == Allowed(req.origin)
OriginSaid == <<"Access-Control-Allow-Origin", req.origin>>
Identified(w) ==
    \E id \in {"valid", "generated"} : <<"X-Request-ID", id>> \in w.headers

HeadersOK ==
    ~ Redirected =>
        /\ stage \in PastId => Identified(rw)
        /\ stage \in PastSecurity => <<"security", "fixed">> \in rw.headers
        /\ IF stage \in PastCors
           THEN OriginAllowed <=> OriginSaid \in rw.headers
           ELSE OriginSaid \notin rw.headers
        /\ rw.sent # 0 => rw.shown = rw.headers

\* Where a request is, and what its writer is there.
StagesOK ==
    /\ Redirected => stage \in {"dispatch", "done"} /\ report = None /\ crash = None
    /\ stage \in {"dispatch", "telemetry"} => Fresh(rw)
    /\ stage \in {"requestID", "handlers", "panic", "unwinding"} \cup (PastId \ Back) =>
           rw.observed = Observed
    /\ stage \notin Inside => rw.sent = 0
    /\ stage = "handlers" /\ (Routed => req.path = "probe") => rw.sent = 0
    /\ stage = "panic" => Routed
    /\ stage \notin {"panic"} \cup Back => crash = None
    /\ stage = "panic" => crash = rw
    /\ stage = "done" => rw.sent # 0
    /\ stage \in {"last", "done"} => ~ rw.observed

ReportOK ==
    stage \in {"last", "done"} /\ ~ Redirected =>
        IF Observed THEN /\ report = [status |-> rw.sent, bytes |-> Len(rw.body)]
                         /\ rw.sent # 0
                    ELSE report = None

CrashOK ==
    \/ crash = None
    \/ /\ IsWriter(crash)
       /\ stage \in Back =>
              /\ rw.sent = IF crash.sent = 0 THEN 500 ELSE crash.sent
              /\ rw.body = Append(crash.body, "envelope")

\* Nobody leaves an error without its envelope.
ErrorsOK ==
    /\ rw.sent = 0 /\ (stage \in Back \/ (Routed /\ stage # "dispatch")) => rw.status < 400
    /\ rw.sent >= 400 /\ req.path # "probe" =>
           \/ rw.body = <<"envelope">>
           \/ crash # None /\ crash.sent # 0
           \/ stage = "panic"

PreflightOK ==
    /\ stage = "cors" => router.origins # {}
    /\ Preflight =>
        /\ stage \in PastCors \ Back => router.origins = {}
        /\ stage \in Back =>
               rw.sent = IF router.origins # {} THEN 204
                         ELSE IF req.path \in {"order", "probe"} THEN 405 ELSE 404

PipelineInv ==
    /\ router \in Routers /\ req \in Requests /\ stage \in Stages /\ IsWriter(rw)
    /\ StagesOK /\ HeadersOK /\ ReportOK /\ CrashOK /\ ErrorsOK /\ PreflightOK

-----------------------------------------------------------------------------
(* What the writers do, field by field. *)

\* The headers and the wrapper stay.
Keeps(u, w) == u.headers = w.headers /\ u.observed = w.observed

LEMMA GinStatusIs ==
    ASSUME NEW w, IsWriter(w), NEW s \in Statuses
    PROVE  LET u == GinStatus(w, s)
           IN  /\ IsWriter(u) /\ Keeps(u, w)
               /\ u.status = IF w.sent = 0 THEN s ELSE w.status
               /\ u.sent = w.sent /\ u.shown = w.shown /\ u.body = w.body
               /\ u.told = w.told /\ u.bytes = w.bytes
<1> DEFINE u == GinStatus(w, s)
<1>1. /\ IsRecord(u) /\ Keeps(u, w)
      /\ u.status = IF w.sent = 0 THEN s ELSE w.status
      /\ u.sent = w.sent /\ u.shown = w.shown /\ u.body = w.body
      /\ u.told = w.told /\ u.bytes = w.bytes
  BY DEF IsWriter, IsRecord, WriterFields, GinStatus, Keeps
<1> HIDE DEF u
<1>2. FieldsOK(u)
  BY <1>1 DEF IsWriter, FieldsOK, Keeps
<1> QED BY <1>1, <1>2 DEF IsWriter, u

\* What WriteHeaderNow leaves, whether or not the wrapper listens.
Sent(u, w) == /\ IsWriter(u) /\ Keeps(u, w) /\ u.sent # 0
              /\ u.sent = IF w.sent = 0 THEN w.status ELSE w.sent
              /\ u.shown = IF w.sent = 0 THEN w.headers ELSE w.shown
              /\ u.body = w.body

LEMMA StatusesAreNotZero == 0 \notin Statuses
BY DEF Statuses

LEMMA GinHeaderNowIs ==
    ASSUME NEW w, IsRecord(w)
    PROVE  LET u == GinHeaderNow(w)
           IN  /\ IsRecord(u) /\ Keeps(u, w)
               /\ u.sent = IF w.sent = 0 THEN w.status ELSE w.sent
               /\ u.shown = IF w.sent = 0 THEN w.headers ELSE w.shown
               /\ u.body = w.body /\ u.status = w.status
               /\ u.told = w.told /\ u.bytes = w.bytes
<1>1. CASE w.sent = 0
  BY <1>1 DEF IsRecord, WriterFields, GinHeaderNow, Keeps
<1>2. CASE w.sent # 0
  BY <1>2 DEF GinHeaderNow, Keeps
<1> QED BY <1>1, <1>2

LEMMA UnobservedSent ==
    ASSUME NEW w, IsWriter(w), ~ w.observed PROVE Sent(GinHeaderNow(w), w)
<1> DEFINE u == GinHeaderNow(w)
<1>1. /\ IsRecord(u) /\ Keeps(u, w)
      /\ u.sent = IF w.sent = 0 THEN w.status ELSE w.sent
      /\ u.shown = IF w.sent = 0 THEN w.headers ELSE w.shown
      /\ u.body = w.body /\ u.status = w.status
      /\ u.told = w.told /\ u.bytes = w.bytes
  BY GinHeaderNowIs DEF IsWriter
<1> HIDE DEF u
<1>2. u.sent # 0 /\ u.sent \in Statuses
  BY <1>1, StatusesAreNotZero DEF IsWriter, FieldsOK
<1>3. FieldsOK(u)
  BY <1>1, <1>2 DEF IsWriter, FieldsOK, Keeps
<1> QED BY <1>1, <1>2, <1>3 DEF IsWriter, Sent, u

LEMMA WriteHeaderNowIs ==
    ASSUME NEW w, IsWriter(w) PROVE Sent(WriteHeaderNow(w), w)
<1> DEFINE v == [w EXCEPT !.told = w.status]
           u == WriteHeaderNow(w)
<1>1. CASE w.observed /\ w.sent = 0
  <2>1. u = GinHeaderNow(v)
    BY <1>1 DEF IsWriter, FieldsOK, WriteHeaderNow, Tell
  <2>2. /\ IsRecord(v) /\ Keeps(v, w) /\ v.status = w.status /\ v.sent = w.sent
        /\ v.shown = w.shown /\ v.body = w.body /\ v.told = w.status /\ v.bytes = w.bytes
    BY DEF IsWriter, IsRecord, WriterFields, Keeps
  <2> HIDE DEF v, u
  <2>3. /\ IsRecord(u) /\ Keeps(u, w) /\ u.sent = w.status /\ u.shown = w.headers
        /\ u.body = w.body /\ u.status = w.status /\ u.told = w.status /\ u.bytes = w.bytes
    BY <1>1, <2>1, <2>2, GinHeaderNowIs DEF Keeps
  <2>4. FieldsOK(u) /\ u.sent # 0
    BY <1>1, <2>3, StatusesAreNotZero DEF IsWriter, FieldsOK, Keeps
  <2> QED BY <1>1, <2>3, <2>4 DEF IsWriter, Sent, u
<1>2. CASE w.sent # 0
  BY <1>2, Zenon DEF IsWriter, WriteHeaderNow, GinHeaderNow, Keeps, Sent
<1>3. CASE ~ w.observed
  <2>1. u = GinHeaderNow(w)
    BY <1>3, Zenon DEF WriteHeaderNow
  <2> QED BY <1>3, <2>1, UnobservedSent
<1> QED BY <1>1, <1>2, <1>3

LEMMA JsonIs ==
    ASSUME NEW w, IsWriter(w), NEW s \in Statuses, NEW part \in Parts
    PROVE  LET u == Json(w, s, part)
           IN  /\ IsWriter(u) /\ Keeps(u, w) /\ u.sent # 0
               /\ u.sent = IF w.sent = 0 THEN s ELSE w.sent
               /\ u.shown = IF w.sent = 0 THEN w.headers ELSE w.shown
               /\ u.body = Append(w.body, part)
<1> DEFINE g == GinStatus(w, s)
           v == WriteHeaderNow(g)
           u == Json(w, s, part)
<1>1. /\ IsWriter(g) /\ Keeps(g, w) /\ g.status = IF w.sent = 0 THEN s ELSE w.status
      /\ g.sent = w.sent /\ g.shown = w.shown /\ g.body = w.body
  BY GinStatusIs
<1>2. Sent(v, g)
  <2> HIDE DEF g
  <2> QED BY <1>1, WriteHeaderNowIs
<1>3. u = IF v.observed THEN [[Tell(v, 200) EXCEPT !.bytes = v.bytes + 1]
                                  EXCEPT !.body = Append(Tell(v, 200).body, part)]
                        ELSE [v EXCEPT !.body = Append(v.body, part)]
  <2>1. Tell(v, 200).body = v.body
    BY <1>2 DEF Tell, Sent, IsWriter, IsRecord, WriterFields
  <2>2. u = Write(g, part)
    BY Zenon DEF Json
  <2> HIDE DEF g, u
  <2>3. Write(g, part) =
            LET told == IF v.observed THEN [Tell(v, 200) EXCEPT !.bytes = v.bytes + 1]
                                      ELSE v
            IN  [told EXCEPT !.body = Append(told.body, part)]
    BY Zenon DEF Write
  <2> HIDE DEF v
  <2>4. CASE v.observed
    <3>1. [Tell(v, 200) EXCEPT !.bytes = v.bytes + 1].body = v.body
      BY <1>2, <2>1 DEF Tell, Sent, IsWriter, IsRecord, WriterFields
    <3> QED BY <2>1, <2>2, <2>3, <2>4, <3>1
  <2>5. CASE ~ v.observed
    BY <2>2, <2>3, <2>5
  <2> QED BY <2>4, <2>5
<1> HIDE DEF g, v, u
<1>4. /\ IsRecord(v) /\ FieldsOK(v) /\ v.sent # 0 /\ Keeps(v, w) /\ v.body = w.body
      /\ v.sent = IF w.sent = 0 THEN s ELSE w.sent
      /\ v.shown = IF w.sent = 0 THEN w.headers ELSE w.shown
  BY <1>1, <1>2 DEF Sent, Keeps, IsWriter
<1>5. v.observed => Tell(v, 200) = v
  BY <1>4 DEF FieldsOK, Tell
<1>6. /\ IsRecord(u) /\ Keeps(u, v) /\ u.sent = v.sent /\ u.shown = v.shown
      /\ u.status = v.status /\ u.told = v.told /\ u.body = Append(v.body, part)
      /\ u.bytes = IF v.observed THEN v.bytes + 1 ELSE v.bytes
  <2>1. CASE v.observed
    <3>1. u = [[v EXCEPT !.bytes = v.bytes + 1] EXCEPT !.body = Append(v.body, part)]
      BY <1>3, <1>5, <2>1
    <3> QED BY <1>4, <2>1, <3>1 DEF IsRecord, WriterFields, Keeps
  <2>2. CASE ~ v.observed
    <3>1. u = [v EXCEPT !.body = Append(v.body, part)]
      BY <1>3, <2>2
    <3> QED BY <1>4, <2>2, <3>1 DEF IsRecord, WriterFields, Keeps
  <2> QED BY <2>1, <2>2
<1>7. v.body \in Seq(Parts)
  BY <1>4 DEF FieldsOK
<1>8. u.body \in Seq(Parts) /\ Len(u.body) = Len(v.body) + 1
  BY <1>6, <1>7
<1>9. FieldsOK(u)
  BY <1>4, <1>6, <1>8 DEF FieldsOK, Keeps
<1> QED BY <1>4, <1>6, <1>9 DEF Keeps, IsWriter, u

LEMMA SetHeaderIs ==
    ASSUME NEW w, IsWriter(w), NEW name, NEW value
    PROVE  LET u == SetHeader(w, name, value)
           IN  /\ IsWriter(u) /\ u.headers = w.headers \cup {<<name, value>>}
               /\ u.observed = w.observed /\ u.sent = w.sent /\ u.status = w.status
               /\ u.body = w.body /\ u.shown = w.shown
<1> DEFINE u == SetHeader(w, name, value)
<1>1. /\ IsRecord(u) /\ u.headers = w.headers \cup {<<name, value>>}
      /\ u.observed = w.observed /\ u.sent = w.sent /\ u.status = w.status
      /\ u.body = w.body /\ u.shown = w.shown /\ u.told = w.told /\ u.bytes = w.bytes
  BY DEF IsWriter, IsRecord, WriterFields, SetHeader
<1> HIDE DEF u
<1>2. FieldsOK(u)
  BY <1>1 DEF IsWriter, FieldsOK
<1> QED BY <1>1, <1>2 DEF IsWriter, u

-----------------------------------------------------------------------------
(* One lemma per action. *)

\* What no step changes, and what it says of the request.
LEMMA SameRequest ==
    ASSUME router' = router, req' = req
    PROVE  /\ Routed' = Routed /\ Redirected' = Redirected /\ Preflight' = Preflight
           /\ Observed' = Observed /\ OriginAllowed' = OriginAllowed
           /\ OriginSaid' = OriginSaid
BY DEF Routed, Redirected, Preflight, Observed, OriginAllowed, Allowed, OriginSaid

LEMMA OneOf ==
    /\ Routed => ~ Redirected /\ ~ Preflight
    /\ Redirected => ~ Preflight
BY DEF Routed, Redirected, Preflight

LEMMA RedirectKeeps == ASSUME PipelineInv, Redirect PROVE PipelineInv'
<1>1. /\ router' = router /\ req' = req /\ crash' = crash /\ report' = report
      /\ stage = "dispatch" /\ stage' = "done" /\ Redirected
  BY DEF Redirect
<1>2. PICK s \in {301, 307} : rw' = Write(GinStatus(rw, s), "redirect")
  BY DEF Redirect
<1>3. rw' = Json(rw, s, "redirect") /\ s \in Statuses /\ "redirect" \in Parts
  BY <1>2 DEF Json, Statuses, Parts
<1>4. IsWriter(rw') /\ Keeps(rw', rw) /\ rw'.sent = s
  BY <1>1, <1>3, JsonIs DEF PipelineInv, StagesOK, Fresh
<1>5. StagesOK'
  BY <1>1, <1>4, <1>2, SameRequest
     DEF PipelineInv, StagesOK, Fresh, Inside, Back, PastId, PastSecurity, PastCors, Keeps
<1>6. HeadersOK' /\ ReportOK' /\ CrashOK' /\ PreflightOK'
  BY <1>1, SameRequest, OneOf
     DEF PipelineInv, StagesOK, HeadersOK, ReportOK, CrashOK, PreflightOK
<1>7. ErrorsOK'
  BY <1>1, <1>2, <1>4 DEF ErrorsOK
<1> QED BY <1>1, <1>4, <1>5, <1>6, <1>7 DEF PipelineInv, Stages

LEMMA DispatchKeeps == ASSUME PipelineInv, Dispatch PROVE PipelineInv'
<1>1. /\ router' = router /\ req' = req /\ crash' = crash /\ report' = report
      /\ stage = "dispatch" /\ stage' = "telemetry" /\ ~ Redirected
  BY DEF Dispatch
<1> DEFINE s == IF Routed THEN 200 ELSE IF req.path \in {"order", "probe"} THEN 405 ELSE 404
<1>2. rw' = GinStatus(rw, s) /\ s \in Statuses /\ (Routed => s < 400)
  BY DEF Dispatch, Statuses
<1> HIDE DEF s
<1>3. /\ IsWriter(rw') /\ Keeps(rw', rw) /\ rw'.sent = 0 /\ rw'.told = 0
      /\ rw'.bytes = 0 /\ ~ rw'.observed /\ rw'.status = s
  BY <1>1, <1>2, GinStatusIs DEF PipelineInv, StagesOK, Fresh, Keeps
<1>4. StagesOK'
  BY <1>1, <1>3, SameRequest
     DEF PipelineInv, StagesOK, Fresh, Inside, Back, PastId, PastSecurity, PastCors
<1>5. HeadersOK'
  BY <1>1, <1>3, SameRequest
     DEF PipelineInv, HeadersOK, Inside, Back, PastId, PastSecurity, PastCors, Keeps
<1>6. ReportOK' /\ CrashOK' /\ PreflightOK'
  BY <1>1, SameRequest
     DEF PipelineInv, ReportOK, StagesOK, CrashOK, PreflightOK, Inside, Back, PastCors
<1>7. ErrorsOK'
  BY <1>1, <1>2, <1>3, SameRequest DEF ErrorsOK, Back
<1> QED BY <1>1, <1>3, <1>4, <1>5, <1>6, <1>7 DEF PipelineInv, Stages

\* Telemetry and the middleware that sets headers: the wire stays empty.
Quietly(w) == IsWriter(w) /\ w.sent = 0 /\ w.status = rw.status

LEMMA QuietSteps ==
    ASSUME PipelineInv, Through(stage), UNCHANGED <<router, req, crash, report>>,
           stage \in {"telemetry", "requestID", "securityHeaders", "cors", "recovery"},
           rw.sent = 0, Quietly(rw'), rw'.observed = Observed, HeadersOK',
           stage = "cors" => ~ Preflight
    PROVE  PipelineInv'
<1>1. /\ router' = router /\ req' = req /\ crash' = crash /\ report' = report
      /\ ~ Redirected
  BY DEF PipelineInv, StagesOK
<1>2. /\ stage' \in {"requestID", "securityHeaders", "cors", "recovery", "handlers"}
      /\ stage' = "cors" => router.origins # {}
      /\ stage' \in {"recovery", "handlers"} =>
             router.origins = {} \/ stage \in {"cors", "recovery"}
  BY DEF Through, After
<1>3. IsWriter(rw') /\ rw'.sent = 0 /\ rw'.status = rw.status
  BY DEF Quietly
<1>4. StagesOK'
  BY <1>1, <1>2, <1>3, SameRequest
     DEF PipelineInv, StagesOK, Fresh, Inside, Back, PastId, PastSecurity, PastCors
<1>5. ReportOK' /\ CrashOK'
  BY <1>1, <1>2, SameRequest DEF PipelineInv, ReportOK, CrashOK, Back
<1>6. ErrorsOK'
  BY <1>1, <1>2, <1>3, SameRequest DEF PipelineInv, ErrorsOK, Back
<1>7. PreflightOK'
  BY <1>1, <1>2, SameRequest DEF PipelineInv, PreflightOK, Inside, Back, PastCors
<1> QED BY <1>1, <1>2, <1>3, <1>4, <1>5, <1>6, <1>7 DEF PipelineInv, Stages

LEMMA TelemetryKeeps == ASSUME PipelineInv, Telemetry PROVE PipelineInv'
<1>1. /\ UNCHANGED <<router, req, crash, report>> /\ stage = "telemetry" /\ Through(stage)
      /\ stage' = "requestID" /\ rw' = [rw EXCEPT !.observed = Observed]
  BY DEF Telemetry, Through, After
<1>2. IsRecord(rw) /\ FieldsOK(rw) /\ Fresh(rw) /\ Observed \in BOOLEAN
  BY <1>1 DEF PipelineInv, IsWriter, StagesOK, Observed, Routers
<1>3. /\ IsRecord(rw') /\ rw'.observed = Observed /\ rw'.status = rw.status
      /\ rw'.sent = rw.sent /\ rw'.told = rw.told /\ rw'.bytes = rw.bytes
      /\ rw'.body = rw.body /\ rw'.headers = rw.headers /\ rw'.shown = rw.shown
  BY <1>1, <1>2 DEF IsRecord, WriterFields
<1>4. Quietly(rw')
  BY <1>2, <1>3 DEF Quietly, IsWriter, FieldsOK, Fresh
<1>5. HeadersOK'
  BY <1>1, <1>3, SameRequest
     DEF PipelineInv, HeadersOK, Inside, Back, PastId, PastSecurity, PastCors
<1> QED BY <1>1, <1>2, <1>3, <1>4, <1>5, QuietSteps DEF Fresh

\* A header that is not the one of cors.
LEMMA RequestIDKeeps == ASSUME PipelineInv, RequestID PROVE PipelineInv'
<1> DEFINE id == IF SanitizeRequestID(req.id) = "" THEN "generated"
                 ELSE SanitizeRequestID(req.id)
<1>1. /\ UNCHANGED <<router, req, crash, report>> /\ stage = "requestID" /\ Through(stage)
      /\ stage' = "securityHeaders" /\ rw' = SetHeader(rw, "X-Request-ID", id)
  BY DEF RequestID, Through, After
<1>2. id \in {"valid", "generated"}
  BY DEF SanitizeRequestID
<1> HIDE DEF id
<1>3. /\ Quietly(rw') /\ rw'.observed = Observed /\ rw.sent = 0
      /\ rw'.headers = rw.headers \cup {<<"X-Request-ID", id>>} /\ rw'.sent = 0
  BY <1>1, SetHeaderIs DEF PipelineInv, StagesOK, Quietly, Inside, Back
<1>4. HeadersOK'
  <2>1. Identified(rw')
    BY <1>2, <1>3 DEF Identified
  <2>2. ~ Redirected => OriginSaid \notin rw.headers
    BY <1>1 DEF PipelineInv, HeadersOK, Inside, Back, PastCors
  <2>3. OriginSaid # <<"X-Request-ID", id>>
    BY DEF OriginSaid
  <2> QED BY <1>1, <1>3, <2>1, <2>2, <2>3, SameRequest
             DEF HeadersOK, Inside, Back, PastId, PastSecurity, PastCors
<1> QED BY <1>1, <1>3, <1>4, QuietSteps

LEMMA SecurityHeadersKeeps == ASSUME PipelineInv, SecurityHeaders PROVE PipelineInv'
<1>1. /\ UNCHANGED <<router, req, crash, report>> /\ stage = "securityHeaders"
      /\ Through(stage) /\ stage' = IF router.origins # {} THEN "cors" ELSE "recovery"
      /\ rw' = SetHeader(rw, "security", "fixed")
  BY DEF SecurityHeaders, Through, After
<1>2. /\ Quietly(rw') /\ rw'.observed = Observed /\ rw.sent = 0
      /\ rw'.headers = rw.headers \cup {<<"security", "fixed">>} /\ rw'.sent = 0
  BY <1>1, SetHeaderIs
     DEF PipelineInv, StagesOK, Quietly, Inside, Back, PastId, PastSecurity, PastCors
<1>3. HeadersOK'
  <2>1. ~ Redirected => Identified(rw) /\ OriginSaid \notin rw.headers
    BY <1>1 DEF PipelineInv, HeadersOK, Inside, Back, PastId, PastCors, PastSecurity
  <2>2. OriginSaid # <<"security", "fixed">>
    BY DEF OriginSaid
  <2>3. Identified(rw) => Identified(rw')
    BY <1>2 DEF Identified
  <2>4. OriginAllowed => router.origins # {}
    BY DEF OriginAllowed, Allowed
  <2> QED BY <1>1, <1>2, <2>1, <2>2, <2>3, <2>4, SameRequest
             DEF HeadersOK, Inside, Back, PastId, PastSecurity, PastCors
<1> QED BY <1>1, <1>2, <1>3, QuietSteps

\* What the headers of cors are, and what they leave.
LEMMA CorsHeadersAre ==
    ASSUME PipelineInv, stage = "cors"
    PROVE  LET u == CorsHeaders(rw)
           IN  /\ IsWriter(u) /\ u.sent = 0 /\ u.status = rw.status /\ u.observed = Observed
               /\ Identified(u) /\ <<"security", "fixed">> \in u.headers
               /\ OriginAllowed <=> OriginSaid \in u.headers
<1> DEFINE u == CorsHeaders(rw)
<1>1. /\ IsWriter(rw) /\ rw.sent = 0 /\ rw.observed = Observed /\ ~ Redirected
      /\ Identified(rw) /\ <<"security", "fixed">> \in rw.headers
      /\ OriginSaid \notin rw.headers
  BY DEF PipelineInv, StagesOK, HeadersOK, Inside, Back, PastId, PastSecurity, PastCors
<1>2. CASE OriginAllowed
  <2>1. u = SetHeader(rw, "Access-Control-Allow-Origin", req.origin)
    BY <1>2, Zenon DEF OriginAllowed, CorsHeaders
  <2>2. /\ IsWriter(u) /\ u.sent = 0 /\ u.status = rw.status /\ u.observed = Observed
        /\ u.headers = rw.headers \cup {OriginSaid}
    BY <1>1, <2>1, SetHeaderIs DEF OriginSaid
  <2> QED BY <1>1, <1>2, <2>2 DEF Identified
<1>3. CASE ~ OriginAllowed
  <2>1. u = rw
    BY <1>3, Zenon DEF OriginAllowed, CorsHeaders
  <2> QED BY <1>1, <1>3, <2>1
<1> QED BY <1>2, <1>3

LEMMA CorsKeeps == ASSUME PipelineInv, Cors PROVE PipelineInv'
<1> DEFINE u == CorsHeaders(rw)
<1>1. UNCHANGED <<router, req, crash, report>> /\ stage = "cors" /\ ~ Redirected
  BY DEF Cors, PipelineInv, StagesOK
<1>2. /\ IsWriter(u) /\ u.sent = 0 /\ u.status = rw.status /\ u.observed = Observed
      /\ Identified(u) /\ <<"security", "fixed">> \in u.headers
      /\ OriginAllowed <=> OriginSaid \in u.headers
  BY <1>1, CorsHeadersAre
<1>3. CASE ~ Preflight
  <2>1. rw' = u /\ stage' = "recovery" /\ Through(stage) /\ rw.sent = 0
    BY <1>1, <1>3 DEF Cors, After, Through, PipelineInv, StagesOK, Inside, Back
  <2> HIDE DEF u
  <2>2. HeadersOK'
    BY <1>1, <1>2, <2>1, SameRequest
       DEF HeadersOK, Identified, Inside, Back, PastId, PastSecurity, PastCors
  <2> QED BY <1>1, <1>2, <1>3, <2>1, <2>2, QuietSteps DEF Quietly
<1>4. CASE Preflight
  <2>1. rw' = WriteHeaderNow(GinStatus(u, 204)) /\ stage' = "unwinding" /\ 204 \in Statuses
    BY <1>1, <1>4 DEF Cors, Statuses
  <2> HIDE DEF u
  <2>2. /\ IsWriter(GinStatus(u, 204)) /\ Keeps(GinStatus(u, 204), u)
        /\ GinStatus(u, 204).status = 204 /\ GinStatus(u, 204).sent = 0
    BY <1>2, <2>1, GinStatusIs
  <2>3. /\ IsWriter(rw') /\ Keeps(rw', u) /\ rw'.sent = 204 /\ rw'.shown = rw'.headers
    BY <2>1, <2>2, WriteHeaderNowIs DEF Sent, Keeps
  <2>4. StagesOK'
    BY <1>1, <1>2, <2>1, <2>3, SameRequest
       DEF PipelineInv, StagesOK, Inside, Back, PastId, PastSecurity, PastCors, Keeps
  <2>5. HeadersOK'
    BY <1>1, <1>2, <2>1, <2>3, SameRequest
       DEF HeadersOK, Identified, Inside, Back, PastId, PastSecurity, PastCors, Keeps
  <2>6. ReportOK' /\ CrashOK'
    BY <1>1, <2>1 DEF PipelineInv, StagesOK, ReportOK, CrashOK, Back
  <2>7. ErrorsOK' /\ PreflightOK'
    BY <1>1, <2>1, <2>3 DEF PipelineInv, ErrorsOK, PreflightOK, Inside, Back, PastCors
  <2> QED BY <1>1, <2>1, <2>3, <2>4, <2>5, <2>6, <2>7 DEF PipelineInv, Stages
<1> QED BY <1>3, <1>4

LEMMA RecoveryKeeps == ASSUME PipelineInv, Recovery PROVE PipelineInv'
<1>1. /\ UNCHANGED <<router, req, crash, report>> /\ stage = "recovery" /\ Through(stage)
      /\ stage' = "handlers" /\ rw' = rw
  BY DEF Recovery, Through, After
<1>2. Quietly(rw') /\ rw.sent = 0 /\ rw'.observed = Observed
  BY <1>1 DEF PipelineInv, StagesOK, Quietly, Inside, Back, PastId, PastSecurity, PastCors
<1>3. HeadersOK'
  BY <1>1, SameRequest
     DEF PipelineInv, HeadersOK, Identified, Inside, Back, PastId, PastSecurity, PastCors
<1> QED BY <1>1, <1>2, <1>3, QuietSteps

\* Inside, headers stay, and are on the wire as soon as a status is.
LEMMA HeadersStay ==
    ASSUME PipelineInv, stage \in Inside, stage' \in Inside, UNCHANGED <<router, req>>,
           rw'.headers = rw.headers, rw'.shown = IF rw.sent = 0 /\ rw'.sent # 0 THEN rw.headers
                                       ELSE rw.shown
    PROVE  HeadersOK'
BY SameRequest
   DEF PipelineInv, HeadersOK, Identified, Inside, Back, PastId, PastSecurity, PastCors

\* An answer where there was none: Unrouted, Probe and Handle.
LEMMA AnswerKeeps ==
    ASSUME PipelineInv, UNCHANGED <<router, req, crash, report>>,
           stage = "handlers", stage' \in {"handlers", "unwinding"},
           NEW s \in Statuses, NEW part \in Parts, rw' = Json(rw, s, part), rw.sent = 0,
           \/ Routed /\ (req.path = "probe" => stage' = "unwinding")
           \/ stage' = "unwinding" /\ s = IF req.path \in {"order", "probe"} THEN 405 ELSE 404,
           s >= 400 /\ req.path # "probe" => part = "envelope"
    PROVE  PipelineInv'
<1>1. /\ IsWriter(rw') /\ Keeps(rw', rw) /\ rw'.sent = s /\ s # 0 /\ rw'.shown = rw.headers
      /\ rw'.body = Append(rw.body, part)
  BY JsonIs DEF PipelineInv
<1>2. rw.body = <<>> /\ rw.observed = Observed /\ ~ Redirected /\ crash = None
  BY DEF PipelineInv, IsWriter, FieldsOK, StagesOK, Back
<1>3. HeadersOK'
  BY <1>1, HeadersStay DEF Inside, Back, Keeps
<1>4. StagesOK'
  BY <1>1, <1>2, SameRequest
     DEF PipelineInv, StagesOK, Inside, Back, PastId, PastSecurity, PastCors, Keeps
<1>5. ReportOK' /\ CrashOK'
  BY <1>2 DEF ReportOK, CrashOK
<1>6. ErrorsOK'
  <2>1. rw'.body = <<part>>
    BY <1>1, <1>2
  <2> QED BY <1>1, <2>1 DEF ErrorsOK
<1>7. PreflightOK'
  BY <1>1, SameRequest, OneOf DEF PipelineInv, PreflightOK, Inside, Back, PastCors
<1> QED BY <1>1, <1>3, <1>4, <1>5, <1>6, <1>7 DEF PipelineInv, Stages

LEMMA UnroutedKeeps == ASSUME PipelineInv, Unrouted PROVE PipelineInv'
<1> DEFINE s == IF req.path \in {"order", "probe"} THEN 405 ELSE 404
<1>1. /\ UNCHANGED <<router, req, crash, report>> /\ stage = "handlers" /\ ~ Routed
      /\ stage' = "unwinding" /\ rw' = Json(rw, s, "envelope")
  BY DEF Unrouted
<1>2. s \in Statuses /\ "envelope" \in Parts /\ rw.sent = 0
  BY <1>1 DEF Statuses, Parts, PipelineInv, StagesOK
<1> QED BY <1>1, <1>2, AnswerKeeps

LEMMA ProbeKeeps == ASSUME PipelineInv, Probe PROVE PipelineInv'
<1>1. /\ UNCHANGED <<router, req, crash, report>> /\ stage = "handlers" /\ Routed
      /\ req.path = "probe" /\ stage' = "unwinding"
  BY DEF Probe
<1>2. PICK s \in {200, 503} : rw' = Json(rw, s, "probe")
  BY DEF Probe
<1>3. s \in Statuses /\ "probe" \in Parts /\ rw.sent = 0
  BY <1>1 DEF Statuses, Parts, PipelineInv, StagesOK
<1> QED BY <1>1, <1>2, <1>3, AnswerKeeps

LEMMA HandleKeeps == ASSUME PipelineInv, Handle PROVE PipelineInv'
<1>1. /\ UNCHANGED <<router, req, crash, report>> /\ stage = "handlers" /\ Routed
      /\ req.path = "order" /\ rw.observed = Observed /\ ~ Redirected /\ ~ Preflight
      /\ crash = None
  BY OneOf DEF Handle, PipelineInv, StagesOK, Back
<1>2. CASE rw' = GinStatus(rw, 204) /\ stage' = stage
  <2>1. 204 \in Statuses /\ IsWriter(rw)
    BY DEF Statuses, PipelineInv
  <2>2. /\ IsWriter(rw') /\ Keeps(rw', rw) /\ rw'.sent = rw.sent /\ rw'.shown = rw.shown
        /\ rw'.body = rw.body /\ rw'.status = IF rw.sent = 0 THEN 204 ELSE rw.status
    BY <1>2, <2>1, GinStatusIs
  <2>3. HeadersOK'
    BY <1>1, <1>2, <2>2, HeadersStay DEF Inside, Back, Keeps
  <2>4. StagesOK'
    BY <1>1, <1>2, <2>2, SameRequest
       DEF PipelineInv, StagesOK, Inside, Back, PastId, PastSecurity, PastCors, Keeps
  <2>5. ReportOK' /\ CrashOK' /\ PreflightOK'
    BY <1>1, <1>2, SameRequest DEF ReportOK, CrashOK, PreflightOK
  <2>6. ErrorsOK'
    BY <1>1, <1>2, <2>2, SameRequest DEF PipelineInv, ErrorsOK
  <2> QED BY <1>1, <1>2, <2>2, <2>3, <2>4, <2>5, <2>6 DEF PipelineInv
<1>3. ASSUME rw.sent = 0, stage' = stage, NEW s \in {200, 201}, rw' = Json(rw, s, "result")
      PROVE  PipelineInv'
  <2>1. s \in Statuses /\ "result" \in Parts /\ s < 400
    BY <1>3 DEF Statuses, Parts
  <2> QED BY <1>1, <1>3, <2>1, AnswerKeeps
<1>4. ASSUME rw.sent = 0, stage' = stage, NEW s \in {400, 404, 409, 500},
             rw' = Json(rw, s, "envelope")
      PROVE  PipelineInv'
  <2>1. s \in Statuses /\ "envelope" \in Parts
    BY <1>4 DEF Statuses, Parts
  <2> QED BY <1>1, <1>4, <2>1, AnswerKeeps
<1>5. CASE stage' = "unwinding" /\ rw' = rw
  <2>1. HeadersOK'
    BY <1>1, <1>5, HeadersStay DEF Inside, Back, Keeps
  <2>2. StagesOK'
    BY <1>1, <1>5, SameRequest
       DEF PipelineInv, StagesOK, Inside, Back, PastId, PastSecurity, PastCors
  <2>3. ReportOK' /\ CrashOK' /\ PreflightOK'
    BY <1>1, <1>5, SameRequest DEF ReportOK, CrashOK, PreflightOK
  <2>4. ErrorsOK'
    BY <1>1, <1>5, SameRequest DEF PipelineInv, ErrorsOK
  <2> QED BY <1>1, <1>5, <2>1, <2>2, <2>3, <2>4 DEF PipelineInv, Stages
<1> QED BY <1>2, <1>3, <1>4, <1>5 DEF Handle

LEMMA PanicKeeps == ASSUME PipelineInv, Panic PROVE PipelineInv'
<1>1. /\ UNCHANGED <<router, req, report>> /\ stage = "handlers" /\ Routed
      /\ rw' = rw /\ crash' = rw /\ stage' = "panic" /\ ~ Redirected /\ ~ Preflight
  BY OneOf DEF Panic
<1>2. HeadersOK'
  BY <1>1, HeadersStay DEF Inside, Back, Keeps
<1>3. StagesOK'
  BY <1>1, SameRequest
     DEF PipelineInv, StagesOK, Inside, Back, PastId, PastSecurity, PastCors
<1>4. ReportOK' /\ CrashOK' /\ PreflightOK'
  BY <1>1, SameRequest DEF PipelineInv, ReportOK, CrashOK, PreflightOK, Back
<1>5. ErrorsOK'
  BY <1>1, SameRequest DEF PipelineInv, ErrorsOK, Back
<1> QED BY <1>1, <1>2, <1>3, <1>4, <1>5 DEF PipelineInv, Stages

LEMMA RecoverKeeps == ASSUME PipelineInv, Recover PROVE PipelineInv'
<1>1. /\ UNCHANGED <<router, req, report, crash>> /\ stage = "panic" /\ stage' = "unwinding"
      /\ rw' = Json(rw, 500, "envelope") /\ 500 \in Statuses /\ "envelope" \in Parts
  BY DEF Recover, Statuses, Parts
<1>2. /\ IsWriter(rw) /\ crash = rw /\ Routed /\ ~ Redirected /\ ~ Preflight
      /\ rw.observed = Observed
  BY <1>1, OneOf DEF PipelineInv, StagesOK
<1>3. /\ IsWriter(rw') /\ Keeps(rw', rw) /\ rw'.sent = IF rw.sent = 0 THEN 500 ELSE rw.sent
      /\ rw'.shown = IF rw.sent = 0 THEN rw.headers ELSE rw.shown
      /\ rw'.body = Append(rw.body, "envelope") /\ rw'.sent # 0
  BY <1>1, <1>2, JsonIs
<1>4. HeadersOK'
  BY <1>1, <1>3, HeadersStay DEF Inside, Back, Keeps
<1>5. StagesOK'
  BY <1>1, <1>2, <1>3, SameRequest
     DEF PipelineInv, StagesOK, Inside, Back, PastId, PastSecurity, PastCors, Keeps
<1>6. ReportOK' /\ CrashOK' /\ PreflightOK'
  BY <1>1, <1>2, <1>3, SameRequest DEF ReportOK, CrashOK, PreflightOK, Back
<1>7. ErrorsOK'
  <2>1. CASE rw.sent = 0
    <3>1. rw.body = <<>>
      BY <1>2, <2>1 DEF IsWriter, FieldsOK
    <3>2. rw'.body = <<"envelope">>
      BY <1>3, <3>1
    <3> QED BY <1>3, <2>1, <3>2 DEF ErrorsOK
  <2>2. CASE rw.sent # 0
    <3>1. rw # None
      <4>1. rw.status # None.status
        BY <1>2, StatusesAreNotZero DEF None, IsWriter, FieldsOK
      <4> QED BY <4>1
    <3> QED BY <1>1, <1>2, <1>3, <2>2, <3>1 DEF ErrorsOK
  <2> QED BY <2>1, <2>2
<1> QED BY <1>1, <1>3, <1>4, <1>5, <1>6, <1>7 DEF PipelineInv, Stages

LEMMA TelemetryReturnsKeeps == ASSUME PipelineInv, TelemetryReturns PROVE PipelineInv'
<1> DEFINE w == IF rw.observed THEN WriteHeaderNow(rw) ELSE rw
<1>1. /\ UNCHANGED <<router, req, crash>> /\ stage = "unwinding" /\ stage' = "last"
      /\ rw' = [w EXCEPT !.observed = FALSE]
      /\ report' = IF ~ w.observed THEN None
                   ELSE [status |-> IF w.told = 0 THEN 200 ELSE w.told, bytes |-> w.bytes]
  BY DEF TelemetryReturns
<1>2. /\ IsWriter(rw) /\ rw.observed = Observed /\ ~ Redirected
  BY <1>1 DEF PipelineInv, StagesOK
<1>3. /\ IsWriter(w) /\ Keeps(w, rw) /\ w.body = rw.body
      /\ w.sent = IF rw.sent = 0 /\ rw.observed THEN rw.status ELSE rw.sent
      /\ w.shown = IF rw.sent = 0 /\ w.sent # 0 THEN rw.headers ELSE rw.shown
      /\ w.observed => w.sent # 0
  <2>1. CASE rw.observed
    BY <1>2, <2>1, WriteHeaderNowIs DEF Sent
  <2>2. CASE ~ rw.observed
    BY <1>2, <2>2 DEF Keeps
  <2> QED BY <2>1, <2>2
<1>4. ~ rw.observed => w = rw
  OBVIOUS
<1> HIDE DEF w
<1>5. /\ IsRecord(rw') /\ rw'.observed = FALSE /\ rw'.status = w.status /\ rw'.sent = w.sent
      /\ rw'.told = w.told /\ rw'.bytes = w.bytes /\ rw'.body = rw.body
      /\ rw'.headers = rw.headers /\ rw'.shown = w.shown
  BY <1>1, <1>3 DEF IsWriter, IsRecord, WriterFields, Keeps
<1>6. IsWriter(rw')
  BY <1>3, <1>5 DEF IsWriter, FieldsOK
<1>7. HeadersOK'
  <2>1. /\ stage \in Inside /\ stage' \in Inside /\ router' = router /\ req' = req
        /\ rw'.headers = rw.headers
    BY <1>1, <1>5 DEF Inside, Back
  <2>2. rw'.shown = IF rw.sent = 0 /\ rw'.sent # 0 THEN rw.headers ELSE rw.shown
    BY <1>3, <1>5
  <2> QED BY <2>1, <2>2, HeadersStay
<1>8. StagesOK'
  BY <1>1, <1>2, <1>5, SameRequest
     DEF PipelineInv, StagesOK, Inside, Back, PastId, PastSecurity, PastCors
<1>9. ReportOK'
  <2>1. CASE Observed
    <3>1. w.observed /\ w.told = w.sent /\ w.bytes = Len(w.body) /\ w.sent # 0
      BY <1>2, <1>3, <2>1 DEF IsWriter, FieldsOK, Keeps
    <3>2. report' = [status |-> rw'.sent, bytes |-> Len(rw'.body)] /\ rw'.sent # 0
      BY <1>1, <1>3, <1>5, <3>1
    <3> QED BY <1>1, <2>1, <3>2, SameRequest DEF ReportOK
  <2>2. CASE ~ Observed
    <3>1. report' = None
      BY <1>1, <1>2, <1>3, <2>2 DEF Keeps
    <3> QED BY <1>1, <2>2, <3>1, SameRequest DEF ReportOK
  <2> QED BY <2>1, <2>2
<1>10. rw.sent # 0 => rw'.sent = rw.sent
  BY <1>3, <1>5
<1>11. rw.sent = 0 => rw.status < 400 /\ rw'.sent < 400 /\ rw'.status \in Statuses
  BY <1>1, <1>3, <1>5, <1>6 DEF PipelineInv, ErrorsOK, Back, IsWriter, FieldsOK
<1>12. CrashOK'
  BY <1>1, <1>5, <1>10 DEF PipelineInv, CrashOK, Back, IsWriter, FieldsOK, Statuses
<1>13. ErrorsOK'
  <2>1. rw'.sent = 0 => rw'.status < 400
    <3>1. CASE rw.observed
      BY <1>3, <1>5, <3>1 DEF Keeps
    <3>2. CASE ~ rw.observed
      BY <1>3, <1>4, <1>5, <1>11, <3>2
    <3> QED BY <3>1, <3>2
  <2>2. CASE rw.sent = 0
    BY <1>6, <1>11, <2>1, <2>2 DEF ErrorsOK, IsWriter, FieldsOK, Statuses
  <2>3. CASE rw.sent # 0
    BY <1>1, <1>5, <1>10, <2>3 DEF PipelineInv, ErrorsOK, Back
  <2> QED BY <2>2, <2>3
<1>14. PreflightOK'
  BY <1>1, <1>10, SameRequest DEF PipelineInv, PreflightOK, Back, PastCors, Inside
<1> QED BY <1>1, <1>6, <1>7, <1>8, <1>9, <1>12, <1>13, <1>14 DEF PipelineInv, Stages

LEMMA FinishKeeps == ASSUME PipelineInv, Finish PROVE PipelineInv'
<1>1. /\ UNCHANGED <<router, req, crash, report>> /\ stage = "last" /\ stage' = "done"
      /\ rw' = GinHeaderNow(rw)
  BY DEF Finish
<1>2. IsWriter(rw) /\ ~ rw.observed /\ ~ Redirected
  BY <1>1 DEF PipelineInv, StagesOK
<1>3. /\ IsWriter(rw') /\ Keeps(rw', rw) /\ rw'.sent # 0 /\ rw'.body = rw.body
      /\ rw'.sent = IF rw.sent = 0 THEN rw.status ELSE rw.sent
      /\ rw'.shown = IF rw.sent = 0 THEN rw.headers ELSE rw.shown
  BY <1>1, <1>2, UnobservedSent DEF Sent
<1>4. HeadersOK'
  BY <1>1, <1>3, HeadersStay DEF Inside, Back, Keeps
<1>5. StagesOK'
  BY <1>1, <1>2, <1>3, SameRequest
     DEF PipelineInv, StagesOK, Inside, Back, PastId, PastSecurity, PastCors, Keeps
<1>6. ReportOK'
  BY <1>1, <1>2, <1>3, SameRequest DEF PipelineInv, ReportOK
<1>7. rw.sent = 0 => rw'.sent < 400
  BY <1>1, <1>3 DEF PipelineInv, ErrorsOK, Back
<1>8. CrashOK' /\ PreflightOK'
  <2>1. crash # None => rw.sent # 0
    BY <1>1 DEF PipelineInv, CrashOK, Back
  <2>2. Preflight => rw.sent # 0
    BY <1>1 DEF PipelineInv, PreflightOK, Back
  <2> QED BY <1>1, <1>3, <2>1, <2>2, SameRequest
             DEF PipelineInv, CrashOK, PreflightOK, Back, Inside, PastCors
<1>9. ErrorsOK'
  <2>1. CASE rw.sent = 0
    BY <1>3, <1>7, <2>1 DEF ErrorsOK, IsWriter, FieldsOK, Statuses
  <2>2. CASE rw.sent # 0
    BY <1>1, <1>3, <2>2 DEF PipelineInv, ErrorsOK, Back
  <2> QED BY <2>1, <2>2
<1> QED BY <1>1, <1>3, <1>4, <1>5, <1>6, <1>8, <1>9 DEF PipelineInv, Stages

LEMMA NothingChanges == ASSUME PipelineInv, UNCHANGED pipelineVars PROVE PipelineInv'
<1>1. /\ router' = router /\ req' = req /\ stage' = stage
      /\ rw' = rw /\ crash' = crash /\ report' = report
  BY DEF pipelineVars
<1>2. StagesOK' /\ ReportOK' /\ CrashOK'
  BY <1>1, SameRequest DEF PipelineInv, StagesOK, ReportOK, CrashOK, Fresh
<1>3. HeadersOK' /\ ErrorsOK' /\ PreflightOK'
  BY <1>1, SameRequest DEF PipelineInv, HeadersOK, Identified, ErrorsOK, PreflightOK
<1> QED BY <1>1, <1>2, <1>3 DEF PipelineInv

-----------------------------------------------------------------------------
(* The theorems. *)

\* What holds of a request at each stage (platform.go:203-248, middleware.go:29-190).
THEOREM PipelineInvariance == PipelineSpec => []PipelineInv
<1>1. NewRouter => PipelineInv
  <2> SUFFICES ASSUME NewRouter PROVE PipelineInv
    OBVIOUS
  <2>1. IsWriter(NewWriter) /\ Fresh(NewWriter) /\ NewWriter.headers = {}
    BY DEF NewWriter, IsWriter, IsRecord, FieldsOK, WriterFields, Statuses, Fresh
  <2>2. stage = "dispatch" /\ rw = NewWriter /\ crash = None /\ report = None
    BY DEF NewRouter
  <2>3. StagesOK
    BY <2>1, <2>2 DEF StagesOK, Fresh, Inside, Back, PastId, PastSecurity, PastCors
  <2>4. HeadersOK /\ ReportOK /\ CrashOK /\ ErrorsOK /\ PreflightOK
    BY <2>1, <2>2 DEF HeadersOK, ReportOK, CrashOK, ErrorsOK, PreflightOK, Fresh,
                      Inside, Back, PastId, PastSecurity, PastCors
  <2> QED BY <2>1, <2>2, <2>3, <2>4 DEF NewRouter, PipelineInv, Stages
<1>2. PipelineInv /\ [PipelineNext]_pipelineVars => PipelineInv'
  BY RedirectKeeps, DispatchKeeps, TelemetryKeeps, RequestIDKeeps, SecurityHeadersKeeps,
     CorsKeeps, RecoveryKeeps, UnroutedKeeps, ProbeKeeps, HandleKeeps, PanicKeeps,
     RecoverKeeps, TelemetryReturnsKeeps, FinishKeeps, NothingChanges
     DEF PipelineNext, Done
<1> QED BY <1>1, <1>2, PTL DEF PipelineSpec

\* The stages and what the writers hold are of their types (middleware.go:61-86).
THEOREM PipelineTypes == PipelineSpec => []PipelineTypeOK
<1>1. PipelineInv => PipelineTypeOK
  BY DEF PipelineInv, PipelineTypeOK, IsWriter, FieldsOK, Parts
<1> QED BY <1>1, PipelineInvariance, PTL

\* What telemetry records is what was sent (middleware.go:21-24, 61-86).
THEOREM RecordsAreTrue == PipelineSpec => []ReportedAsSent
<1>1. PipelineInv => ReportedAsSent
  BY DEF PipelineInv, ReportedAsSent, Answered, ReportOK, StagesOK
<1> QED BY <1>1, PipelineInvariance, PTL

\* Every answer the middleware sees is identified (middleware.go:127-173).
THEOREM AnswersAreIdentified == PipelineSpec => []AnswersIdentified
<1>1. PipelineInv => AnswersIdentified
  BY DEF PipelineInv, AnswersIdentified, Answered, HeadersOK, StagesOK, Identified,
         OriginAllowed, OriginSaid, Inside, Back, PastId, PastSecurity, PastCors
<1> QED BY <1>1, PipelineInvariance, PTL

\* Panics are answered, once (middleware.go:178-190).
THEOREM PanicsAreAnswered == PipelineSpec => []PanicsAnswered
<1>1. PipelineInv => PanicsAnswered
  BY DEF PipelineInv, PanicsAnswered, Answered, CrashOK, Back
<1> QED BY <1>1, PipelineInvariance, PTL

\* Errors are envelopes (platform.go:181-194, 241-246).
THEOREM ErrorsAreEnveloped == PipelineSpec => []ErrorsAreEnvelopes
<1>1. PipelineInv => ErrorsAreEnvelopes
  BY DEF PipelineInv, ErrorsAreEnvelopes, Answered, ErrorsOK
<1> QED BY <1>1, PipelineInvariance, PTL

\* Preflights end at cors (middleware.go:168-171).
THEOREM PreflightsEnd == PipelineSpec => []PreflightsEndAtCors
<1>1. PipelineInv => PreflightsEndAtCors
  BY DEF PipelineInv, PreflightsEndAtCors, Answered, PreflightOK, Back
<1> QED BY <1>1, PipelineInvariance, PTL
=============================================================================
