----------------------------- MODULE HttpErrors -----------------------------
(***************************************************************************)
(* The typed errors of package platform (platform/platform.go): how an     *)
(* error that passed through repositories, the cache and services becomes  *)
(* the answer of a request.                                                *)
(*                                                                         *)
(* An error is the sequence of the links of its Unwrap chain, outermost    *)
(* first; Nil is the empty sequence.  A link is an *HTTPError, a           *)
(* *pgconn.PgError, context.Canceled, or any other error, of which only    *)
(* the code its message starts with matters ("" if none).                  *)
(***************************************************************************)
EXTENDS Naturals, Sequences

Nil == <<>>

HTTPError(status, code) == [kind |-> "http", status |-> status, code |-> code]
PgError(code, constraint) ==
    [kind |-> "pg", code |-> code, constraint |-> constraint]
Plain(prefix) == [kind |-> "text", code |-> prefix]
Canceled == [kind |-> "canceled", code |-> ""]

NewError(status, code) == <<HTTPError(status, code)>>
ValidationError == NewError(400, "VALIDATION_ERROR")
InternalError == NewError(500, "INTERNAL_ERROR")

\* errors.As / errors.AsType: the outermost *HTTPError of the chain.
HttpLinks(e) == {i \in DOMAIN e : e[i].kind = "http"}
Outermost(e) == CHOOSE i \in HttpLinks(e) : \A j \in HttpLinks(e) : i <= j

ClientStatus(status) == status >= 400 /\ status < 500

\* (Mutant: a type assertion, which sees the outermost link only.)
IsClientErrorBare(e) == e # Nil /\ e[1].kind = "http" /\ ClientStatus(e[1].status)

IsClientError(e) == HttpLinks(e) # {} /\ ClientStatus(e[Outermost(e)].status)

\* The code an error's message starts with: HTTPError.Error() is "code: message".
MessageCode(e) == IF e[1].kind \in {"http", "text"} THEN e[1].code ELSE ""

\* (Mutant: no fallback to the message.)
HasCodeTyped(e, code) == HttpLinks(e) # {} /\ e[Outermost(e)].code = code

HasCode(e, code) ==
    /\ e # Nil
    /\ IF HttpLinks(e) # {} THEN e[Outermost(e)].code = code
                            ELSE MessageCode(e) = code

\* The wrapped error keeps status and code; its own former cause is replaced.
WrapError(e, cause) == <<Head(e)>> \o cause
ErrorCause(e) == Tail(e)

\* (Mutant: every error is wrapped.)
MapErrorAnew(e) == IF e = Nil THEN Nil ELSE WrapError(InternalError, e)

MapError(e) ==
    IF e = Nil THEN Nil
    ELSE IF HttpLinks(e) # {} THEN SubSeq(e, Outermost(e), Len(e))
         ELSE WrapError(InternalError, e)

\* The status and the code of the envelope AbortError writes.
AbortError(e) ==
    LET mapped == IF e = Nil THEN InternalError ELSE MapError(e)
    IN  [status |-> mapped[1].status, code |-> mapped[1].code]

\* fmt.Errorf("prefix: %w", e)
WrapText(prefix, e) == <<Plain(prefix)>> \o e

\* An error turned into its message, as a single-flight does.
Flatten(e) == <<Plain(MessageCode(e))>>
=============================================================================
