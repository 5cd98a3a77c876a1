----------------------------- MODULE ErrorChain -----------------------------
(***************************************************************************)
(* An error on its way from where it arises to the answer: every caller    *)
(* may wrap it with text or in an HTTPError, a cache may flatten it, and   *)
(* MapError may be applied.  What HttpErrors says of it must not depend on *)
(* the way it came.                                                        *)
(***************************************************************************)
EXTENDS HttpErrors

CONSTANTS Codes,        \* codes of HTTP errors
          MaxLinks      \* bound on the wrapping

VARIABLE err

Statuses == {399, 400, 404, 409, 499, 500}

TypedErrors == {HTTPError(s, c) : s \in Statuses, c \in Codes}
TextErrors == {Plain(c) : c \in Codes \cup {""}}
Links == TypedErrors \cup TextErrors \cup {PgError("23505", "orders_pkey"), Canceled}

ChainInit == err \in {<<l>> : l \in Links}

Wrap == /\ Len(err) < MaxLinks
        /\ \E p \in Codes \cup {""} : err' = WrapText(p, err)

WrapTyped == /\ Len(err) < MaxLinks
             /\ \E s \in {404, 500}, c \in Codes :
                    err' = WrapError(NewError(s, c), err)

Flattened == err' = Flatten(err)

Mapped == err' = MapError(err)

ChainNext == Wrap \/ WrapTyped \/ Flattened \/ Mapped

ChainSpec == ChainInit /\ [][ChainNext]_err

-----------------------------------------------------------------------------
\* A job is spared from counting as failed exactly if its caller is answered 4xx
\* (platform.go:111-113, used by the services around WorkerContext): the two
\* functions that decide it, IsClientError and AbortError, read the same link of
\* every chain.
JobFailsIffAnswerDoes ==
    IsClientError(err) <=> ClientStatus(AbortError(err).status)

\* Mapping an answer again changes nothing, and the error it came from is still
\* there as the cause to be logged (platform.go:155-164).
MappedOnce ==
    LET mapped == MapError(err)
    IN  /\ MapError(mapped) = mapped
        /\ IF HttpLinks(err) = {} THEN ErrorCause(mapped) = err
           ELSE \A code \in Codes : HasCode(mapped, code) <=> HasCode(err, code)

\* A typed error keeps its code when a single-flight flattens it
\* (platform.go:119-121): a 404 of the loader stays a 404 for the followers.
FlatteningKeepsCode ==
    err[1].kind = "http" =>
        \A code \in Codes : HasCode(Flatten(err), code) <=> HasCode(err, code)
=============================================================================
