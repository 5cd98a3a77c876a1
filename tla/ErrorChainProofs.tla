-------------------------- MODULE ErrorChainProofs --------------------------
(* What HttpErrors says of an error, for chains of any length over any codes. *)
EXTENDS ErrorChain, SequenceTheorems, WellFoundedInduction, TLAPS

Code == Codes \cup {"", "INTERNAL_ERROR"}
TypedLink == [kind : {"http"}, status : Nat, code : Code]
TextLink == [kind : {"text", "canceled"}, code : Code]
PgLink == [kind : {"pg"}, code : {"23505"}, constraint : {"orders_pkey"}]
Link == TypedLink \cup TextLink \cup PgLink

\* An error is a chain of links, and not Nil.
ChainInv == err \in Seq(Link) /\ err # Nil

\* What the constructors make is a link.
LEMMA LinksMade ==
    /\ \A s \in Nat, c \in Code : HTTPError(s, c) \in Link /\ HTTPError(s, c).kind = "http"
    /\ \A c \in Code : Plain(c) \in Link
    /\ PgError("23505", "orders_pkey") \in Link /\ Canceled \in Link
<1>1. \A s \in Nat, c \in Code : HTTPError(s, c) \in TypedLink /\ HTTPError(s, c).kind = "http"
  BY DEF HTTPError, TypedLink
<1>2. \A c \in Code : Plain(c) \in TextLink
  BY DEF Plain, TextLink
<1>3. PgError("23505", "orders_pkey") \in PgLink
  BY DEF PgError, PgLink
<1>4. "" \in Code
  BY DEF Code
<1>5. Canceled \in TextLink
  BY <1>4 DEF Canceled, TextLink
<1> QED BY <1>1, <1>2, <1>3, <1>5 DEF Link

-----------------------------------------------------------------------------
(* The outermost typed link. *)

LEMMA LeastNat == \A T \in SUBSET Nat : T # {} => \E i \in T : \A j \in T : i <= j
<1> SUFFICES ASSUME NEW T \in SUBSET Nat, T # {}
             PROVE  \E i \in T : \A j \in T : i <= j
  OBVIOUS
<1>1. PICK i \in T : \A j \in T : ~ (<<j, i>> \in OpToRel(<, Nat))
  BY NatLessThanWellFounded, WFMin
<1>2. \A j \in T : <<j, i>> \in OpToRel(<, Nat) <=> j < i
  BY DEF OpToRel
<1>3. \A j \in T : ~ (j < i)
  BY <1>1, <1>2, Zenon
<1>4. \A j \in T : i <= j
  BY <1>3
<1> QED BY <1>4

\* Outermost is what errors.As finds: the first *HTTPError (platform.go:115-116).
LEMMA OutermostIsFirst ==
    ASSUME NEW e \in Seq(Link), HttpLinks(e) # {}
    PROVE  /\ Outermost(e) \in 1..Len(e) /\ e[Outermost(e)].kind = "http"
           /\ \A j \in HttpLinks(e) : Outermost(e) <= j
<1>1. HttpLinks(e) \in SUBSET Nat
  BY DEF HttpLinks
<1>2. \E i \in HttpLinks(e) : \A j \in HttpLinks(e) : i <= j
  BY <1>1, LeastNat
<1>3. Outermost(e) \in HttpLinks(e) /\ \A j \in HttpLinks(e) : Outermost(e) <= j
  BY <1>2 DEF Outermost
<1> QED BY <1>3 DEF HttpLinks

\* A chain that starts with a typed link has that link as the outermost.
LEMMA TypedFirst ==
    ASSUME NEW e \in Seq(Link), e # Nil, e[1].kind = "http"
    PROVE  HttpLinks(e) # {} /\ Outermost(e) = 1
<1>1. Len(e) \in Nat \ {0}
  BY EmptySeq DEF Nil
<1>2. 1 \in HttpLinks(e)
  BY <1>1 DEF HttpLinks
<1>3. Outermost(e) \in 1..Len(e) /\ Outermost(e) <= 1
  BY <1>2, OutermostIsFirst
<1> QED BY <1>1, <1>2, <1>3

\* MapError returns the rest of the chain from the first *HTTPError on, or the
\* chain under a 500 (platform.go:156-164).
LEMMA MapsToTyped ==
    ASSUME NEW e \in Seq(Link), e # Nil
    PROVE  /\ MapError(e) \in Seq(Link) /\ MapError(e) # Nil
           /\ MapError(e)[1].kind = "http"
           /\ IF HttpLinks(e) = {}
              THEN MapError(e)[1] = HTTPError(500, "INTERNAL_ERROR") /\ Tail(MapError(e)) = e
              ELSE MapError(e)[1] = e[Outermost(e)]
<1>1. Len(e) \in Nat \ {0} /\ \A i \in 1..Len(e) : e[i] \in Link
  BY EmptySeq DEF Nil
<1>2. CASE HttpLinks(e) = {}
  <2> DEFINE top == HTTPError(500, "INTERNAL_ERROR")
  <2>1. MapError(e) = <<top>> \o e
    BY <1>2 DEF MapError, WrapError, InternalError, NewError
  <2>2. top \in Link /\ top.kind = "http"
    <3>1. "INTERNAL_ERROR" \in Code
      BY DEF Code
    <3> QED BY <3>1, LinksMade
  <2>3. <<top>> \in Seq(Link) /\ Len(<<top>>) = 1
    BY <2>2
  <2> HIDE DEF top
  <2>4. <<top>> \o e \in Seq(Link) /\ (<<top>> \o e)[1] = top /\ <<top>> \o e # Nil
    BY <2>2, <2>3, <1>1, ConcatProperties DEF Nil
  <2>5. Tail(<<top>> \o e) = e
    BY <2>3, <2>4, <1>1, ConcatProperties, HeadTailProperties, SeqEqual DEF Nil
  <2> QED BY <1>2, <2>1, <2>2, <2>4, <2>5 DEF top
<1>3. CASE HttpLinks(e) # {}
  <2> DEFINE o == Outermost(e)
  <2>1. o \in 1..Len(e) /\ e[o].kind = "http"
    BY <1>3, OutermostIsFirst
  <2>2. MapError(e) = SubSeq(e, o, Len(e))
    BY <1>3 DEF MapError
  <2> HIDE DEF o
  <2>3. /\ SubSeq(e, o, Len(e)) \in Seq(Link)
        /\ Len(SubSeq(e, o, Len(e))) = Len(e) - o + 1
        /\ SubSeq(e, o, Len(e))[1] = e[o]
    BY <1>1, <2>1, SubSeqProperties
  <2>4. SubSeq(e, o, Len(e)) # Nil
    BY <1>1, <2>1, <2>3 DEF Nil
  <2> QED BY <1>3, <2>1, <2>2, <2>3, <2>4 DEF o
<1> QED BY <1>2, <1>3

-----------------------------------------------------------------------------
(* Every way an error goes leaves a chain. *)

\* Text or a type around a chain is a chain.
LEMMA OneMore ==
    ASSUME NEW l \in Link, NEW e \in Seq(Link)
    PROVE  <<l>> \o e \in Seq(Link) /\ <<l>> \o e # Nil
<1>1. <<l>> \in Seq(Link) /\ Len(<<l>>) = 1
  OBVIOUS
<1>2. <<l>> \o e \in Seq(Link) /\ Len(<<l>> \o e) = 1 + Len(e)
  BY <1>1, ConcatProperties
<1>3. Len(e) \in Nat
  OBVIOUS
<1> QED BY <1>2, <1>3 DEF Nil

\* A code is a code after flattening (platform.go:120-121, 134).
LEMMA FlatIsPlain ==
    ASSUME NEW e \in Seq(Link), e # Nil
    PROVE  Flatten(e) \in Seq(Link) /\ Flatten(e) # Nil
<1>1. e[1] \in Link
  BY EmptySeq DEF Nil
<1>2. MessageCode(e) \in Code
  BY <1>1 DEF MessageCode, Link, TypedLink, TextLink, PgLink, Code
<1>3. Plain(MessageCode(e)) \in Link
  BY <1>2, LinksMade
<1> QED BY <1>3 DEF Flatten, Nil

\* Errors are chains, however they are wrapped, flattened and mapped.
THEOREM ChainInvariance == ChainSpec => []ChainInv
<1>1. ChainInit => ChainInv
  <2> SUFFICES ASSUME NEW l \in Links, err = <<l>> PROVE ChainInv
    BY DEF ChainInit
  <2>1. l \in Link
    <3>1. Statuses \subseteq Nat
      BY DEF Statuses
    <3>2. Codes \cup {""} \subseteq Code
      BY DEF Code
    <3>3. l \in TypedErrors => \E s \in Statuses, c \in Codes : l = HTTPError(s, c)
      BY DEF TypedErrors
    <3>4. l \in TextErrors => \E c \in Codes \cup {""} : l = Plain(c)
      BY DEF TextErrors
    <3>5. \/ l \in TypedErrors \/ l \in TextErrors
          \/ l \in {PgError("23505", "orders_pkey"), Canceled}
      BY DEF Links
    <3>6. l \in TypedErrors => l \in Link
      BY <3>1, <3>2, <3>3, LinksMade
    <3>7. l \in TextErrors => l \in Link
      BY <3>2, <3>4, LinksMade
    <3> QED BY <3>5, <3>6, <3>7, LinksMade
  <2> QED BY <2>1 DEF ChainInv, Nil
<1>2. ChainInv /\ [ChainNext]_err => ChainInv'
  <2> SUFFICES ASSUME ChainInv, [ChainNext]_err PROVE ChainInv'
    OBVIOUS
  <2> USE DEF ChainInv
  <2>1. CASE Wrap
    <3>1. PICK p \in Codes \cup {""} : err' = <<Plain(p)>> \o err
      BY <2>1 DEF Wrap, WrapText
    <3>2. Plain(p) \in Link
      BY LinksMade DEF Code
    <3> QED BY <3>1, <3>2, OneMore
  <2>2. CASE WrapTyped
    <3>1. PICK s \in {404, 500}, c \in Codes : err' = <<HTTPError(s, c)>> \o err
      BY <2>2 DEF WrapTyped, WrapError, NewError
    <3>2. HTTPError(s, c) \in Link
      <4>1. s \in Nat
        OBVIOUS
      <4>2. c \in Code
        BY DEF Code
      <4> QED BY <4>1, <4>2, LinksMade
    <3> QED BY <3>1, <3>2, OneMore
  <2>3. CASE Flattened
    BY <2>3, FlatIsPlain DEF Flattened
  <2>4. CASE Mapped
    BY <2>4, MapsToTyped DEF Mapped
  <2>5. CASE UNCHANGED err
    BY <2>5
  <2> QED BY <2>1, <2>2, <2>3, <2>4, <2>5 DEF ChainNext
<1> QED BY <1>1, <1>2, PTL DEF ChainSpec

-----------------------------------------------------------------------------
\* The metrics and the answer blame the same side (platform.go:111-113).
THEOREM BlameAgrees == ChainSpec => []JobFailsIffAnswerDoes
<1>1. ChainInv => JobFailsIffAnswerDoes
  <2> SUFFICES ASSUME ChainInv PROVE JobFailsIffAnswerDoes
    OBVIOUS
  <2>1. AbortError(err).status = MapError(err)[1].status
    BY DEF AbortError, ChainInv
  <2>2. CASE HttpLinks(err) = {}
    <3>1. MapError(err)[1].status = 500
      <4>1. MapError(err)[1] = HTTPError(500, "INTERNAL_ERROR")
        BY <2>2, MapsToTyped DEF ChainInv
      <4> QED BY <4>1 DEF HTTPError
    <3>2. ~ ClientStatus(500)
      BY DEF ClientStatus
    <3> QED BY <2>1, <2>2, <3>1, <3>2 DEF JobFailsIffAnswerDoes, IsClientError
  <2>3. CASE HttpLinks(err) # {}
    <3>1. MapError(err)[1] = err[Outermost(err)]
      BY <2>3, MapsToTyped DEF ChainInv
    <3> QED BY <2>1, <2>3, <3>1 DEF JobFailsIffAnswerDoes, IsClientError
  <2> QED BY <2>2, <2>3
<1> QED BY <1>1, ChainInvariance, PTL

\* Mapping is idempotent and keeps code and cause (platform.go:155-164).
THEOREM MappingOnceIsEnough == ChainSpec => []MappedOnce
<1>1. ChainInv => MappedOnce
  <2> SUFFICES ASSUME ChainInv PROVE MappedOnce
    OBVIOUS
  <2> DEFINE mapped == MapError(err)
  <2>1. /\ mapped \in Seq(Link) /\ mapped # Nil /\ mapped[1].kind = "http"
        /\ IF HttpLinks(err) = {} THEN Tail(mapped) = err
           ELSE mapped[1] = err[Outermost(err)]
    BY MapsToTyped DEF ChainInv
  <2> HIDE DEF mapped
  <2>2. HttpLinks(mapped) # {} /\ Outermost(mapped) = 1
    BY <2>1, TypedFirst
  <2>3. MapError(mapped) = mapped
    BY <2>1, <2>2, SubSeqFull DEF MapError
  <2>4. HttpLinks(err) # {} => \A code \in Codes : HasCode(mapped, code) <=> HasCode(err, code)
    BY <2>1, <2>2 DEF HasCode, ChainInv
  <2> QED BY <2>1, <2>3, <2>4 DEF MappedOnce, ErrorCause, mapped
<1> QED BY <1>1, ChainInvariance, PTL

\* A typed error keeps its code as a text (platform.go:119-121).
THEOREM CodesSurviveFlattening == ChainSpec => []FlatteningKeepsCode
<1>1. ChainInv => FlatteningKeepsCode
  <2> SUFFICES ASSUME ChainInv, err[1].kind = "http",
                      NEW code \in Codes
               PROVE  HasCode(Flatten(err), code) <=> HasCode(err, code)
    BY DEF FlatteningKeepsCode
  <2>1. HasCode(err, code) <=> err[1].code = code
    BY TypedFirst DEF ChainInv, HasCode
  <2>2. Flatten(err) = <<Plain(err[1].code)>>
    BY DEF Flatten, MessageCode
  <2>3. HttpLinks(Flatten(err)) = {}
    BY <2>2 DEF HttpLinks, Plain
  <2>4. MessageCode(Flatten(err)) = err[1].code
    BY <2>2 DEF MessageCode, Plain
  <2> QED BY <2>1, <2>2, <2>3, <2>4 DEF HasCode, Nil
<1> QED BY <1>1, ChainInvariance, PTL
=============================================================================
