------------------------------ MODULE MCConfig ------------------------------
(* Small environments for Config: a few texts for each variable.           *)
EXTENDS Config

Nothing == [v \in Vars |-> Unset]

Good == [Nothing EXCEPT !["HELLNET_SERVICE"] = Word("fast"),
                        !["KAFKA_TOPIC_ORDER_REQUESTED"] = Word("requested"),
                        !["KAFKA_TOPIC_ORDER_ACCEPTED"] = Word("accepted")]

\* Half = 2^15 and seconds of 1 make the hours of a clock overflow from 10 on.
Clocks == {Clock(0, 1, 30), Clock(1, -30, 0), Clock(-1, 0, 0), Clock(19, 0, 0)}

MCEnvironments ==
    {[Nothing EXCEPT !["HELLNET_SERVICE"] = name, !["HELLNET_PORT"] = port,
                     !["READ_TIMEOUT"] = timeout, !["BODY_LIMIT"] = limit] :
        name \in {Unset, Empty, Blank, Word("fast")},
        port \in {Unset, Number(0), Number(65536), Word("http")},
        timeout \in {Unset, Empty, Number(0), Number(30), Span(20)} \cup Clocks,
        limit \in {Unset, Number(0), Word("1MB")}}
    \cup {[Good EXCEPT !["SHUTDOWN_TIMEOUT"] = timeout, !["CORS_ALLOWED_ORIGINS"] = origins,
                      !["KAFKA_TOPIC_ORDER_REQUESTED"] = topic] :
        topic \in {Unset, Empty, Word("requested")},
        timeout \in {Unset, Word("soon")} \cup Clocks,
        origins \in {Unset, Blank, Word("a"), Number(8080), List(<<"a", "", "b">>)}}

MCFiles ==
    {Missing, Malformed, Present(Nothing), Present(Good),
     Present([Good EXCEPT !["READ_TIMEOUT"] = Span(5),
                          !["KAFKA_TOPIC_ORDER_REQUESTED"] = Word("other")]),
     Present([Nothing EXCEPT !["READ_TIMEOUT"] = Number(5), !["HELLNET_PORT"] = Number(80)])}
=============================================================================
