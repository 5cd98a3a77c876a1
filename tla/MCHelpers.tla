----------------------------- MODULE MCHelpers -----------------------------
(* The two pure parts of the package platform, its errors and its trace    *)
(* contexts, in one run: part says which of them a behaviour is about, the *)
(* other one rests.                                                        *)
EXTENDS ErrorChain, TraceContext

VARIABLE part

helperVars == <<part, err, traceVars>>

NoTrace == payload = NoObject /\ origin = NoObject /\ last = NoSpan /\ ctx = NoSpan

MCInit == \/ part = "errors" /\ ChainInit /\ NoTrace
          \/ part = "payloads" /\ TraceInit /\ err = <<Canceled>>

MCNext == /\ UNCHANGED part
          /\ \/ part = "errors" /\ ChainNext /\ UNCHANGED traceVars
             \/ part = "payloads" /\ TraceNext /\ UNCHANGED err

MCSpec == MCInit /\ [][MCNext]_helperVars
=============================================================================
