------------------------- MODULE MCFaultDetectCache -------------------------
(* Model-checking instance of FaultDetectCache: two rules, a namespace N    *)
(* with two services and a namespace M without rules, and every target     *)
(* shape of N: a service, the namespace wildcard and the global wildcard. *)
EXTENDS FaultDetectCache

CONSTANTS N, M, A, B, r1, r2

MCTargets == {<<N, A>>, <<N, B>>, <<N, AllMatched>>, <<AllMatched, AllMatched>>}
=============================================================================
