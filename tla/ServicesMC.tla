------------------------------ MODULE ServicesMC ------------------------------
(* Instances of the services that share nothing but the node: the oracle,   *)
(* the dry runs, the requests of a node and the pages of the middleware;    *)
(* one of them in each behaviour.                                           *)
EXTENDS Oracle, DryRun, NodeClient, MiddlewarePages

CONSTANTS Services, q1, q2, d1, d2, d3, n1, n2, t1, t2, get1, get2, hyper1, hyper2
VARIABLE service

PathDef == [r \in Requests |-> IF r \in HyperCalls THEN "hyperchain"
                               ELSE "key-block"]

ListingsDef == {<<"transactions">>, <<"accounts", "ak_1", "activities">>, <<"names", "name.chain", "claims">>,
                <<"names", "my-name.chain", "claims">>}
operationSpecsDef == {<<"transactions">>, <<"accounts", "{param}", "activities">>, <<"names", "{param}", "claims">>}

vars == <<service, ovars, dvars, nvars, pgvars>>
Init == /\ service \in Services /\ OInit /\ DInit /\ NInit
        /\ IF service = "pages" THEN PgInit
           ELSE listing = <<>> /\ newest = 0 /\ page = NoPath /\ walk = NoWalk
Next ==
    \/ service = "oracle" /\ ONext /\ UNCHANGED <<service, dvars, nvars, pgvars>>
    \/ service = "dryRun" /\ DNext /\ UNCHANGED <<service, ovars, nvars, pgvars>>
    \/ service = "node" /\ NNext /\ UNCHANGED <<service, ovars, dvars, pgvars>>
    \/ service = "pages" /\ PgNext /\ UNCHANGED <<service, ovars, dvars, nvars>>
\* What is fair in a service is enabled only once one of its calls is made.
FairSpec == Init /\ [][Next]_vars /\ OFairness /\ DFairness /\ NFairness

\* What is asked of a service is answered in the end: queries are handled and
\* a stop resolves (Oracle.ts), dry runs and requests settle (chain.ts,
\* autorest.ts), and none fails for the failure of an earlier one.
EverythingIsAnswered ==
    QueriesHandled /\ StopResolves /\ EveryDryRunSettles /\ EveryRequestSettles /\ FailuresAreForgotten
=============================================================================
