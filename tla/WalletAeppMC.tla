---------------------------- MODULE WalletAeppMC ----------------------------
(* Instances of WalletAepp. *)
EXTENDS WalletAepp

CONSTANTS s1, s2, app, dapp

\* One aepp, in each of the ways it can be tied to the wallet; an aepp that
\* connects twice; two aepps.
One(kind, transport, requests, allowed) ==
    [sessions |-> {s1}, requests |-> [s \in Sessions |-> requests], ops |-> allowed,
     owner |-> [s \in Sessions |-> app], kind |-> [a \in Aepps |-> kind],
     transport |-> [s \in Sessions |-> transport]]
Twice(second, allowed) ==
    [One("sdk", "window", 2, allowed) EXCEPT !.sessions = {s1, s2}, !.requests[s2] = second]
Both == [One("frame", "window", 1, 1) EXCEPT !.sessions = {s1, s2},
             !.owner = [s \in Sessions |-> IF s = s1 THEN app ELSE dapp],
             !.transport = [s \in Sessions |-> IF s = s1 THEN "window" ELSE "runtime"]]
SetupsDef == {One("sdk", "window", 3, 0), One("sdk", "window", 1, 2), One("frame", "window", 2, 1),
              One("sdk", "runtime", 2, 1), One("frame", "runtime", 2, 0), Twice(1, 0), Both}
=============================================================================
