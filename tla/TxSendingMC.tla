----------------------------- MODULE TxSendingMC -----------------------------
(* Instances of TxSending. *)
EXTENDS TxSending

CONSTANTS c1, c2

Scene(first, second, top, forks, losses) ==
    [mode |-> [c \in Calls |-> IF c = c1 THEN first ELSE second],
     height |-> top, reorgs |-> forks, lost |-> losses]
ScenesDef == {Scene("confirm", None, 3, 2, 0), Scene("ttl", None, 3, 1, 1),
              Scene("plain", "unwatched", 2, 0, 1), Scene("plain", "ttl", 2, 0, 0),
              Scene("unwatched", "confirm", 2, 0, 0)}
=============================================================================
