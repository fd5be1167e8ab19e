------------------------ MODULE MiddlewareSubscriberMC ------------------------
(***************************************************************************)
(* Instances of MiddlewareSubscriber for TLC: two subscriptions to one     *)
(* target, and one to another.                                             *)
(***************************************************************************)
EXTENDS MiddlewareSubscriber

TargetByName == [blocks1 |-> "KeyBlocks", blocks2 |-> "KeyBlocks", account |-> "ak_1"]

MCTargetOf == [x \in Subs |-> TargetByName[x]]
=============================================================================
