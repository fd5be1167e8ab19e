------------------------------ MODULE TxPrepareMC ------------------------------
EXTENDS TxPrepare, TLC
Request(ttl, absolute, node, nonce, fee) ==
    [nonce |-> nonce, ttl |-> ttl, fee |-> fee, absoluteTtl |-> absolute, _isInternalBuild |-> TRUE, onNode |-> node]
FirstRequestDef == Request(Unset, FALSE, TRUE, Unset, 1)
RequestedDef ==
    {Request(5, FALSE, TRUE, Unset, 1), Request(0, FALSE, TRUE, Unset, 1),
     Request(Unset, FALSE, TRUE, 4, Unset) @@ [queryFee |-> Unset],
     Request(20, TRUE, TRUE, 4, 1) @@ [gasPrice |-> Unset],
     [Request(Unset, FALSE, FALSE, 4, 1) EXCEPT !._isInternalBuild = FALSE], Request(Unset, FALSE, FALSE, 4, 1)}
=============================================================================
