------------------------------- MODULE MPTreeMC -------------------------------
EXTENDS MPTree, TLC
CONSTANTS v1, v2
Short == {<<0, 0>>, <<0, 1>>, <<1, 0>>}
StoreKeysDef == {<<0, 0, 1>>, <<0, 1, 1>>}
KeysDef == Short \cup {<<1, 1>>, <<0>>, <<0, 0, 1>>, <<0, 1, 1>>}
AllContentsDef ==
    {[k \in s |-> v] : s \in SUBSET Short, v \in {v1, v2}}
    \cup {[k \in s |-> v] : s \in {{<<0, 0>>, <<0, 0, 1>>}, {<<0, 0>>, <<0, 0, 1>>, <<1, 0>>}, {<<0, 1>>, <<0, 1, 1>>, <<0, 0>>}}, v \in {v1}}
    \cup {(<<0, 0>> :> v1 @@ <<0, 1>> :> v2)}
=============================================================================
