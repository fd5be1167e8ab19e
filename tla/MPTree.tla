-------------------------------- MODULE MPTree --------------------------------
(***************************************************************************)
(* The Merkle Patricia trees of a state or of a proof of inclusion         *)
(* (src/src/tx/builder/field-types/mptree.ts): a table of nodes by their   *)
(* hashes and the hash of the root. It may lack nodes, and was made by     *)
(* somebody else. The hash of a node stands for its content: it is the     *)
(* node itself, with the hashes of its children in it.                     *)
(***************************************************************************)
EXTENDS Integers, Sequences, FiniteSets

CONSTANTS
    NibbleValues,           \* what a key is made of
    Empty,                  \* an empty slot of a branch, or no value
    Throws,
    StoreKeys               \* keys of a contract's store, in a tree of contracts
-----------------------------------------------------------------------------
(* A node has type "branch" (with slots and a value) or is a pair whose first *)
(* part, nibbles, starts with a flag: 0, 1 of an extension, 2, 3 of a leaf;   *)
(* an odd flag is followed by the path at once, an even one by a zero.        *)

Pair(leaf, path, second) ==
    LET flag == IF leaf THEN 2 ELSE 0 IN
    [type |-> "pair", second |-> second,
     nibbles |-> IF Len(path) % 2 = 0 THEN <<flag, 0>> \o path ELSE <<flag + 1>> \o path]

parseNode(node) ==
    IF node.type = "branch" THEN [type |-> "branch", value |-> node.value, path |-> <<>>]
    ELSE LET nibble == node.nibbles[1] IN
         [type |-> IF nibble <= 1 THEN "extension" ELSE "leaf",
          value |-> IF nibble > 1 THEN node.second ELSE Empty,
          path |-> SubSeq(node.nibbles, IF nibble \in {0, 2} THEN 3 ELSE 2, Len(node.nibbles))]

\* mutant: the empty slots of a branch are looked for too.
Slots_All(node) == {node.slots[n] : n \in NibbleValues}
Slots(node) == {node.slots[n] : n \in NibbleValues} \ {Empty}
Known(nodes, hash) == \E row \in nodes : row.hash = hash
NodeAt(nodes, hash) == (CHOOSE row \in nodes : row.hash = hash).node

\* The constructor, of a table: a set of [hash, node].
NodeHash(node) == node
\* mutant: only the hash of the root is compared with the node it names.
Trusted_Root(root, nodes) == NodeHash(NodeAt(nodes, root)) = root
Trusted(root, nodes) == \A row \in nodes : NodeHash(row.node) = row.hash
Extensions(nodes) == {row.node : row \in {r \in nodes : parseNode(r.node).type = "extension"}}
Branches(nodes) == {row.node : row \in {r \in nodes : parseNode(r.node).type = "branch"}}
\* mutant: a tree with a missing branch is not told from a complete one.
Construct_Whole(root, nodes) ==
    IF nodes = {} THEN [root |-> root, nodes |-> {}, isComplete |-> FALSE]
    ELSE IF \/ ~Known(nodes, root)
            \/ ~Trusted(root, nodes)
            \/ \E e \in Extensions(nodes) : ~Known(nodes, e.second)
         THEN Throws
    ELSE [root |-> root, nodes |-> nodes, isComplete |-> TRUE]
Construct(root, nodes) ==
    IF nodes = {} THEN [root |-> root, nodes |-> {}, isComplete |-> FALSE]
    ELSE IF \/ ~Known(nodes, root)
            \/ ~Trusted(root, nodes)
            \/ \E e \in Extensions(nodes) : ~Known(nodes, e.second)
         THEN Throws
    ELSE [root |-> root, nodes |-> nodes,
          isComplete |-> \A b \in Branches(nodes) : \A h \in Slots(b) : Known(nodes, h)]

RECURSIVE getRaw(_, _, _)
\* mutant: the leaf at the end of the way is taken for the key's own.
getRaw_AnyLeaf(tree, searchFrom, key) ==
    IF ~Known(tree.nodes, searchFrom) THEN IF tree.isComplete THEN Throws ELSE Empty ELSE
    LET node == NodeAt(tree.nodes, searchFrom)
        parsed == parseNode(node)
        n == Len(parsed.path) IN
    CASE parsed.type = "branch" ->
            IF key = <<>> THEN parsed.value ELSE getRaw(tree, node.slots[Head(key)], Tail(key))
      [] parsed.type = "extension" ->
            IF n > Len(key) \/ SubSeq(key, 1, n) # parsed.path THEN Empty
            ELSE getRaw(tree, node.second, SubSeq(key, n + 1, Len(key)))
      [] parsed.type = "leaf" -> parsed.value
getRaw(tree, searchFrom, key) ==
    IF ~Known(tree.nodes, searchFrom) THEN IF tree.isComplete THEN Throws ELSE Empty ELSE
    LET node == NodeAt(tree.nodes, searchFrom)
        parsed == parseNode(node)
        n == Len(parsed.path) IN
    CASE parsed.type = "branch" ->
            IF key = <<>> THEN parsed.value ELSE getRaw(tree, node.slots[Head(key)], Tail(key))
      [] parsed.type = "extension" ->
            IF n > Len(key) \/ SubSeq(key, 1, n) # parsed.path THEN Empty
            ELSE getRaw(tree, node.second, SubSeq(key, n + 1, Len(key)))
      [] parsed.type = "leaf" -> IF parsed.path = key THEN parsed.value ELSE Empty

\* Only what is on the way to a leaf is visited: a set of <<key, value>>.
RECURSIVE entriesRaw(_, _, _)
entriesRaw(tree, searchFrom, key) ==
    IF ~Known(tree.nodes, searchFrom) THEN {} ELSE
    LET node == NodeAt(tree.nodes, searchFrom)
        parsed == parseNode(node) IN
    CASE parsed.type = "branch" ->
            UNION {entriesRaw(tree, node.slots[n], Append(key, n)) : n \in {m \in NibbleValues : node.slots[m] # Empty}}
            \cup (IF parsed.value = Empty THEN {} ELSE {<<key, parsed.value>>})
      [] parsed.type = "extension" -> entriesRaw(tree, node.second, key \o parsed.path)
      [] parsed.type = "leaf" -> {<<key \o parsed.path, parsed.value>>}
toObject(tree) == {e \in entriesRaw(tree, tree.root, <<>>) : e[1] \notin StoreKeys}
serialize(tree) == <<tree.root, tree.nodes>>
-----------------------------------------------------------------------------
(* A node of the network holds contents, and makes a tree of them            *)

Strip(contents, n) ==
    [k \in {SubSeq(x, n + 1, Len(x)) : x \in DOMAIN contents} |->
        contents[CHOOSE x \in DOMAIN contents : SubSeq(x, n + 1, Len(x)) = k]]
Under(contents, n) ==
    LET own == {x \in DOMAIN contents : x # <<>> /\ Head(x) = n} IN
    Strip([x \in own |-> contents[x]], 1)
Common(contents) ==
    CHOOSE n \in 0..8 : LET shared(i) == \A x, y \in DOMAIN contents : Len(x) >= i /\ SubSeq(x, 1, i) = SubSeq(y, 1, i)
                        IN shared(n) /\ ~shared(n + 1)
RECURSIVE Trie(_)
Trie(contents) ==
    LET one == CHOOSE x \in DOMAIN contents : TRUE IN
    IF DOMAIN contents = {} THEN Empty
    ELSE IF Cardinality(DOMAIN contents) = 1 THEN Pair(TRUE, one, contents[one])
    ELSE LET n == Common(contents) IN
         IF n > 0 THEN Pair(FALSE, SubSeq(one, 1, n), Trie(Strip(contents, n)))
         ELSE [type |-> "branch", slots |-> [m \in NibbleValues |-> Trie(Under(contents, m))],
               value |-> IF <<>> \in DOMAIN contents THEN contents[<<>>] ELSE Empty]
RECURSIVE NodesOf(_)
NodesOf(node) ==
    IF node = Empty THEN {}
    ELSE {node} \cup (CASE node.type = "branch" -> UNION {NodesOf(node.slots[n]) : n \in NibbleValues}
                        [] OTHER -> IF node.nibbles[1] <= 1 THEN NodesOf(node.second) ELSE {})
-----------------------------------------------------------------------------
(* What is asked of a tree made of a table some of whose rows were dropped   *)
(* or changed on the way; the hash of the root is known to be right.         *)

CONSTANTS AllContents, Keys
VARIABLES contents, table, tree, answer
mpvars == <<contents, table, tree, answer>>

Row(node) == [hash |-> node, node |-> node]
MpInit == /\ contents \in AllContents /\ table = {Row(node) : node \in NodesOf(Trie(contents))}
          /\ tree = Empty /\ answer = Empty
Drop == /\ tree = Empty /\ \E row \in table : table' = table \ {row}
        /\ UNCHANGED <<contents, tree, answer>>
\* A row comes with the node of another of them, one of a tree with other contents.
Tamper ==
    /\ tree = Empty /\ \A row \in table : row.hash = row.node
    /\ \E row \in table, c \in AllContents : \E node \in NodesOf(Trie(c)) :
        node # row.node /\ table' = (table \ {row}) \cup {[hash |-> row.hash, node |-> node]}
    /\ UNCHANGED <<contents, tree, answer>>
DeserializeTree == /\ tree = Empty /\ tree' = Construct(Trie(contents), table)
               /\ UNCHANGED <<contents, table, answer>>
Lookup(key) ==
    /\ tree \notin {Empty, Throws} /\ answer = Empty
    /\ answer' = [key |-> key, is |-> getRaw(tree, tree.root, key)]
    /\ UNCHANGED <<contents, table, tree>>
MpNext == Drop \/ Tamper \/ DeserializeTree \/ \E key \in Keys : Lookup(key)
-----------------------------------------------------------------------------
(* Properties *)

IsTree == tree \notin {Empty, Throws}
Held == {<<k, contents[k]>> : k \in DOMAIN contents}

\* Whatever rows were dropped or changed, a value that is read is what the node holds for the key.
NeverWrong ==
    /\ answer # Empty => \/ answer.is \in {Empty, Throws}
                         \/ <<answer.key, answer.is>> \in Held
    /\ IsTree => toObject(tree) \subseteq Held

\* A complete tree has everything the node holds (but the store of contracts in the object made
\* of it); a key it says nothing of is not held.
CompleteKnowsAll ==
    (IsTree /\ tree.isComplete) =>
        /\ toObject(tree) = {e \in Held : e[1] \notin StoreKeys}
        /\ (answer # Empty /\ answer.is \in {Empty, Throws}) => answer.key \notin DOMAIN contents

\* Looking a key up and listing the entries agree, in proofs with missing branches too.
ListedIsFound ==
    (IsTree /\ answer # Empty) =>
        (answer.is \notin {Empty, Throws} <=>
            \E e \in entriesRaw(tree, tree.root, <<>>) : e[1] = answer.key)

\* A table nothing was changed or dropped of makes a complete tree that is written back as it
\* was, and one that lacks something on the way to an entry never passes for complete.
WholeTableMakesTree ==
    /\ (tree = Throws /\ table # {}) => table # {Row(node) : node \in NodesOf(Trie(contents))}
    /\ IsTree => /\ serialize(tree) = <<Trie(contents), table>>
                 /\ tree.isComplete <=> table # {} /\ \A node \in NodesOf(Trie(contents)) : Known(table, node)

\* A tree is what its nodes say, no more and, if they are complete, no less.
TreeIsItsNodes == NeverWrong /\ CompleteKnowsAll /\ ListedIsFound /\ WholeTableMakesTree

=============================================================================
