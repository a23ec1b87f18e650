------------------------------- MODULE BTree -------------------------------
(* base/btree.c: a binary search tree with root insertion.  A tree is Leaf or  *)
(* a record, so a link is the subtree it leads to; the code keeps every node   *)
(* under one parent.  A call is one action.                                    *)
EXTENDS Integers, Sequences, Bags

CONSTANTS Item,      \* the data, compared as numbers
          Leaf,      \* NULL
          MaxNodes   \* bound on the nodes

VARIABLES root,
          rootFreed, \* bt_delete has given the node of the root back to the chunk
          added      \* history: the data that were added

btreeVars == <<root, rootFreed, added>>

BTNode(l, d, r) == [left |-> l, data |-> d, right |-> r]

bt_init == root = Leaf /\ rootFreed = FALSE /\ added = EmptyBag

rotate_right(n) == BTNode(n.left.left, n.left.data, BTNode(n.left.right, n.data, n.right))
rotate_left(n) == BTNode(BTNode(n.left, n.data, n.right.left), n.right.data, n.right.right)

\* _add: the new node is rotated up to the root.
RECURSIVE add(_, _)
add(n, d) == IF n = Leaf THEN BTNode(Leaf, d, Leaf)
             ELSE IF d < n.data THEN rotate_right([n EXCEPT !.left = add(n.left, d)])
             ELSE rotate_left([n EXCEPT !.right = add(n.right, d)])

RECURSIVE InOrder(_)
InOrder(n) == IF n = Leaf THEN << >> ELSE InOrder(n.left) \o <<n.data>> \o InOrder(n.right)

RECURSIVE retrieve(_, _)
retrieve(n, key) == IF n = Leaf \/ key = n.data THEN n
                    ELSE retrieve(IF key < n.data THEN n.left ELSE n.right, key)

RECURSIVE Smallest(_)
Smallest(n) == IF n.left = Leaf THEN n.data ELSE Smallest(n.left)

\* _delete_min of a node that has a left child.
RECURSIVE delete_min(_)
delete_min(n) == [n EXCEPT !.left = IF n.left.left = Leaf THEN n.left.right ELSE delete_min(n.left)]

\* Mutant: the smallest node of the right subtree stays linked.
RemoveTopKeepsMin(n) ==
    IF n.left # Leaf /\ n.right # Leaf THEN BTNode(n.left, Smallest(n.right), n.right)
    ELSE IF n.right = Leaf THEN n.left ELSE n.right

\* The subtree without the data of its top node.
RemoveTop(n) ==
    IF n.left # Leaf /\ n.right # Leaf
      THEN BTNode(n.left, Smallest(n.right),
                IF n.right.left = Leaf THEN n.right.right ELSE delete_min(n.right))
    ELSE IF n.right = Leaf THEN n.left ELSE n.right

RECURSIVE delete(_, _)
delete(n, key) ==
    IF n = Leaf THEN Leaf
    ELSE IF key < n.data THEN [n EXCEPT !.left = delete(n.left, key)]
    ELSE IF key > n.data THEN [n EXCEPT !.right = delete(n.right, key)]
    ELSE RemoveTop(n)

bt_count(n) == Len(InOrder(n))

bt_add(d) ==
    /\ ~rootFreed /\ BagCardinality(added) < MaxNodes
    /\ root' = add(root, d)
    /\ added' = added (+) SetToBag({d})
    /\ UNCHANGED rootFreed

\* bt_delete works on bt->root, which it never updates to what _delete returns,
\* and then gives that node back to the chunk: the root of the tree that is in
\* use, whatever the key was.  Nothing can be said of the tree afterwards; on
\* an empty tree the call reads through NULL.
bt_delete(key) ==
    /\ ~rootFreed /\ root # Leaf
    /\ root' = delete(root, key)
    /\ rootFreed' = TRUE
    /\ UNCHANGED added

BTreeNext == \E d \in Item : bt_add(d) \/ bt_delete(d)

SortedBag(s, b) ==
    /\ \A i \in 1 .. Len(s) - 1 : s[i] <= s[i + 1]
    /\ \A d \in Item : Len(SelectSeq(s, LAMBDA x : x = d)) = CopiesIn(d, b)

\* An in-order walk gives the data that were added, sorted; every one of them is
\* found; and what _delete makes of the tree, before its root is given back, lacks
\* one copy of the key and nothing else.
SearchTree ==
    ~rootFreed =>
        /\ SortedBag(InOrder(root), added)
        /\ \A d \in Item : (retrieve(root, d) # Leaf) <=> BagIn(d, added)
        /\ \A d \in Item : SortedBag(InOrder(delete(root, d)), added (-) SetToBag({d}))
=============================================================================
