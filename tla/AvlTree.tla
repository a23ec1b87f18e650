------------------------------ MODULE AvlTree ------------------------------
(* base/avltree.c, the container behind the connections, the console's         *)
(* commands and the simulator's clients: nodes linked by left, right and       *)
(* parent pointers, with the balance of each node in `high'.                   *)
(*                                                                             *)
(* A node is named by its key, its address being abstract, so copying a        *)
(* predecessor over a node (avl_copy_nodes) renames that node.  The code is    *)
(* single threaded and every exported call is one action; what a call computes *)
(* on the way is an operator on the record of the whole tree.  left and right  *)
(* are kid["L"] and kid["R"], and each pair of mirrored functions of the       *)
(* source is one operator with the side as its argument.                       *)
EXTENDS Integers, Sequences, FiniteSets, SequencesExt, Iteration

CONSTANTS Key,        \* keys: addresses, command names, client names
          Nil,        \* the NULL pointer
          Freed,      \* the address of a node that was freed
          Fresh,      \* data other than what a key was inserted with
          Updatable,  \* the keys whose data the instance replaces (bound)
          Cmp(_, _),  \* at_key_comp
          CopyKeys    \* at_copy_keys # 0

ASSUME TreeAssumption ==
    /\ IsFiniteSet(Key) /\ Nil \notin Key /\ Freed \notin Key \cup {Nil}
    /\ Fresh \notin Key \cup {Nil} /\ CopyKeys \in BOOLEAN /\ Updatable \subseteq Key
(* The keys are in order.  The comparison of addresses, a difference that is cut to an int,
   gives one as long as they span less than half their range. *)
ASSUME CmpAssumption ==
    /\ \A a, b \in Key : /\ Cmp(a, b) \in Int
                         /\ Cmp(a, b) = 0 <=> a = b
                         /\ Cmp(a, b) < 0 <=> Cmp(b, a) > 0
    /\ \A a, b, c \in Key : Cmp(a, b) < 0 /\ Cmp(b, c) < 0 => Cmp(a, c) < 0

VARIABLE tree         \* struct avltree with the nodes it reaches

Side == {"L", "R"}
LeftHigh == -1
EqualHigh == 0
RightHigh == 1

Pointer == Key \cup {Nil}
Tree == [at_nodes : Nat, root : Pointer, current : Pointer \cup {Freed}, kid : [Side -> [Key -> Pointer]],
         parent : [Key -> Pointer], high : [Key -> {LeftHigh, EqualHigh, RightHigh}],
         data : [Key -> Key \cup {Nil, Fresh}]]

\* Loops and recursions go along the links; no way along them has more nodes than the tree.
Deepest(t) == t.at_nodes

Other(s) == IF s = "L" THEN "R" ELSE "L"
HighTo(s) == IF s = "L" THEN LeftHigh ELSE RightHigh

avlNewTree ==
    [at_nodes |-> 0, root |-> Nil, current |-> Nil,
     kid |-> [s \in Side |-> [k \in Key |-> Nil]], parent |-> [k \in Key |-> Nil],
     high |-> [k \in Key |-> EqualHigh], data |-> [k \in Key |-> Nil]]

IsChild(t, x, s) == t.parent[x] # Nil /\ t.kid[s][t.parent[x]] = x
SideOf(t, x) == IF IsChild(t, x, "L") THEN "L" ELSE "R"
SetKid(t, s, x, v) == [t EXCEPT !.kid[s][x] = v]
SetParent(t, x, p) == IF x = Nil THEN t ELSE [t EXCEPT !.parent[x] = p]
SetHigh(t, x, v) == [t EXCEPT !.high[x] = v]
CutOff(t, x) == SetParent(SetKid(SetKid(t, "L", x, Nil), "R", x, Nil), x, Nil)

-----------------------------------------------------------------------------
\* Rotation and balancing
-----------------------------------------------------------------------------
\* avl_left_rotate (s = "L") and avl_right_rotate: the other child of root
\* becomes its parent.  The callers link the new root.
Rotate(t, root, s) ==
    LET o == Other(s)
        node == t.kid[o][root]
        inner == t.kid[s][node]
        up == SetKid(SetKid(SetParent(t, inner, root), o, root, inner), s, node, root)
    IN SetParent(SetParent(up, node, t.parent[root]), root, node)

\* The double rotation of a root whose child on side s leans the other way.
RotateTwice(t, root, s) ==
    LET o == Other(s)
        c == t.kid[s][root]
        w == t.kid[o][c]
        t1 == SetHigh(t, root, IF t.high[w] = HighTo(s) THEN HighTo(o) ELSE EqualHigh)
        t2 == SetHigh(t1, c, IF t.high[w] = HighTo(o) THEN HighTo(s) ELSE EqualHigh)
        t3 == SetHigh(t2, w, EqualHigh)
    IN Rotate(SetKid(Rotate(t3, c, s), s, root, w), root, o)

RotateOnce(t, root, s) ==
    Rotate(SetHigh(SetHigh(t, root, EqualHigh), t.kid[s][root], EqualHigh), root, Other(s))

\* avl_right_balance (s = "R") and avl_left_balance: the tree and its new root.
Balance(t, root, s) ==
    LET c == t.kid[s][root]
    IN IF t.high[c] = HighTo(s) THEN [t |-> RotateOnce(t, root, s), root |-> c]
       ELSE IF t.high[c] = HighTo(Other(s)) THEN [t |-> RotateTwice(t, root, s), root |-> t.kid[Other(s)][c]]
       ELSE [t |-> t, root |-> root]

-----------------------------------------------------------------------------
\* Searching
-----------------------------------------------------------------------------
\* The subtree of x where k belongs.
Towards(k, x) == IF Cmp(k, x) < 0 THEN "L" ELSE "R"
Descend(t, k) == [x \in Pointer |->
    IF x = Nil THEN Nil ELSE IF Cmp(k, x) = 0 THEN x ELSE t.kid[Towards(k, x)][x]]
avl_find_node(t, node, k) == Iterated(Descend(t, k), node, Deepest(t))

-----------------------------------------------------------------------------
\* Insertion
-----------------------------------------------------------------------------
NewNode(t, k, d) ==
    [CutOff(t, k) EXCEPT !.data[k] = d, !.high[k] = EqualHigh, !.current = k]

\* Mutant: the balance is not reset when the lower subtree grew.
GrownKeepsBalance(r, root, s) ==
    LET t1 == SetParent(SetKid(r.t, s, root, r.root), r.root, root)
    IN IF r.grew /\ t1.high[root] = HighTo(s)
       THEN LET b == Balance(t1, root, s) IN [t |-> b.t, root |-> b.root, grew |-> FALSE]
       ELSE [t |-> SetHigh(t1, root, IF r.grew THEN HighTo(s) ELSE t1.high[root]), root |-> root,
             grew |-> r.grew /\ t1.high[root] = EqualHigh]

\* On the way back from a subtree: link it, and when it grew, account for it.
Grown(r, root, s) ==
    LET t1 == SetParent(SetKid(r.t, s, root, r.root), r.root, root)
    IN CASE ~r.grew -> [t |-> t1, root |-> root, grew |-> FALSE]
         [] r.grew /\ t1.high[root] = EqualHigh ->
                [t |-> SetHigh(t1, root, HighTo(s)), root |-> root, grew |-> TRUE]
         [] r.grew /\ t1.high[root] = HighTo(Other(s)) ->
                [t |-> SetHigh(t1, root, EqualHigh), root |-> root, grew |-> FALSE]
         [] r.grew /\ t1.high[root] = HighTo(s) ->
                LET b == Balance(t1, root, s) IN [t |-> b.t, root |-> b.root, grew |-> FALSE]

\* The recursion of avl_insert: down to the place of k, and back along the nodes of that
\* way (Nil beyond its end).  The new root of the subtree, Nil for a duplicate key.
Growing == [t : Tree, root : Key, grew : BOOLEAN, depth : Nat]
WayBack(t, root, k) == [r \in Growing |->
    LET x == Iterated(Descend(t, k), root, r.depth - 1)
        g == Grown(r, x, Towards(k, x))
    IN IF x = Nil THEN [r EXCEPT !.depth = @ - 1]
       ELSE [t |-> g.t, root |-> g.root, grew |-> g.grew, depth |-> r.depth - 1]]
avl_insert(t, root, k, d) ==
    IF avl_find_node(t, root, k) # Nil THEN [t |-> t, root |-> Nil, grew |-> FALSE]
    ELSE Iterated(WayBack(t, root, k),
                  [t |-> NewNode(t, k, d), root |-> k, grew |-> TRUE, depth |-> Deepest(t)], Deepest(t))

-----------------------------------------------------------------------------
\* Stepping
-----------------------------------------------------------------------------
\* avl_minimum_node (s = "L") and avl_maximum_node.
Outwards(t, s) == [x \in Pointer |-> IF x = Nil THEN Nil ELSE IF t.kid[s][x] = Nil THEN x ELSE t.kid[s][x]]
Outermost(t, node, s) == Iterated(Outwards(t, s), node, Deepest(t))

\* The first ancestor that the path does not leave towards side s.
Upwards(t, s) == [x \in Key |-> IF IsChild(t, x, s) THEN t.parent[x] ELSE x]
Ascend(t, node, s) == t.parent[Iterated(Upwards(t, s), node, Deepest(t))]

\* Mutant: the way up is not taken.
NeighbourBelow(t, node, s) == Outermost(t, t.kid[s][node], Other(s))

\* avlNextNode (s = "R") and avlPrevNode: the neighbour in the order of keys.
Neighbour(t, node, s) ==
    IF t.kid[s][node] # Nil THEN Outermost(t, t.kid[s][node], Other(s)) ELSE Ascend(t, node, s)

-----------------------------------------------------------------------------
\* Removal
-----------------------------------------------------------------------------
\* Links x where the child of parent p on side s was.
Attach(t, p, s, x) == IF p = Nil THEN t ELSE SetKid(t, s, p, x)

\* avl_rem_fix_up_right (s = "R") and avl_rem_fix_up_left: p lost height on the
\* side other than s.  The loop goes on at the parent while a subtree shrank.
Fixing == [t : Tree, p : Pointer, s : Side]   \* p is Nil when the loop is left
FixRound == [f \in Fixing |->
    LET t == f.t
        p == f.p
        s == f.s
        o == Other(s)
        pp == t.parent[p]
        side == SideOf(t, p)
        q == t.kid[s][p]
        Done(u) == [t |-> u, p |-> Nil, s |-> s]
        Shorter(u) == [t |-> u, p |-> pp, s |-> Other(side)]
    IN IF p = Nil THEN f
       ELSE IF t.high[p] = HighTo(o) THEN Shorter(SetHigh(t, p, EqualHigh))
       ELSE IF t.high[p] = EqualHigh THEN Done(SetHigh(t, p, HighTo(s)))
       ELSE IF t.high[q] = EqualHigh
       THEN Done(Attach(Rotate(SetHigh(t, q, HighTo(o)), p, o), pp, side, q))
       ELSE IF t.high[q] = HighTo(s) THEN Shorter(Attach(RotateOnce(t, p, s), pp, side, q))
       ELSE Shorter(Attach(RotateTwice(t, p, s), pp, side, t.kid[o][q]))]
FixUp(t, p, s) == Iterated(FixRound, [t |-> t, p |-> p, s |-> s], Deepest(t)).t

\* BIND: the only child of a node, or nothing, takes its place.
Bind(t, node, child) ==
    LET p == t.parent[node]
        side == SideOf(t, node)
        t1 == SetParent(t, child, p)
    IN IF p = Nil THEN t1 ELSE FixUp(Attach(t1, p, side, child), p, Other(side))

Topwards(t) == [x \in Pointer |-> IF x = Nil THEN Nil ELSE IF t.parent[x] = Nil THEN x ELSE t.parent[x]]
Topmost(t, x) == Iterated(Topwards(t), x, Deepest(t))

\* A node with at most one child leaves the tree and is freed.
Unlink(t, node) ==
    LET child == IF t.kid["L"][node] # Nil THEN t.kid["L"][node] ELSE t.kid["R"][node]
        t1 == Bind(t, node, child)
        top == Topmost(t1, IF t.parent[node] = Nil THEN child ELSE t.root)
    IN [SetHigh(CutOff(t1, node), node, EqualHigh)
            EXCEPT !.root = top, !.data[node] = Nil, !.current = IF @ = node THEN Freed ELSE @]

\* The node named a carries the key b from now on.
Renamed(t, a, b) ==
    LET name(x) == IF x = a THEN b ELSE x
        moved(f, none) == [x \in Key |-> IF x = a THEN none ELSE f[IF x = b THEN a ELSE x]]
        links(f) == LET g == moved(f, Nil) IN [x \in Key |-> name(g[x])]
    IN [at_nodes |-> t.at_nodes, root |-> name(t.root), current |-> name(t.current),
        kid |-> [s \in Side |-> links(t.kid[s])], parent |-> links(t.parent),
        high |-> moved(t.high, EqualHigh), data |-> moved(t.data, Nil)]

\* Mutant: the key is copied and the data is not.
CopiesKeyOnly(t, dest, src) == Renamed(Unlink(t, src), dest, src)

\* avl_copy_nodes: the data of the predecessor, and its key unless at_copy_keys
\* is set, because the branch that would copy it is compiled out (DO_COPY).
avl_copy_nodes(t, dest, src) ==
    LET t1 == Unlink([t EXCEPT !.data[dest] = t.data[src]], src)
    IN IF CopyKeys THEN t1 ELSE Renamed(t1, dest, src)

\* With two children the predecessor, which avlPrevNode makes current, is
\* copied and its node removed instead.
avl_remove_node(t, node) ==
    LET pred == Neighbour(t, node, "L")
    IN IF t.kid["L"][node] # Nil /\ t.kid["R"][node] # Nil
       THEN avl_copy_nodes([t EXCEPT !.current = pred], node, pred)
       ELSE Unlink(t, node)

\* Mutant: the currency stays on the removed node.
RemoveNodeKeepsCurrent(t, node) == [avl_remove_node(t, node) EXCEPT !.at_nodes = @ - 1]

RemoveNode(t, node) ==
    [avl_remove_node([t EXCEPT !.current = IF @ = node THEN Nil ELSE @], node) EXCEPT !.at_nodes = @ - 1]

-----------------------------------------------------------------------------
\* Exported calls
-----------------------------------------------------------------------------
Init == tree = avlNewTree

Move(t, node) == [t EXCEPT !.current = node]
FindNode(k) == Move(tree, avl_find_node(tree, tree.root, k))

\* avlInsert; -1 for a duplicate, and nothing changes when malloc fails.
avlInsert(k) ==
    LET r == avl_insert(tree, tree.root, k, k)
    IN r.root # Nil /\ tree' = [r.t EXCEPT !.root = r.root, !.at_nodes = @ + 1]

avlFind(k) == tree' = FindNode(k)
avlMinimum == tree' = Move(tree, Outermost(tree, tree.root, "L"))
avlMaximum == tree' = Move(tree, Outermost(tree, tree.root, "R"))

\* avlNextNodeByKey (s = "R") and avlPrevNodeByKey.
StepByKey(k, s) ==
    LET node == avl_find_node(tree, tree.root, k)
    IN tree' = Move(tree, IF node = Nil THEN Nil ELSE Neighbour(tree, node, s))

\* avlNext and avlPrev: from the currency, or from the end when there is none.
StepCurrent(s) ==
    /\ tree.current # Freed
    /\ tree' = Move(tree, IF tree.current = Nil THEN Outermost(tree, tree.root, Other(s))
                          ELSE Neighbour(tree, tree.current, s))

avlUpdateData(k) ==
    LET t == FindNode(k)
    IN k \in Updatable /\ tree' = IF t.current = Nil THEN t ELSE [t EXCEPT !.data[k] = Fresh]

avlRemoveByKey(k) ==
    LET t == FindNode(k)
    IN tree' = IF t.current = Nil THEN t ELSE RemoveNode(t, t.current)

\* avlRemoveNode with a node that the caller looked up before.
avlRemoveNode(k) ==
    LET node == avl_find_node(tree, tree.root, k)
    IN node # Nil /\ tree' = RemoveNode(tree, node)

avlCut == tree.current \notin {Nil, Freed} /\ tree' = RemoveNode(tree, tree.current)
avlClearCurrent == tree' = Move(tree, Nil)

\* avlWalkAscending and avlWalkDescending leave no currency behind.
avlWalkOver == tree' = Move(tree, Nil)
avlClose == tree' = avlNewTree

Next == \/ avlMinimum \/ avlMaximum \/ avlCut \/ avlClearCurrent \/ avlWalkOver \/ avlClose
        \/ \E s \in Side : StepCurrent(s) \/ \E k \in Key : StepByKey(k, s)
        \/ \E k \in Key : \/ avlInsert(k) \/ avlFind(k) \/ avlUpdateData(k)
                          \/ avlRemoveByKey(k) \/ avlRemoveNode(k)

Spec == Init /\ [][Next]_tree

-----------------------------------------------------------------------------
\* The order of visits, the height, and the check the source carries with it
-----------------------------------------------------------------------------
\* avl_visit_node: the walk in order (type AVLInWalk), one level more at each step.
Visits(t) == [v \in [Pointer -> Seq(Key)] |->
    [x \in Pointer |-> IF x = Nil THEN << >> ELSE v[t.kid["L"][x]] \o <<x>> \o v[t.kid["R"][x]]]]
avl_visit_node(t, node) == Iterated(Visits(t), [x \in Pointer |-> << >>], Deepest(t))[node]

\* avlWalkAscending (s = "R") and avlWalkDescending: from node on, by steps.
Further(t, s) == [w \in Seq(Key) |->
    LET n == Neighbour(t, w[Len(w)], s)
    IN IF n = Nil THEN w ELSE Append(w, n)]
WalkFrom(t, node, s) == IF node = Nil THEN << >> ELSE Iterated(Further(t, s), <<node>>, Deepest(t))

\* avlRealTreeHeight, one level more at each step.
Higher(l, r) == IF l > r THEN l ELSE r
Heights(t) == [h \in [Pointer -> Nat] |->
    [x \in Pointer |-> IF x = Nil THEN 0 ELSE 1 + Higher(h[t.kid["L"][x]], h[t.kid["R"][x]])]]
avlRealTreeHeight(t, node) == Iterated(Heights(t), [x \in Pointer |-> 0], Deepest(t))[node]

\* avl_check_node ends the process where this is FALSE for a node it visits; a leaf has
\* height 0 and a missing child -1.
avl_check_node(t, node) ==
    avlRealTreeHeight(t, t.kid["L"][node]) - avlRealTreeHeight(t, t.kid["R"][node]) \in -1 .. 1

Nodes(t) == avl_visit_node(t, t.root)

\* What a user of the tree sees of it: the keys that are found.
Keys(t) == {k \in Key : avl_find_node(t, t.root, k) = k}
Contents == [k \in Keys(tree) |-> tree.data[k]]

-----------------------------------------------------------------------------
\* Properties
-----------------------------------------------------------------------------
\* After any sequence of insertions and removals the rotations, which set the
\* pointers and the balances by hand, leave a tree that avlCheck accepts: each
\* balance is the real difference of heights, children and parents agree, and the
\* nodes are counted right.
AvlShape ==
    /\ tree.at_nodes = Cardinality(ToSet(Nodes(tree)))
    /\ tree.root # Nil => tree.parent[tree.root] = Nil
    /\ \A k \in ToSet(Nodes(tree)) :
          /\ avl_check_node(tree, k)
          /\ tree.high[k] = avlRealTreeHeight(tree, tree.kid["R"][k]) - avlRealTreeHeight(tree, tree.kid["L"][k])
          /\ \A s \in Side : tree.kid[s][k] # Nil => tree.parent[tree.kid[s][k]] = k

\* Every key in the tree is found from the root, no other one is, and both walks
\* by steps meet the keys of the recursive walk, in that order and in the reverse one.
WalksAgree ==
    /\ \A k \in Key : avl_find_node(tree, tree.root, k) = IF k \in ToSet(Nodes(tree)) THEN k ELSE Nil
    /\ WalkFrom(tree, Outermost(tree, tree.root, "L"), "R") = Nodes(tree)
    /\ WalkFrom(tree, Outermost(tree, tree.root, "R"), "L") = Reverse(Nodes(tree))

\* The tree is an ordered map with a currency: each call does to the map and
\* the currency what its name says, and nothing to the other keys.  Where the keys
\* are not copied (each tree of the server) a removal may instead take the key
\* just before the one asked for, whose data then stands under that one.
Map == INSTANCE OrderedMap WITH map <- Contents, currency <- tree.current, Datum <- Key \cup {Fresh},
                                KeysStay <- CopyKeys
ImplementsMap == Map!Spec

\* Only the removal of a node with two children leaves the currency on freed
\* memory: of that node, or of its predecessor when its key was not copied.  The
\* next search, walk or insertion takes the currency off again.
CurrencyLostOnlyInside ==
    [][tree'.current = Freed /\ tree.current # Freed
          => \E k \in Keys(tree) :
                /\ \A s \in Side : tree.kid[s][k] # Nil
                /\ Keys(tree') = Keys(tree) \ {IF CopyKeys THEN Neighbour(tree, k, "L") ELSE k}]_tree

\* A connection is found under its own address: what was inserted under a key
\* is what a lookup of that key returns (ConnectionContainerFindConnection).
FoundUnderOwnKey == \A k \in Keys(tree) : tree.data[k] \in {k, Fresh}
=============================================================================
