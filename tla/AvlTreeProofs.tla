--------------------------- MODULE AvlTreeProofs ---------------------------
(***************************************************************************)
(* The AVL tree, for every finite set of keys and every order of them.     *)
(*                                                                         *)
(* AvlShape and WalksAgree speak of what recursions and loops along the    *)
(* links come to.  The invariant says instead that the links from the root *)
(* form a branch: Sub(t, r, S, h) says of the link r that the nodes below  *)
(* it are S, in order, balanced as they say, with parents that agree, and  *)
(* h deep.  These triples are the least set that has the empty branch and  *)
(* is closed under putting two of them below a node, so what is shown of   *)
(* the two and of the node is shown of every branch, without induction     *)
(* along the links.  A rotation, a new leaf, a branch that lost height and *)
(* a node that changes its name are each a lemma about branches; a loop of *)
(* the code carries such a fact from each step to the next.                *)
(***************************************************************************)
EXTENDS AvlTree, ContainerProofs, SequenceTheorems

(***************************************************************************)
(* Sides and order                                                         *)
(***************************************************************************)

(* The key y belongs on the side s of x. *)
OnSide(s, y, x) == IF s = "L" THEN Cmp(y, x) < 0 ELSE Cmp(x, y) < 0

(* There are two sides. *)
LEMMA Sides ==
    ASSUME NEW s \in Side
    PROVE  /\ Other(s) \in Side /\ Other(s) # s /\ Other(Other(s)) = s
           /\ \A r \in Side : r = s \/ r = Other(s)
           /\ HighTo(s) \in {LeftHigh, RightHigh} /\ HighTo(Other(s)) \in {LeftHigh, RightHigh}
           /\ HighTo(s) # HighTo(Other(s)) /\ EqualHigh # HighTo(s) /\ EqualHigh # HighTo(Other(s))
  BY DEF Side, Other, HighTo, LeftHigh, RightHigh, EqualHigh

(* The order of the keys, seen from either side. *)
LEMMA Order ==
    ASSUME NEW s \in Side, NEW x \in Key, NEW y \in Key
    PROVE  /\ ~OnSide(s, x, x)
           /\ OnSide(s, y, x) <=> OnSide(Other(s), x, y)
           /\ x = y \/ OnSide(s, y, x) \/ OnSide(Other(s), y, x)
           /\ ~(OnSide(s, y, x) /\ OnSide(Other(s), y, x))
           /\ \A z \in Key : OnSide(s, z, y) /\ OnSide(s, y, x) => OnSide(s, z, x)
  <1>1. /\ Cmp(x, y) \in Int /\ Cmp(y, x) \in Int /\ Cmp(x, x) = 0
        /\ (Cmp(x, y) = 0) <=> (x = y)
        /\ (Cmp(x, y) < 0) <=> (Cmp(y, x) > 0)
        /\ (Cmp(y, x) < 0) <=> (Cmp(x, y) > 0)
    BY CmpAssumption
  <1>2. \A z \in Key : /\ Cmp(z, y) < 0 /\ Cmp(y, x) < 0 => Cmp(z, x) < 0
                       /\ Cmp(x, y) < 0 /\ Cmp(y, z) < 0 => Cmp(x, z) < 0
    BY CmpAssumption
  <1> QED BY <1>1, <1>2 DEF OnSide, Other, Side

(***************************************************************************)
(* Writing a tree                                                          *)
(***************************************************************************)

(* What a tree is made of. *)
LEMMA TreeKinds ==
    ASSUME NEW t \in Tree
    PROVE  /\ t = [at_nodes |-> t.at_nodes, root |-> t.root, current |-> t.current, kid |-> t.kid,
                   parent |-> t.parent, high |-> t.high, data |-> t.data]
           /\ t.at_nodes \in Nat /\ t.root \in Pointer /\ t.current \in Pointer \cup {Freed}
           /\ t.kid \in [Side -> [Key -> Pointer]] /\ t.parent \in [Key -> Pointer]
           /\ t.high \in [Key -> {LeftHigh, EqualHigh, RightHigh}]
           /\ t.data \in [Key -> Key \cup {Nil, Fresh}]
           /\ \A s \in Side, x \in Key : t.kid[s][x] \in Pointer
           /\ \A x \in Key : /\ t.parent[x] \in Pointer /\ t.high[x] \in {LeftHigh, EqualHigh, RightHigh}
                             /\ t.data[x] \in Key \cup {Nil, Fresh}
  BY DEF Tree

(* The links and balances of u. *)
Same(t, u) == u.at_nodes = t.at_nodes /\ u.root = t.root /\ u.current = t.current /\ u.data = t.data

(* u is t with another child, *)
KidIs(t, u, s, x, v) ==
    /\ u \in Tree /\ Same(t, u) /\ u.parent = t.parent /\ u.high = t.high
    /\ \A r \in Side, y \in Key : u.kid[r][y] = IF r = s /\ y = x THEN v ELSE t.kid[r][y]

(* another parent, *)
ParentIs(t, u, x, v) ==
    /\ u \in Tree /\ Same(t, u) /\ u.kid = t.kid /\ u.high = t.high
    /\ \A y \in Key : u.parent[y] = IF y = x THEN v ELSE t.parent[y]

(* or another balance. *)
HighIs(t, u, x, v) ==
    /\ u \in Tree /\ Same(t, u) /\ u.kid = t.kid /\ u.parent = t.parent
    /\ \A y \in Key : u.high[y] = IF y = x THEN v ELSE t.high[y]

(* Each is one assignment. *)
LEMMA KidSet ==
    ASSUME NEW t \in Tree, NEW s \in Side, NEW x \in Key, NEW v \in Pointer
    PROVE  KidIs(t, SetKid(t, s, x, v), s, x, v)
  <1> DEFINE k == [t.kid EXCEPT ![s][x] = v]
             u == [t EXCEPT !.kid[s][x] = v]
  <1>1. k \in [Side -> [Key -> Pointer]]
    BY TreeKinds
  <1>2. \A r \in Side, y \in Key : k[r][y] = IF r = s /\ y = x THEN v ELSE t.kid[r][y]
    BY TreeKinds
  <1>3. u = [t EXCEPT !.kid = k]
    OBVIOUS
  <1>4. u = [at_nodes |-> t.at_nodes, root |-> t.root, current |-> t.current,
             kid |-> k, parent |-> t.parent, high |-> t.high, data |-> t.data]
    <2> HIDE DEF k, u
    <2> QED BY <1>3 DEF Tree
  <1> HIDE DEF k, u
  <1>5. u \in Tree
    BY <1>1, <1>4, TreeKinds DEF Tree
  <1>6. SetKid(t, s, x, v) = u
    BY DEF SetKid, u
  <1> QED BY <1>2, <1>4, <1>5, <1>6 DEF KidIs, Same

(* So is this for a parent, *)
LEMMA ParentSet ==
    ASSUME NEW t \in Tree, NEW x \in Key, NEW v \in Pointer
    PROVE  ParentIs(t, [t EXCEPT !.parent[x] = v], x, v)
  <1> DEFINE k == [t.parent EXCEPT ![x] = v]
             u == [t EXCEPT !.parent[x] = v]
  <1>1. k \in [Key -> Pointer]
    BY TreeKinds
  <1>2. \A y \in Key : k[y] = IF y = x THEN v ELSE t.parent[y]
    BY TreeKinds
  <1>3. u = [at_nodes |-> t.at_nodes, root |-> t.root, current |-> t.current,
             kid |-> t.kid, parent |-> k, high |-> t.high, data |-> t.data]
    BY DEF Tree
  <1> HIDE DEF k, u
  <1>4. u \in Tree
    BY <1>1, <1>3, TreeKinds DEF Tree
  <1> QED BY <1>2, <1>3, <1>4 DEF u, ParentIs, Same

(* and this for a balance. *)
LEMMA HighSet ==
    ASSUME NEW t \in Tree, NEW x \in Key, NEW v \in {LeftHigh, EqualHigh, RightHigh}
    PROVE  HighIs(t, SetHigh(t, x, v), x, v)
  <1> DEFINE k == [t.high EXCEPT ![x] = v]
             u == [t EXCEPT !.high[x] = v]
  <1>1. k \in [Key -> {LeftHigh, EqualHigh, RightHigh}]
    BY TreeKinds
  <1>2. \A y \in Key : k[y] = IF y = x THEN v ELSE t.high[y]
    BY TreeKinds
  <1>3. u = [at_nodes |-> t.at_nodes, root |-> t.root, current |-> t.current,
             kid |-> t.kid, parent |-> t.parent, high |-> k, data |-> t.data]
    BY DEF Tree
  <1> HIDE DEF k, u
  <1>4. u \in Tree
    BY <1>1, <1>3, TreeKinds DEF Tree
  <1>5. SetHigh(t, x, v) = u
    BY DEF SetHigh, u
  <1> QED BY <1>2, <1>3, <1>4, <1>5 DEF HighIs, Same

(* A link is written when there is a node to write it to. *)
LEMMA SetParentIs ==
    ASSUME NEW t \in Tree, NEW x \in Pointer, NEW v \in Pointer
    PROVE  ParentIs(t, SetParent(t, x, v), x, v)
  <1>1. CASE x = Nil
    BY <1>1, TreeAssumption DEF SetParent, Same, ParentIs
  <1>2. CASE x \in Key
    BY <1>2, ParentSet, TreeAssumption DEF SetParent
  <1> QED BY <1>1, <1>2 DEF Pointer

(* A child is linked when there is a parent to link it to. *)
LEMMA AttachIs ==
    ASSUME NEW t \in Tree, NEW p \in Pointer, NEW s \in Side, NEW x \in Pointer
    PROVE  KidIs(t, Attach(t, p, s, x), s, p, x)
  <1>1. CASE p = Nil
    BY <1>1, TreeAssumption DEF Attach, Same, KidIs
  <1>2. CASE p \in Key
    <2>1. Attach(t, p, s, x) = SetKid(t, s, p, x)
      BY <1>2, TreeAssumption DEF Attach
    <2> QED BY <1>2, <2>1, KidSet
  <1> QED BY <1>1, <1>2 DEF Pointer

(* A rotation: the child c of x on side s takes its place. *)
Turned(t, u, x, s, c) ==
    /\ u \in Tree /\ Same(t, u) /\ u.high = t.high
    /\ \A r \in Side, y \in Key :
         u.kid[r][y] = IF y = x /\ r = s THEN t.kid[Other(s)][c]
                       ELSE IF y = c /\ r = Other(s) THEN x ELSE t.kid[r][y]
    /\ \A y \in Key : u.parent[y] = IF y = x THEN c ELSE IF y = c THEN t.parent[x]
                                    ELSE IF y = t.kid[Other(s)][c] THEN x ELSE t.parent[y]

(* Rotate writes six links, as Turned says. *)
LEMMA RotateTurns ==
    ASSUME NEW t \in Tree, NEW s \in Side, NEW x \in Key, NEW c \in Key, c = t.kid[s][x], c # x
    PROVE  Turned(t, Rotate(t, x, Other(s)), x, s, c)
  <1> DEFINE o == Other(s)
             inner == t.kid[o][c]
             t1 == SetParent(t, inner, x)
             t2 == SetKid(t1, s, x, inner)
             t3 == SetKid(t2, o, c, x)
             t4 == SetParent(t3, c, t.parent[x])
             t5 == SetParent(t4, x, c)
  <1>0. o \in Side /\ o # s /\ Other(o) = s /\ inner \in Pointer /\ t.parent[x] \in Pointer /\ x \in Pointer /\ c \in Pointer
    BY Sides, TreeKinds DEF Pointer
  <1>1. Rotate(t, x, o) = t5
    BY <1>0 DEF Rotate
  <1>2. ParentIs(t, t1, inner, x)
    BY <1>0, SetParentIs
  <1>3. KidIs(t1, t2, s, x, inner)
    <2> HIDE DEF t1, inner
    <2> QED BY <1>0, <1>2, KidSet DEF ParentIs
  <1>4. KidIs(t2, t3, o, c, x)
    <2> HIDE DEF t2, inner, o
    <2>1. t2 \in Tree
      BY <1>3 DEF KidIs
    <2> QED BY <1>0, <2>1, KidSet
  <1>5. ParentIs(t3, t4, c, t.parent[x])
    <2> HIDE DEF t3, inner, o
    <2>1. t3 \in Tree
      BY <1>4 DEF KidIs
    <2> QED BY <1>0, <2>1, SetParentIs
  <1>6. ParentIs(t4, t5, x, c)
    <2> HIDE DEF t4, inner, o
    <2>1. t4 \in Tree
      BY <1>5 DEF ParentIs
    <2> QED BY <1>0, <2>1, SetParentIs
  <1> HIDE DEF t1, t2, t3, t4, t5, inner
  <1>7. t5 \in Tree /\ Same(t, t5) /\ t5.high = t.high
    BY <1>2, <1>3, <1>4, <1>5, <1>6 DEF Same, ParentIs, KidIs
  <1>8. \A r \in Side, y \in Key :
           t5.kid[r][y] = IF y = x /\ r = s THEN inner ELSE IF y = c /\ r = o THEN x ELSE t.kid[r][y]
    <2>1. t5.kid = t3.kid /\ t1.kid = t.kid
      BY <1>2, <1>5, <1>6 DEF ParentIs
    <2> HIDE DEF o
    <2> QED BY <1>0, <1>3, <1>4, <2>1 DEF KidIs
  <1>9. \A y \in Key : t5.parent[y] = IF y = x THEN c ELSE IF y = c THEN t.parent[x]
                                      ELSE IF y = inner THEN x ELSE t.parent[y]
    <2>1. t3.parent = t1.parent
      BY <1>3, <1>4 DEF KidIs
    <2> QED BY <1>2, <1>5, <1>6, <2>1 DEF ParentIs
  <1> QED BY <1>1, <1>7, <1>8, <1>9 DEF Turned, inner

(***************************************************************************)
(* Branches                                                                *)
(*                                                                         *)
(* A branch is a node with all that is below it: <<x, S, h>> is the branch *)
(* of x, with the nodes S and the height h.  The branches of a tree are    *)
(* the least set that has the empty branch and, with two branches, the one *)
(* that a node makes of them.                                              *)
(***************************************************************************)

(* The balance v of a node whose branch on side s has height m, and the other one n. *)
Leans(v, s, m, n) ==
    \/ m = n /\ v = EqualHigh
    \/ m = n + 1 /\ v = HighTo(s)
    \/ n = m + 1 /\ v = HighTo(Other(s))

(* What a branch with the nodes A must be to hang below x on side s. *)
Fits(t, s, x, top, A) ==
    /\ t.kid[s][x] = top
    /\ top # Nil => t.parent[top] = x
    /\ \A y \in A : OnSide(s, y, x)

Branch == Pointer \X (SUBSET Key) \X Nat
ClosedUnder(t, X) ==
    /\ <<Nil, {}, 0>> \in X
    /\ \A x \in Key : \A a, b \in X :
         Fits(t, "L", x, a[1], a[2]) /\ Fits(t, "R", x, b[1], b[2]) /\ Leans(t.high[x], "L", a[3], b[3])
         => <<x, a[2] \cup {x} \cup b[2], 1 + Higher(a[3], b[3])>> \in X
Branches(t) == {w \in Branch : \A X \in SUBSET Branch : ClosedUnder(t, X) => w \in X}

Sub(t, x, S, h) == <<x, S, h>> \in Branches(t)

(* The branch on side s of x has the nodes A and the height m. *)
Hangs(t, s, x, A, m) == Sub(t, t.kid[s][x], A, m) /\ Fits(t, s, x, t.kid[s][x], A)

(* What a branch is made of. *)
LEMMA SubKinds ==
    ASSUME NEW t, NEW x, NEW S, NEW h, Sub(t, x, S, h)
    PROVE  x \in Pointer /\ S \in SUBSET Key /\ h \in Nat
  BY DEF Sub, Branches, Branch

(* Nothing is a branch. *)
LEMMA SubNil == ASSUME NEW t PROVE Sub(t, Nil, {}, 0)
  <1>1. Nil \in Pointer /\ {} \in SUBSET Key /\ 0 \in Nat
    BY DEF Pointer
  <1>2. <<Nil, {}, 0>> \in Branch
    BY <1>1 DEF Branch
  <1> QED BY <1>2 DEF Sub, Branches, ClosedUnder

(* Heights of the two sides. *)
LEMMA HigherIs ==
    ASSUME NEW m \in Nat, NEW n \in Nat
    PROVE  /\ Higher(m, n) \in Nat /\ Higher(m, n) = Higher(n, m)
           /\ Higher(m, n) >= m /\ Higher(m, n) >= n /\ (Higher(m, n) = m \/ Higher(m, n) = n)
  BY DEF Higher

(* A balance seen from the other side. *)
LEMMA LeansBoth ==
    ASSUME NEW v, NEW s \in Side, NEW m \in Nat, NEW n \in Nat
    PROVE  Leans(v, s, m, n) <=> Leans(v, Other(s), n, m)
  BY Sides DEF Leans

(* The branches A and B of x, of heights m and n, on side s and on the other one. *)
Joins(t, s, x, A, m, B, n) ==
    Hangs(t, s, x, A, m) /\ Hangs(t, Other(s), x, B, n) /\ Leans(t.high[x], s, m, n)

(* Both sides are there. *)
LEMMA LeftRight == "L" \in Side /\ "R" \in Side /\ Other("L") = "R" /\ Other("R") = "L"
  BY DEF Side, Other

(* It is the same seen from the other side. *)
LEMMA JoinsFlip ==
    ASSUME NEW t, NEW s \in Side, NEW x, NEW A, NEW m, NEW B, NEW n, Joins(t, s, x, A, m, B, n)
    PROVE  Joins(t, Other(s), x, B, n, A, m)
  <1>1. m \in Nat /\ n \in Nat
    BY SubKinds DEF Joins, Hangs
  <1> QED BY <1>1, Sides, LeansBoth DEF Joins

(* A triple is a branch. *)
LEMMA Triple ==
    ASSUME NEW x \in Pointer, NEW S \in SUBSET Key, NEW h \in Nat
    PROVE  /\ <<x, S, h>> \in Branch
           /\ <<x, S, h>>[1] = x /\ <<x, S, h>>[2] = S /\ <<x, S, h>>[3] = h
  BY DEF Branch

(* So is the empty one. *)
LEMMA NilTriple == /\ <<Nil, {}, 0>> \in Branch
                   /\ <<Nil, {}, 0>>[1] = Nil /\ <<Nil, {}, 0>>[2] = {} /\ <<Nil, {}, 0>>[3] = 0
  BY Triple DEF Pointer

(* What the branches below a node are made of, *)
LEMMA JoinsKinds ==
    ASSUME NEW t, NEW s, NEW x, NEW A, NEW m, NEW B, NEW n, Joins(t, s, x, A, m, B, n)
    PROVE  A \in SUBSET Key /\ B \in SUBSET Key /\ m \in Nat /\ n \in Nat
  BY SubKinds DEF Joins, Hangs

(* as triples, *)
LEMMA JoinsTriple ==
    ASSUME NEW t, NEW s \in Side, NEW x \in Key, NEW A, NEW m, NEW B, NEW n, Joins(t, s, x, A, m, B, n)
    PROVE  /\ A \in SUBSET Key /\ B \in SUBSET Key /\ m \in Nat /\ n \in Nat
           /\ t.kid[s][x] \in Pointer /\ t.kid[Other(s)][x] \in Pointer
           /\ x \in Pointer /\ A \cup {x} \cup B \in SUBSET Key /\ 1 + Higher(m, n) \in Nat
  <1>1. A \in SUBSET Key /\ B \in SUBSET Key /\ m \in Nat /\ n \in Nat
        /\ t.kid[s][x] \in Pointer /\ t.kid[Other(s)][x] \in Pointer
    BY SubKinds DEF Joins, Hangs
  <1>2. Higher(m, n) \in Nat
    BY <1>1, HigherIs
  <1> QED BY <1>1, <1>2 DEF Pointer

(* and as left and right. *)
LEMMA JoinsLR ==
    ASSUME NEW t, NEW x \in Key, NEW A, NEW m, NEW B, NEW n, Joins(t, "L", x, A, m, B, n)
    PROVE  /\ A \in SUBSET Key /\ B \in SUBSET Key /\ m \in Nat /\ n \in Nat
           /\ x \in Pointer /\ A \cup {x} \cup B \in SUBSET Key /\ 1 + Higher(m, n) \in Nat
  <1>1. PICK l \in Side : l = "L"
    BY LeftRight
  <1>2. Joins(t, l, x, A, m, B, n)
    BY <1>1
  <1> QED BY <1>2, JoinsTriple

(* A node with two branches is one. *)
LEMMA JoinLR ==
    ASSUME NEW t, NEW x \in Key, NEW A, NEW m, NEW B, NEW n, Joins(t, "L", x, A, m, B, n)
    PROVE  Sub(t, x, A \cup {x} \cup B, 1 + Higher(m, n))
  <1> DEFINE a == <<t.kid["L"][x], A, m>>  b == <<t.kid["R"][x], B, n>>
             w == <<x, A \cup {x} \cup B, 1 + Higher(m, n)>>
  <1>0. Hangs(t, "L", x, A, m) /\ Hangs(t, "R", x, B, n) /\ Leans(t.high[x], "L", m, n)
    BY LeftRight DEF Joins
  <1>1. a \in Branches(t) /\ b \in Branches(t)
    BY <1>0 DEF Hangs, Sub
  <1>2. a \in Branch /\ b \in Branch
    BY <1>1 DEF Branches
  <1>3. w \in Branch
    BY JoinsLR, Triple
  <1>4. ASSUME NEW X \in SUBSET Branch, ClosedUnder(t, X) PROVE w \in X
    <2>1. a \in X /\ b \in X
      BY <1>1, <1>4 DEF Branches
    <2>2. Fits(t, "L", x, a[1], a[2]) /\ Fits(t, "R", x, b[1], b[2]) /\ Leans(t.high[x], "L", a[3], b[3])
      BY <1>0 DEF Hangs
    <2>3. <<x, a[2] \cup {x} \cup b[2], 1 + Higher(a[3], b[3])>> \in X
      <3> HIDE DEF a, b
      <3> QED BY <1>4, <2>1, <2>2 DEF ClosedUnder
    <2> QED BY <2>3
  <1> HIDE DEF w
  <1>5. w \in Branches(t)
    BY <1>3, <1>4 DEF Branches
  <1> QED BY <1>5 DEF Sub, w

(* It is what the closed sets have in common. *)
LEMMA Join ==
    ASSUME NEW t, NEW s \in Side, NEW x \in Key, NEW A, NEW m, NEW B, NEW n, Joins(t, s, x, A, m, B, n)
    PROVE  Sub(t, x, A \cup {x} \cup B, 1 + Higher(m, n))
  <1>1. CASE s = "L"
    BY <1>1, JoinLR
  <1>2. CASE s = "R"
    <2>1. Joins(t, "L", x, B, n, A, m)
      BY <1>2, JoinsFlip, LeftRight
    <2>2. Sub(t, x, B \cup {x} \cup A, 1 + Higher(n, m))
      BY <2>1, JoinLR
    <2>3. B \cup {x} \cup A = A \cup {x} \cup B /\ Higher(n, m) = Higher(m, n)
      BY JoinsTriple, HigherIs
    <2> QED BY <2>2, <2>3
  <1> QED BY <1>1, <1>2 DEF Side

(* What holds of the empty branch, and of a node with two branches when it holds of these,
   holds of all: T is the set of those it holds of. *)
LEMMA SubInduct ==
    ASSUME NEW t, NEW T, <<Nil, {}, 0>> \in T,
           ASSUME NEW x \in Key, NEW A, NEW m, NEW B, NEW n, Joins(t, "L", x, A, m, B, n),
                  <<t.kid["L"][x], A, m>> \in T, <<t.kid["R"][x], B, n>> \in T
           PROVE  <<x, A \cup {x} \cup B, 1 + Higher(m, n)>> \in T,
           NEW x, NEW S, NEW h, Sub(t, x, S, h)
    PROVE  <<x, S, h>> \in T
  <1> DEFINE X == Branches(t) \cap T
  <1>1. X \in SUBSET Branch
    BY DEF Branches
  <1>2. ClosedUnder(t, X)
    <2>1. <<Nil, {}, 0>> \in X
      BY SubNil DEF Sub
    <2>2. ASSUME NEW y \in Key, NEW a \in X, NEW b \in X, Fits(t, "L", y, a[1], a[2]),
                 Fits(t, "R", y, b[1], b[2]), Leans(t.high[y], "L", a[3], b[3])
          PROVE  <<y, a[2] \cup {y} \cup b[2], 1 + Higher(a[3], b[3])>> \in X
      <3>0. a \in Branch /\ b \in Branch /\ a \in Branches(t) /\ b \in Branches(t) /\ a \in T /\ b \in T
        BY <1>1
      <3> HIDE DEF X
      <3>1. a = <<a[1], a[2], a[3]>> /\ b = <<b[1], b[2], b[3]>>
        BY <3>0 DEF Branch
      <3>2. a[1] = t.kid["L"][y] /\ b[1] = t.kid["R"][y]
        BY <2>2 DEF Fits
      <3>3. Sub(t, a[1], a[2], a[3]) /\ Sub(t, b[1], b[2], b[3])
        BY <3>0, <3>1 DEF Sub
      <3>4. Joins(t, "L", y, a[2], a[3], b[2], b[3])
        BY <2>2, <3>2, <3>3, LeftRight DEF Hangs, Joins
      <3>5. Sub(t, y, a[2] \cup {y} \cup b[2], 1 + Higher(a[3], b[3]))
        BY <3>4, JoinLR
      <3>6. <<t.kid["L"][y], a[2], a[3]>> \in T /\ <<t.kid["R"][y], b[2], b[3]>> \in T
        BY <3>0, <3>1, <3>2
      <3>7. <<y, a[2] \cup {y} \cup b[2], 1 + Higher(a[3], b[3])>> \in T
        BY <3>4, <3>6
      <3> QED BY <3>5, <3>7 DEF Sub, X
    <2> HIDE DEF X
    <2> QED BY <2>1, <2>2 DEF ClosedUnder
  <1> HIDE DEF X
  <1>3. <<x, S, h>> \in X
    BY <1>1, <1>2 DEF Sub, Branches
  <1> QED BY <1>3 DEF X

(* A branch that is not empty is made of two. *)
MadeOf(t, s, x, S, h) == \E A, B \in SUBSET Key, m, n \in Nat :
    Joins(t, s, x, A, m, B, n) /\ S = A \cup {x} \cup B /\ h = 1 + Higher(m, n)

(* TreeWithout the triples that are not made of two, a closed set would still be one. *)
LEMMA Split ==
    ASSUME NEW t, NEW x \in Key, NEW S, NEW h, Sub(t, x, S, h), NEW s \in Side
    PROVE  MadeOf(t, s, x, S, h)
  <1> DEFINE T == {w \in Branch : w[1] # Nil => MadeOf(t, "L", w[1], w[2], w[3])}
  <1>1. <<Nil, {}, 0>> \in T
    BY NilTriple
  <1>2. ASSUME NEW y \in Key, NEW A, NEW m, NEW B, NEW n, Joins(t, "L", y, A, m, B, n)
        PROVE  <<y, A \cup {y} \cup B, 1 + Higher(m, n)>> \in T
    <2> DEFINE w == <<y, A \cup {y} \cup B, 1 + Higher(m, n)>>
    <2>1. A \in SUBSET Key /\ B \in SUBSET Key /\ m \in Nat /\ n \in Nat
      BY <1>2, JoinsLR
    <2>2. MadeOf(t, "L", y, A \cup {y} \cup B, 1 + Higher(m, n))
      BY <1>2, <2>1 DEF MadeOf
    <2>3. w \in Branch /\ w[1] = y /\ w[2] = A \cup {y} \cup B /\ w[3] = 1 + Higher(m, n)
      BY <1>2, JoinsLR, Triple
    <2> HIDE DEF w
    <2>4. w \in T
      BY <2>2, <2>3
    <2> QED BY <2>4 DEF w
  <1> HIDE DEF T
  <1>3. <<x, S, h>> \in T
    BY <1>1, <1>2, SubInduct
  <1>4. MadeOf(t, "L", x, S, h)
    BY <1>3, SubKinds, Triple, TreeAssumption DEF T
  <1>5. CASE s = "L"
    BY <1>4, <1>5
  <1>6. CASE s = "R"
    <2>1. PICK A, B \in SUBSET Key, m, n \in Nat :
              Joins(t, "L", x, A, m, B, n) /\ S = A \cup {x} \cup B /\ h = 1 + Higher(m, n)
      BY <1>4 DEF MadeOf
    <2>2. Joins(t, "R", x, B, n, A, m)
      BY <2>1, JoinsFlip, LeftRight
    <2>3. S = B \cup {x} \cup A /\ h = 1 + Higher(n, m)
      BY <2>1, HigherIs
    <2> QED BY <1>6, <2>2, <2>3 DEF MadeOf
  <1> QED BY <1>5, <1>6 DEF Side

(* The top of a branch is one of its nodes. *)
LEMMA SubTop ==
    ASSUME NEW t, NEW x, NEW S, NEW h, Sub(t, x, S, h)
    PROVE  /\ x = Nil => S = {} /\ h = 0
           /\ x # Nil => x \in S /\ x \in Key /\ h > 0
  <1>1. x \in Pointer
    BY SubKinds
  <1>2. ASSUME x = Nil PROVE S = {} /\ h = 0
    <2> DEFINE T == {w \in Branch : w[1] = Nil => w[2] = {} /\ w[3] = 0}
    <2>1. <<Nil, {}, 0>> \in T
      BY NilTriple
    <2>2. ASSUME NEW y \in Key, NEW A, NEW m, NEW B, NEW n, Joins(t, "L", y, A, m, B, n)
          PROVE  <<y, A \cup {y} \cup B, 1 + Higher(m, n)>> \in T
      <3> DEFINE w == <<y, A \cup {y} \cup B, 1 + Higher(m, n)>>
      <3>1. w \in Branch /\ w[1] = y
        BY <2>2, JoinsLR, Triple
      <3> QED BY <3>1, TreeAssumption
    <2> HIDE DEF T
    <2>3. <<x, S, h>> \in T
      BY <2>1, <2>2, SubInduct
    <2> QED BY <1>2, <2>3 DEF T
  <1>3. ASSUME x # Nil PROVE x \in S /\ x \in Key /\ h > 0
    <2>1. x \in Key
      BY <1>1, <1>3 DEF Pointer
    <2>2. MadeOf(t, "L", x, S, h)
      BY <2>1, LeftRight, Split
    <2>3. PICK A, B \in SUBSET Key, m, n \in Nat : S = A \cup {x} \cup B /\ h = 1 + Higher(m, n)
      BY <2>2 DEF MadeOf
    <2>4. Higher(m, n) \in Nat
      BY HigherIs
    <2> QED BY <2>1, <2>3, <2>4
  <1> QED BY <1>2, <1>3

(* A node lies between what hangs below it. *)
Apart(t, s, x, A, m, B, n) ==
    /\ A \in SUBSET Key /\ B \in SUBSET Key /\ m \in Nat /\ n \in Nat
    /\ t.kid[s][x] \in Pointer /\ t.kid[Other(s)][x] \in Pointer
    /\ x \notin A /\ x \notin B /\ A \cap B = {}
    /\ t.kid[s][x] \in A \cup {Nil} /\ t.kid[Other(s)][x] \in B \cup {Nil}
    /\ t.kid[s][x] # Nil => t.parent[t.kid[s][x]] = x
    /\ t.kid[Other(s)][x] # Nil => t.parent[t.kid[Other(s)][x]] = x
    /\ Higher(m, n) \in Nat /\ Higher(m, n) >= m /\ Higher(m, n) >= n
    /\ (Higher(m, n) = m \/ Higher(m, n) = n)

(* The order keeps the branches of a node apart, and its parents lead back to it. *)
LEMMA JoinsApart ==
    ASSUME NEW t, NEW s \in Side, NEW x \in Key, NEW A, NEW m, NEW B, NEW n, Joins(t, s, x, A, m, B, n)
    PROVE  Apart(t, s, x, A, m, B, n)
  <1>1. /\ A \in SUBSET Key /\ B \in SUBSET Key /\ m \in Nat /\ n \in Nat
        /\ t.kid[s][x] \in Pointer /\ t.kid[Other(s)][x] \in Pointer
    BY JoinsTriple
  <1>2. (\A y \in A : OnSide(s, y, x)) /\ (\A y \in B : OnSide(Other(s), y, x))
    BY DEF Joins, Hangs, Fits
  <1>3. x \notin A /\ x \notin B /\ A \cap B = {}
    BY <1>1, <1>2, Order, Sides
  <1>4. t.kid[s][x] \in A \cup {Nil} /\ t.kid[Other(s)][x] \in B \cup {Nil}
    BY SubTop DEF Joins, Hangs
  <1>5. /\ t.kid[s][x] # Nil => t.parent[t.kid[s][x]] = x
        /\ t.kid[Other(s)][x] # Nil => t.parent[t.kid[Other(s)][x]] = x
    BY DEF Joins, Hangs, Fits
  <1> QED BY <1>1, <1>3, <1>4, <1>5, HigherIs DEF Apart

(* The branch w of x, made of the branches a and b. *)
Made(t, x, A, m, B, n, a, b, w) ==
    /\ x \in Key /\ A \in SUBSET Key /\ m \in Nat /\ B \in SUBSET Key /\ n \in Nat
    /\ Joins(t, "L", x, A, m, B, n) /\ x \notin A /\ x \notin B /\ A \cap B = {}
    /\ t.kid["L"][x] \in Pointer /\ t.kid["R"][x] \in Pointer
    /\ t.kid["L"][x] \in A \cup {Nil} /\ t.kid["R"][x] \in B \cup {Nil}
    /\ a \in Branch /\ a[1] = t.kid["L"][x] /\ a[2] = A /\ a[3] = m
    /\ b \in Branch /\ b[1] = t.kid["R"][x] /\ b[2] = B /\ b[3] = n
    /\ w \in Branch /\ w[1] = x /\ w[2] = A \cup {x} \cup B /\ w[3] = 1 + Higher(m, n)

(* The induction again, with what is known of two branches. *)
LEMMA BranchInduct ==
    ASSUME NEW t, NEW T, <<Nil, {}, 0>> \in T,
           ASSUME NEW x, NEW A, NEW m, NEW B, NEW n, NEW a \in T, NEW b \in T, NEW w,
                  Made(t, x, A, m, B, n, a, b, w)
           PROVE  w \in T,
           NEW x, NEW S, NEW h, Sub(t, x, S, h)
    PROVE  <<x, S, h>> \in T
  <1>1. ASSUME NEW y \in Key, NEW A, NEW m, NEW B, NEW n, Joins(t, "L", y, A, m, B, n),
               <<t.kid["L"][y], A, m>> \in T, <<t.kid["R"][y], B, n>> \in T
        PROVE  <<y, A \cup {y} \cup B, 1 + Higher(m, n)>> \in T
    <2> DEFINE a == <<t.kid["L"][y], A, m>>  b == <<t.kid["R"][y], B, n>>
               w == <<y, A \cup {y} \cup B, 1 + Higher(m, n)>>
    <2>0. "L" \in Side /\ Other("L") = "R"
      BY LeftRight
    <2>1. /\ A \in SUBSET Key /\ B \in SUBSET Key /\ m \in Nat /\ n \in Nat
          /\ y \notin A /\ y \notin B /\ A \cap B = {}
          /\ t.kid["L"][y] \in Pointer /\ t.kid[Other("L")][y] \in Pointer
          /\ t.kid["L"][y] \in A \cup {Nil} /\ t.kid[Other("L")][y] \in B \cup {Nil}
          /\ y \in Pointer /\ A \cup {y} \cup B \in SUBSET Key /\ 1 + Higher(m, n) \in Nat
      <3>1. Apart(t, "L", y, A, m, B, n)
        BY <1>1, <2>0, JoinsApart
      <3>2. y \in Pointer /\ A \cup {y} \cup B \in SUBSET Key /\ 1 + Higher(m, n) \in Nat
        BY <1>1, JoinsLR
      <3> QED BY <3>1, <3>2 DEF Apart
    <2>2. /\ w \in Branch /\ w[1] = y /\ w[2] = A \cup {y} \cup B /\ w[3] = 1 + Higher(m, n)
          /\ a \in Branch /\ a[1] = t.kid["L"][y] /\ a[2] = A /\ a[3] = m
          /\ b \in Branch /\ b[1] = t.kid["R"][y] /\ b[2] = B /\ b[3] = n
      BY <2>0, <2>1, Triple
    <2>3. a \in T /\ b \in T
      BY <1>1
    <2> HIDE DEF w, a, b
    <2>4. Made(t, y, A, m, B, n, a, b, w)
      BY <1>1, <2>0, <2>1, <2>2 DEF Made
    <2>5. w \in T
      BY <1>1, <2>3, <2>4
    <2> QED BY <2>5 DEF w
  <1> QED BY <1>1, SubInduct

(* A node is the top of one branch. *)
LEMMA SubOne ==
    ASSUME NEW t, NEW x, NEW S, NEW h, NEW R, NEW k, Sub(t, x, S, h), Sub(t, x, R, k)
    PROVE  R = S /\ k = h
  <1> DEFINE T == {w \in Branch : \A Q, j : Sub(t, w[1], Q, j) => Q = w[2] /\ j = w[3]}
  <1>1. <<Nil, {}, 0>> \in T
    BY NilTriple, SubTop
  <1>2. ASSUME NEW y, NEW A, NEW m, NEW B, NEW n, NEW a \in T, NEW b \in T, NEW w,
               Made(t, y, A, m, B, n, a, b, w)
        PROVE  w \in T
    <2> USE DEF Made
    <2>1. ASSUME NEW Q, NEW j, Sub(t, y, Q, j) PROVE Q = A \cup {y} \cup B /\ j = 1 + Higher(m, n)
      <3>1. MadeOf(t, "L", y, Q, j)
        BY <1>2, <2>1, LeftRight, Split
      <3>2. PICK A2, B2 \in SUBSET Key, m2, n2 \in Nat :
                Joins(t, "L", y, A2, m2, B2, n2) /\ Q = A2 \cup {y} \cup B2 /\ j = 1 + Higher(m2, n2)
        BY <3>1 DEF MadeOf
      <3>3. Sub(t, t.kid["L"][y], A2, m2) /\ Sub(t, t.kid["R"][y], B2, n2)
        BY <3>2, LeftRight DEF Joins, Hangs
      <3>4. A2 = A /\ m2 = m
        BY <1>2, <3>3
      <3>5. B2 = B /\ n2 = n
        BY <1>2, <3>3
      <3> QED BY <3>2, <3>4, <3>5
    <2> QED BY <1>2, <2>1
  <1> HIDE DEF T
  <1>3. <<x, S, h>> \in T
    BY <1>1, <1>2, BranchInduct
  <1> QED BY <1>3, SubKinds, Triple DEF T

(* A branch is no higher than it has nodes. *)
LEMMA SubBound ==
    ASSUME NEW t, NEW x, NEW S, NEW h, Sub(t, x, S, h)
    PROVE  IsFiniteSet(S) /\ Cardinality(S) \in Nat /\ h <= Cardinality(S)
  <1> DEFINE T == {w \in Branch : w[3] <= Cardinality(w[2])}
  <1>0. \A R \in SUBSET Key : IsFiniteSet(R) /\ Cardinality(R) \in Nat
    BY TreeAssumption, FS_Subset, FS_CardinalityType
  <1>1. <<Nil, {}, 0>> \in T
    BY NilTriple, FS_EmptySet
  <1>2. ASSUME NEW y, NEW A, NEW m, NEW B, NEW n, NEW a \in T, NEW b \in T, NEW w,
               Made(t, y, A, m, B, n, a, b, w)
        PROVE  w \in T
    <2> USE DEF Made
    <2>1. m <= Cardinality(A) /\ n <= Cardinality(B)
      BY <1>2
    <2>2. Cardinality(A \cup {y}) = Cardinality(A) + 1 /\ Cardinality(B \cup {y}) = Cardinality(B) + 1
      BY <1>0, <1>2, FS_AddElement
    <2>3. /\ Cardinality(A \cup {y}) <= Cardinality(A \cup {y} \cup B)
          /\ Cardinality(B \cup {y}) <= Cardinality(A \cup {y} \cup B)
      BY <1>0, <1>2, FS_Subset
    <2>4. Cardinality(A) \in Nat /\ Cardinality(B) \in Nat /\ Cardinality(A \cup {y} \cup B) \in Nat
      BY <1>0, <1>2
    <2>5. 1 + m <= Cardinality(A \cup {y} \cup B) /\ 1 + n <= Cardinality(A \cup {y} \cup B)
      BY <1>2, <2>1, <2>2, <2>3, <2>4
    <2>6. 1 + Higher(m, n) <= Cardinality(A \cup {y} \cup B)
      BY <1>2, <2>5, HigherIs
    <2> QED BY <1>2, <2>6
  <1> HIDE DEF T
  <1>3. <<x, S, h>> \in T
    BY <1>1, <1>2, BranchInduct
  <1> QED BY <1>0, <1>3, SubKinds, Triple DEF T

(* u has the links and balances of t in the nodes S, but for the parent of x. *)
Keeps(t, u, x, S) ==
    /\ \A y \in S : u.high[y] = t.high[y] /\ \A s \in Side : u.kid[s][y] = t.kid[s][y]
    /\ \A y \in S \ {x} : u.parent[y] = t.parent[y]

(* So a branch of t is one of u. *)
LEMMA SubFrame ==
    ASSUME NEW t, NEW u, NEW x, NEW S, NEW h, Sub(t, x, S, h), Keeps(t, u, x, S)
    PROVE  Sub(u, x, S, h)
  <1> DEFINE T == {w \in Branch : Keeps(t, u, w[1], w[2]) => Sub(u, w[1], w[2], w[3])}
  <1>1. <<Nil, {}, 0>> \in T
    BY NilTriple, SubNil
  <1>2. ASSUME NEW y, NEW A, NEW m, NEW B, NEW n, NEW a \in T, NEW b \in T, NEW w,
               Made(t, y, A, m, B, n, a, b, w)
        PROVE  w \in T
    <2> USE DEF Made
    <2>1. ASSUME Keeps(t, u, y, A \cup {y} \cup B) PROVE Sub(u, y, A \cup {y} \cup B, 1 + Higher(m, n))
      <3>1. Keeps(t, u, t.kid["L"][y], A) /\ Keeps(t, u, t.kid["R"][y], B)
        BY <1>2, <2>1 DEF Keeps
      <3>2. Sub(u, t.kid["L"][y], A, m) /\ Sub(u, t.kid["R"][y], B, n)
        BY <1>2, <3>1
      <3>3. u.kid["L"][y] = t.kid["L"][y] /\ u.kid["R"][y] = t.kid["R"][y] /\ u.high[y] = t.high[y]
        BY <2>1, LeftRight DEF Keeps
      <3>4. /\ Fits(t, "L", y, t.kid["L"][y], A) /\ Fits(t, "R", y, t.kid["R"][y], B)
            /\ Leans(t.high[y], "L", m, n)
        BY <1>2, LeftRight DEF Joins, Hangs
      <3>5. Fits(u, "L", y, t.kid["L"][y], A) /\ Fits(u, "R", y, t.kid["R"][y], B)
        BY <1>2, <2>1, <3>3, <3>4 DEF Fits, Keeps
      <3>6. Joins(u, "L", y, A, m, B, n)
        BY <3>2, <3>3, <3>4, <3>5, LeftRight DEF Joins, Hangs
      <3> QED BY <1>2, <3>6, JoinLR
    <2> QED BY <1>2, <2>1
  <1> HIDE DEF T
  <1>3. <<x, S, h>> \in T
    BY <1>1, <1>2, BranchInduct
  <1> QED BY <1>3, SubKinds, Triple DEF T

(* y is a child inside a branch with the nodes S and the height h. *)
Inside(t, S, h, y) == \E p \in S, s \in Side, A, B \in SUBSET Key, m, n \in Nat :
    /\ t.parent[y] = p /\ t.kid[s][p] = y
    /\ Joins(t, s, p, A, m, B, n) /\ A \cup {p} \cup B \subseteq S /\ 1 + Higher(m, n) <= h

(* Every node of a branch but its top is. *)
LEMMA SubInside ==
    ASSUME NEW t, NEW x, NEW S, NEW h, Sub(t, x, S, h), NEW y \in S, y # x
    PROVE  Inside(t, S, h, y)
  <1> DEFINE T == {w \in Branch : \A z \in w[2] : z = w[1] \/ Inside(t, w[2], w[3], z)}
  <1>1. <<Nil, {}, 0>> \in T
    BY NilTriple
  <1>2. ASSUME NEW p, NEW A, NEW m, NEW B, NEW n, NEW a \in T, NEW b \in T, NEW w,
               Made(t, p, A, m, B, n, a, b, w)
        PROVE  w \in T
    <2>1. ASSUME NEW z \in w[2], z # p PROVE Inside(t, w[2], w[3], z)
      <3> USE DEF Made
      <3>1. "L" \in Side /\ "R" \in Side /\ Other("L") = "R"
        BY LeftRight
      <3>2. p \in w[2] /\ A \cup {p} \cup B \subseteq w[2] /\ 1 + Higher(m, n) <= w[3]
            /\ A \subseteq w[2] /\ B \subseteq w[2] /\ m <= w[3] /\ n <= w[3] /\ w[3] \in Nat
        <4>1. Higher(m, n) \in Nat /\ Higher(m, n) >= m /\ Higher(m, n) >= n
          BY <1>2, HigherIs
        <4>2. w[3] = 1 + Higher(m, n) /\ m \in Nat /\ n \in Nat
          BY <1>2
        <4>3. 1 + Higher(m, n) <= w[3] /\ m <= w[3] /\ n <= w[3] /\ w[3] \in Nat
          <5> HIDE DEF Made
          <5> QED BY <4>1, <4>2
        <4>4. w[2] = A \cup {p} \cup B
          BY <1>2
        <4> HIDE DEF Made
        <4> QED BY <4>3, <4>4
      <3>3. Joins(t, "R", p, B, n, A, m) /\ B \cup {p} \cup A \subseteq w[2] /\ 1 + Higher(n, m) <= w[3]
        BY <1>2, <3>1, <3>2, JoinsFlip, HigherIs
      <3>4. ASSUME z = a[1] PROVE Inside(t, w[2], w[3], z)
        <4>1. t.kid["L"][p] = z /\ t.parent[z] = p
          BY <1>2, <3>4, <3>1, TreeAssumption DEF Joins, Hangs, Fits
        <4> HIDE DEF Made
        <4>2. A \in SUBSET Key /\ B \in SUBSET Key /\ m \in Nat /\ n \in Nat /\ Joins(t, "L", p, A, m, B, n)
          BY <1>2 DEF Made
        <4> QED BY <3>1, <3>2, <4>1, <4>2 DEF Inside
      <3>5. ASSUME z = b[1] PROVE Inside(t, w[2], w[3], z)
        <4>1. t.kid["R"][p] = z /\ t.parent[z] = p
          BY <1>2, <3>5, <3>1, TreeAssumption DEF Joins, Hangs, Fits
        <4> HIDE DEF Made
        <4>2. A \in SUBSET Key /\ B \in SUBSET Key /\ m \in Nat /\ n \in Nat
          BY <1>2 DEF Made
        <4> QED BY <3>1, <3>2, <3>3, <4>1, <4>2 DEF Inside
      <3>6. \/ z = a[1] \/ z = b[1]
            \/ \E c \in {a, b} : Inside(t, c[2], c[3], z) /\ c[2] \subseteq w[2] /\ c[3] <= w[3] /\ c[3] \in Nat
        BY <1>2, <2>1, <3>2
      <3>7. ASSUME NEW R, NEW k \in Nat, Inside(t, R, k, z), R \subseteq w[2], k <= w[3]
            PROVE  Inside(t, w[2], w[3], z)
        <4> HIDE DEF Made
        <4>1. PICK q \in R, s \in Side, C, D \in SUBSET Key, i, j \in Nat :
                /\ t.parent[z] = q /\ t.kid[s][q] = z
                /\ Joins(t, s, q, C, i, D, j) /\ C \cup {q} \cup D \subseteq R /\ 1 + Higher(i, j) <= k
          BY <3>7 DEF Inside
        <4>2. q \in w[2] /\ C \cup {q} \cup D \subseteq w[2] /\ 1 + Higher(i, j) <= w[3]
          <5>1. Higher(i, j) \in Nat
            BY <4>1, HigherIs
          <5>2. 1 + Higher(i, j) <= w[3]
            BY <3>2, <3>7, <4>1, <5>1
          <5> QED BY <3>7, <4>1, <5>2
        <4> QED BY <4>1, <4>2 DEF Inside
      <3> HIDE DEF Made
      <3> QED BY <3>4, <3>5, <3>6, <3>7
    <2> QED BY <1>2, <2>1 DEF Made
  <1> HIDE DEF T
  <1>3. <<x, S, h>> \in T
    BY <1>1, <1>2, BranchInduct
  <1> QED BY <1>3, SubKinds, Triple DEF T

(* Its children are in it too. *)
LEMMA SubAll ==
    ASSUME NEW t, NEW x, NEW S, NEW h, Sub(t, x, S, h), NEW y \in S
    PROVE  \E Y \in SUBSET S, k \in Nat : Sub(t, y, Y, k) /\ k <= h /\ MadeOf(t, "L", y, Y, k)
  <1>0. S \in SUBSET Key /\ y \in Key /\ h \in Nat
    BY SubKinds
  <1>1. CASE y = x
    <2>1. MadeOf(t, "L", y, S, h)
      BY <1>0, <1>1, LeftRight, Split
    <2> QED BY <1>0, <1>1, <2>1
  <1>2. CASE y # x
    <2>1. PICK p \in S, s \in Side, A, B \in SUBSET Key, m, n \in Nat :
            /\ t.kid[s][p] = y /\ Joins(t, s, p, A, m, B, n)
            /\ A \cup {p} \cup B \subseteq S /\ 1 + Higher(m, n) <= h
      BY <1>2, SubInside DEF Inside
    <2>2. Sub(t, y, A, m)
      BY <2>1 DEF Joins, Hangs
    <2>3. MadeOf(t, "L", y, A, m)
      BY <1>0, <2>2, LeftRight, Split
    <2>4. m <= h /\ A \in SUBSET S
      <3>1. Higher(m, n) \in Nat /\ Higher(m, n) >= m
        BY <2>1, HigherIs
      <3>2. m <= h
        BY <1>0, <2>1, <3>1
      <3> QED BY <2>1, <3>2
    <2> QED BY <2>2, <2>3, <2>4
  <1> QED BY <1>1, <1>2

(* The children of a node are in the branch, and know their parent. *)
LEMMA SubKids ==
    ASSUME NEW t, NEW x, NEW S, NEW h, Sub(t, x, S, h), NEW y \in S, NEW s \in Side
    PROVE  t.kid[s][y] \in S \cup {Nil} /\ (t.kid[s][y] # Nil => t.parent[t.kid[s][y]] = y)
  <1>1. PICK Y \in SUBSET S, k \in Nat : MadeOf(t, "L", y, Y, k)
    BY SubAll
  <1>2. PICK A, B \in SUBSET Key, m, n \in Nat : Joins(t, "L", y, A, m, B, n) /\ Y = A \cup {y} \cup B
    BY <1>1 DEF MadeOf
  <1>3. y \in Key
    BY SubKinds
  <1>4. Apart(t, "L", y, A, m, B, n)
    BY <1>2, <1>3, LeftRight, JoinsApart
  <1>5. /\ t.kid["L"][y] \in A \cup {Nil} /\ t.kid["R"][y] \in B \cup {Nil}
        /\ t.kid["L"][y] # Nil => t.parent[t.kid["L"][y]] = y
        /\ t.kid["R"][y] # Nil => t.parent[t.kid["R"][y]] = y
    BY <1>4, LeftRight DEF Apart
  <1> QED BY <1>2, <1>5 DEF Side

(* u is t in the nodes S, but z is where p was. *)
Swaps(t, u, S, p, z) == \A y \in S :
    /\ u.high[y] = t.high[y] /\ u.parent[y] = t.parent[y]
    /\ \A s \in Side : u.kid[s][y] = IF t.kid[s][y] = p THEN z ELSE t.kid[s][y]

(* So p is the top of the nodes P, and z of the nodes Q among them. *)
Replaces(t, u, P, p, Q, z) ==
    /\ P \in SUBSET Key /\ Q \subseteq P /\ p \in P /\ z \in Key
    /\ \A v \in P \ {p} : t.parent[v] \in P
    /\ u.parent[z] = t.parent[p]

(* The branch of z has taken the place of that of p, on the side s of y. *)
Under(t, u, s, y, A, m, B, n, P, p, Q, z) ==
    /\ Joins(t, s, y, A, m, B, n) /\ Replaces(t, u, P, p, Q, z) /\ P \subseteq A
    /\ Swaps(t, u, (A \cup {y} \cup B) \ P, p, z)
    /\ Sub(u, IF t.kid[s][y] = p THEN z ELSE t.kid[s][y], (A \ P) \cup Q, m)

(* A branch that takes the place of one of its height, with some of its nodes, leaves the
   node above it a branch, *)
LEMMA SwapUnder ==
    ASSUME NEW t, NEW u, NEW s \in Side, NEW y \in Key, NEW A, NEW m, NEW B, NEW n,
           NEW P, NEW p, NEW Q, NEW z, Under(t, u, s, y, A, m, B, n, P, p, Q, z)
    PROVE  Sub(u, y, ((A \cup {y} \cup B) \ P) \cup Q, 1 + Higher(m, n))
  <1>1. /\ A \in SUBSET Key /\ B \in SUBSET Key /\ m \in Nat /\ n \in Nat
        /\ y \notin A /\ y \notin B /\ A \cap B = {}
        /\ t.kid[s][y] \in A \cup {Nil} /\ t.kid[Other(s)][y] \in B \cup {Nil}
        /\ t.kid[s][y] # Nil => t.parent[t.kid[s][y]] = y
        /\ t.kid[Other(s)][y] # Nil => t.parent[t.kid[Other(s)][y]] = y
        /\ P \subseteq A /\ Q \subseteq P /\ p \in P /\ z \in Key /\ p \in Key
        /\ \A v \in P \ {p} : t.parent[v] \in P
        /\ u.parent[z] = t.parent[p]
    <2>1. Apart(t, s, y, A, m, B, n)
      BY JoinsApart DEF Under
    <2> QED BY <2>1 DEF Apart, Replaces, Under
  <1>2. Other(s) \in Side /\ Nil \notin Key
    BY Sides, TreeAssumption
  <1>3. /\ \A v \in A : OnSide(s, v, y)
        /\ \A v \in B : OnSide(Other(s), v, y)
        /\ Sub(t, t.kid[Other(s)][y], B, n) /\ Leans(t.high[y], s, m, n)
    BY DEF Joins, Hangs, Fits, Under
  <1>4. u.high[y] = t.high[y] /\ \A r \in Side : u.kid[r][y] = IF t.kid[r][y] = p THEN z ELSE t.kid[r][y]
    BY <1>1 DEF Swaps, Under
  <1>5. Hangs(u, s, y, (A \ P) \cup Q, m)
    <2>1. ASSUME t.kid[s][y] # p, t.kid[s][y] # Nil PROVE u.parent[t.kid[s][y]] = y
      <3>1. t.kid[s][y] \in A \ P
        BY <1>1, <2>1
      <3> QED BY <1>1, <2>1, <3>1 DEF Swaps, Under
    <2>2. t.kid[s][y] = p => u.parent[z] = y
      BY <1>1, <1>2
    <2>3. \A v \in (A \ P) \cup Q : OnSide(s, v, y)
      BY <1>1, <1>3
    <2> QED BY <1>4, <2>1, <2>2, <2>3 DEF Hangs, Fits, Under
  <1>6. Hangs(u, Other(s), y, B, n)
    <2>1. t.kid[Other(s)][y] # p
      BY <1>1, <1>2
    <2>2. u.kid[Other(s)][y] = t.kid[Other(s)][y]
      BY <1>2, <1>4, <2>1
    <2>3. \A v \in B, r \in Side : t.kid[r][v] \in B \cup {Nil}
      BY <1>3, SubKids
    <2>4. B \subseteq (A \cup {y} \cup B) \ P /\ p \notin B
      BY <1>1
    <2>5. \A v \in B, r \in Side : u.kid[r][v] = t.kid[r][v]
      BY <1>1, <1>2, <2>3, <2>4 DEF Swaps, Under
    <2>6. \A v \in B : u.high[v] = t.high[v] /\ u.parent[v] = t.parent[v]
      BY <2>4 DEF Swaps, Under
    <2>7. Sub(u, t.kid[Other(s)][y], B, n)
      <3>1. Keeps(t, u, t.kid[Other(s)][y], B)
        BY <2>5, <2>6 DEF Keeps
      <3> QED BY <1>3, <3>1, SubFrame
    <2>8. t.kid[Other(s)][y] # Nil => u.parent[t.kid[Other(s)][y]] = y
      BY <1>1, <2>6
    <2> QED BY <1>3, <2>2, <2>7, <2>8 DEF Hangs, Fits
  <1>7. Joins(u, s, y, (A \ P) \cup Q, m, B, n)
    BY <1>3, <1>4, <1>5, <1>6 DEF Joins
  <1>8. Sub(u, y, ((A \ P) \cup Q) \cup {y} \cup B, 1 + Higher(m, n))
    BY <1>7, Join
  <1>9. ((A \ P) \cup Q) \cup {y} \cup B = ((A \cup {y} \cup B) \ P) \cup Q
    BY <1>1
  <1> QED BY <1>8, <1>9

(* and so the whole. *)
LEMMA SubSwap ==
    ASSUME NEW t, NEW u, NEW x, NEW S, NEW h, Sub(t, x, S, h), NEW p \in S, NEW P, NEW k, Sub(t, p, P, k),
           NEW z \in Key, NEW Q \in SUBSET P, Sub(u, z, Q, k),
           Swaps(t, u, S \ P, p, z), u.parent[z] = t.parent[p]
    PROVE  Sub(u, IF x = p THEN z ELSE x, (S \ P) \cup Q, h)
  <1> DEFINE T == {w \in Branch : w[2] \subseteq S /\ p \in w[2] =>
                     P \subseteq w[2] /\ Sub(u, IF w[1] = p THEN z ELSE w[1], (w[2] \ P) \cup Q, w[3])}
  <1>0. /\ p \in Key /\ p \in P /\ P \in SUBSET Key /\ k \in Nat /\ p # Nil
        /\ Replaces(t, u, P, p, Q, z)
    <2>1. p \in Key /\ p # Nil /\ P \in SUBSET Key /\ k \in Nat
      BY SubKinds, TreeAssumption
    <2>2. p \in P
      BY <2>1, SubTop
    <2>3. ASSUME NEW v \in P, v # p PROVE t.parent[v] \in P
      BY <2>3, SubInside DEF Inside
    <2> QED BY <2>1, <2>2, <2>3 DEF Replaces
  <1>1. <<Nil, {}, 0>> \in T
    BY NilTriple
  <1>2. ASSUME NEW y, NEW A, NEW m, NEW B, NEW n, NEW a \in T, NEW b \in T, NEW w,
               Made(t, y, A, m, B, n, a, b, w), w[2] \subseteq S, p \in w[2]
        PROVE  P \subseteq w[2] /\ Sub(u, IF y = p THEN z ELSE y, (w[2] \ P) \cup Q, w[3])
    <2>0. /\ y \in Key /\ A \in SUBSET Key /\ m \in Nat /\ B \in SUBSET Key /\ n \in Nat
          /\ Joins(t, "L", y, A, m, B, n) /\ y \notin A /\ y \notin B /\ A \cap B = {}
          /\ a \in Branch /\ a[1] = t.kid["L"][y] /\ a[2] = A /\ a[3] = m
          /\ b \in Branch /\ b[1] = t.kid["R"][y] /\ b[2] = B /\ b[3] = n
          /\ w \in Branch /\ w[1] = y /\ w[2] = A \cup {y} \cup B /\ w[3] = 1 + Higher(m, n)
      BY <1>2 DEF Made
    <2>1. CASE y = p
      <3>1. Sub(t, p, w[2], w[3])
        BY <2>0, <2>1, JoinLR
      <3>2. w[2] = P /\ w[3] = k
        BY <3>1, SubOne
      <3>3. (w[2] \ P) \cup Q = Q
        BY <3>2
      <3> QED BY <2>1, <3>2, <3>3
    <2>2. Swaps(t, u, w[2] \ P, p, z)
      BY <1>2 DEF Swaps
    <2>3. CASE p \in A
      <3>1. P \subseteq A /\ Sub(u, IF t.kid["L"][y] = p THEN z ELSE t.kid["L"][y], (A \ P) \cup Q, m)
        BY <1>2, <2>0, <2>3
      <3>2. Sub(u, y, ((A \cup {y} \cup B) \ P) \cup Q, 1 + Higher(m, n))
        <4>1. PICK l \in Side : l = "L"
          BY LeftRight
        <4>2. Joins(t, l, y, A, m, B, n) /\ Swaps(t, u, (A \cup {y} \cup B) \ P, p, z)
          BY <2>0, <2>2, <4>1
        <4>3. Under(t, u, l, y, A, m, B, n, P, p, Q, z)
          BY <1>0, <3>1, <4>1, <4>2 DEF Under
        <4> QED BY <2>0, <4>3, SwapUnder
      <3> QED BY <2>0, <2>3, <3>1, <3>2
    <2>4. CASE p \in B
      <3>1. P \subseteq B /\ Sub(u, IF t.kid["R"][y] = p THEN z ELSE t.kid["R"][y], (B \ P) \cup Q, n)
        BY <1>2, <2>0, <2>4
      <3>2. Sub(u, y, ((B \cup {y} \cup A) \ P) \cup Q, 1 + Higher(n, m))
        <4>1. PICK l \in Side : l = "R"
          BY LeftRight
        <4>2. Joins(t, l, y, B, n, A, m)
          BY <2>0, <4>1, LeftRight, JoinsFlip
        <4>3. Swaps(t, u, (B \cup {y} \cup A) \ P, p, z)
          <5>1. B \cup {y} \cup A = w[2]
            BY <2>0
          <5> QED BY <2>2, <5>1
        <4>4. Under(t, u, l, y, B, n, A, m, P, p, Q, z)
          BY <1>0, <3>1, <4>1, <4>2, <4>3 DEF Under
        <4> QED BY <2>0, <4>4, SwapUnder
      <3>3. B \cup {y} \cup A = w[2] /\ 1 + Higher(n, m) = w[3]
        BY <2>0, HigherIs
      <3> QED BY <2>0, <2>4, <3>1, <3>2, <3>3
    <2> QED BY <1>2, <2>0, <2>1, <2>3, <2>4
  <1>3. ASSUME NEW y, NEW A, NEW m, NEW B, NEW n, NEW a \in T, NEW b \in T, NEW w,
               Made(t, y, A, m, B, n, a, b, w)
        PROVE  w \in T
    <2>1. w \in Branch /\ w[1] = y
      BY <1>3 DEF Made
    <2>2. ASSUME w[2] \subseteq S, p \in w[2]
          PROVE  P \subseteq w[2] /\ Sub(u, IF w[1] = p THEN z ELSE w[1], (w[2] \ P) \cup Q, w[3])
      BY <1>2, <1>3, <2>1, <2>2
    <2> QED BY <2>1, <2>2
  <1> HIDE DEF T
  <1>4. <<x, S, h>> \in T
    BY <1>1, <1>3, BranchInduct
  <1> QED BY <1>4, SubKinds, Triple DEF T

(***************************************************************************)
(* Rotations                                                               *)
(***************************************************************************)

(* A branch that kept its links hangs where it is linked. *)
LEMMA Rehang ==
    ASSUME NEW t, NEW u, NEW s \in Side, NEW x, NEW v, NEW A, NEW m, Sub(t, v, A, m), Keeps(t, u, v, A),
           u.kid[s][x] = v, v # Nil => u.parent[v] = x, \A y \in A : OnSide(s, y, x)
    PROVE  Hangs(u, s, x, A, m)
  <1>1. Sub(u, v, A, m)
    BY SubFrame
  <1> QED BY <1>1 DEF Hangs, Fits

(* Nothing changed at the nodes A. *)
Stays(t, u, A) == \A y \in A :
    u.high[y] = t.high[y] /\ u.parent[y] = t.parent[y] /\ \A r \in Side : u.kid[r][y] = t.kid[r][y]

(* What hangs below x stays there when nothing changed in it. *)
LEMMA HangsStay ==
    ASSUME NEW t, NEW u, NEW s \in Side, NEW x, NEW A, NEW m, Hangs(t, s, x, A, m), Stays(t, u, A),
           u.kid[s][x] = t.kid[s][x]
    PROVE  Hangs(u, s, x, A, m)
  <1> DEFINE v == t.kid[s][x]
  <1>1. Sub(t, v, A, m) /\ (v # Nil => t.parent[v] = x) /\ \A y \in A : OnSide(s, y, x)
    BY DEF Hangs, Fits
  <1> HIDE DEF v
  <1>2. v # Nil => v \in A
    BY <1>1, SubTop
  <1>3. v # Nil => u.parent[v] = x
    BY <1>1, <1>2 DEF Stays
  <1>4. Keeps(t, u, v, A)
    BY DEF Stays, Keeps
  <1>5. u.kid[s][x] = v
    BY DEF v
  <1> QED BY <1>1, <1>3, <1>4, <1>5, Rehang

(* x with its child c on side s, what hangs below c, and below x on the other side. *)
Bent(t, s, x, c, A, m, B, n, C, j) ==
    /\ t \in Tree /\ s \in Side /\ x \in Key /\ c \in Key /\ t.kid[s][x] = c
    /\ Hangs(t, s, c, A, m) /\ Hangs(t, Other(s), c, B, n) /\ Hangs(t, Other(s), x, C, j)
    /\ \A y \in A \cup {c} \cup B : OnSide(s, y, x)

(* No two of these have a node in common. *)
Disjoint(x, c, A, B, C) ==
    /\ x \in Key /\ c \in Key /\ A \in SUBSET Key /\ B \in SUBSET Key /\ C \in SUBSET Key
    /\ x # c /\ x \notin A /\ x \notin B /\ x \notin C /\ c \notin A /\ c \notin B /\ c \notin C
    /\ A \cap B = {} /\ A \cap C = {} /\ B \cap C = {}

(* The order keeps the three branches of a bent node apart. *)
LEMMA BentApart ==
    ASSUME NEW t, NEW s, NEW x, NEW c, NEW A, NEW m, NEW B, NEW n, NEW C, NEW j,
           Bent(t, s, x, c, A, m, B, n, C, j)
    PROVE  /\ Disjoint(x, c, A, B, C) /\ m \in Nat /\ n \in Nat /\ j \in Nat
           /\ t.kid[s][c] \in A \cup {Nil} /\ t.kid[Other(s)][c] \in B \cup {Nil}
           /\ t.kid[Other(s)][x] \in C \cup {Nil}
  <1>1. s \in Side /\ Other(s) \in Side /\ x \in Key /\ c \in Key
    BY Sides DEF Bent
  <1>2. /\ Sub(t, t.kid[s][c], A, m) /\ Sub(t, t.kid[Other(s)][c], B, n) /\ Sub(t, t.kid[Other(s)][x], C, j)
        /\ \A y \in A : OnSide(s, y, c)
        /\ \A y \in B : OnSide(Other(s), y, c)
        /\ \A y \in C : OnSide(Other(s), y, x)
        /\ \A y \in A \cup {c} \cup B : OnSide(s, y, x)
    BY DEF Bent, Hangs, Fits
  <1>3. A \in SUBSET Key /\ B \in SUBSET Key /\ C \in SUBSET Key /\ m \in Nat /\ n \in Nat /\ j \in Nat
    BY <1>2, SubKinds
  <1>4. /\ t.kid[s][c] \in A \cup {Nil} /\ t.kid[Other(s)][c] \in B \cup {Nil}
        /\ t.kid[Other(s)][x] \in C \cup {Nil}
    BY <1>2, SubTop
  <1>5. x # c /\ x \notin A /\ x \notin B
    BY <1>1, <1>2, Order
  <1>6. x \notin C /\ c \notin A /\ c \notin B
    BY <1>1, <1>2, Order
  <1>7. c \notin C /\ A \cap C = {} /\ B \cap C = {}
    <2>1. ASSUME NEW y \in Key, OnSide(s, y, x) PROVE ~OnSide(Other(s), y, x)
      BY <1>1, <2>1, Order
    <2> QED BY <1>1, <1>2, <1>3, <2>1
  <1>8. A \cap B = {}
    <2>1. ASSUME NEW y \in Key, OnSide(s, y, c) PROVE ~OnSide(Other(s), y, c)
      BY <1>1, <2>1, Order
    <2> QED BY <1>2, <1>3, <2>1
  <1> QED BY <1>1, <1>3, <1>4, <1>5, <1>6, <1>7, <1>8 DEF Disjoint

(* A bent node, after the balances of x and c were set. *)
LEMMA BentHigh ==
    ASSUME NEW t, NEW u \in Tree, NEW s, NEW x, NEW c, NEW A, NEW m, NEW B, NEW n, NEW C, NEW j,
           Bent(t, s, x, c, A, m, B, n, C, j), u.kid = t.kid, u.parent = t.parent,
           \A y \in A \cup B \cup C : u.high[y] = t.high[y]
    PROVE  Bent(u, s, x, c, A, m, B, n, C, j)
  <1>1. s \in Side /\ Other(s) \in Side
    BY Sides DEF Bent
  <1>2. Stays(t, u, A) /\ Stays(t, u, B) /\ Stays(t, u, C)
    BY DEF Stays
  <1>3. Hangs(t, s, c, A, m) /\ Hangs(t, Other(s), c, B, n) /\ Hangs(t, Other(s), x, C, j)
    BY DEF Bent
  <1>4. Hangs(u, s, c, A, m) /\ Hangs(u, Other(s), c, B, n) /\ Hangs(u, Other(s), x, C, j)
    BY <1>1, <1>2, <1>3, HangsStay
  <1> QED BY <1>4 DEF Bent

(* What a rotation does to it. *)
Unbent(t, u, s, x, c, A, m, B, n, C, j) ==
    /\ Hangs(u, s, c, A, m) /\ Hangs(u, s, x, B, n) /\ Hangs(u, Other(s), x, C, j)
    /\ u.kid[Other(s)][c] = x /\ u.parent[x] = c /\ u.parent[c] = t.parent[x]
    /\ \A y \in B \cup {x} \cup C : OnSide(Other(s), y, c)
    /\ u \in Tree /\ Same(t, u) /\ u.high = t.high
    /\ Stays(t, u, Key \ (A \cup B \cup C \cup {x, c}))

(* A rotation moves the middle one of the three branches from c to x. *)
LEMMA TurnedUnbends ==
    ASSUME NEW t, NEW u, NEW s, NEW x, NEW c, NEW A, NEW m, NEW B, NEW n, NEW C, NEW j,
           Bent(t, s, x, c, A, m, B, n, C, j), Turned(t, u, x, s, c)
    PROVE  Unbent(t, u, s, x, c, A, m, B, n, C, j)
  <1> DEFINE o == Other(s)
             i == t.kid[o][c]
  <1>0. s \in Side /\ o \in Side /\ o # s /\ Nil \notin Key /\ t.kid[s][x] = c /\ t \in Tree
    BY Sides, TreeAssumption DEF Bent
  <1>1. /\ Disjoint(x, c, A, B, C) /\ m \in Nat /\ n \in Nat /\ j \in Nat
        /\ t.kid[s][c] \in A \cup {Nil} /\ i \in B \cup {Nil} /\ t.kid[o][x] \in C \cup {Nil}
    BY BentApart
  <1>2. /\ Sub(t, t.kid[s][c], A, m) /\ Sub(t, i, B, n) /\ Sub(t, t.kid[o][x], C, j)
        /\ \A y \in A : OnSide(s, y, c)
        /\ \A y \in B : OnSide(o, y, c)
        /\ \A y \in C : OnSide(o, y, x)
        /\ \A y \in A \cup {c} \cup B : OnSide(s, y, x)
        /\ Hangs(t, s, c, A, m) /\ Hangs(t, o, x, C, j)
    BY DEF Bent, Hangs, Fits
  <1>3. /\ u \in Tree /\ Same(t, u) /\ u.high = t.high
        /\ \A r \in Side, y \in Key :
              u.kid[r][y] = IF y = x /\ r = s THEN i ELSE IF y = c /\ r = o THEN x ELSE t.kid[r][y]
        /\ \A y \in Key : u.parent[y] = IF y = x THEN c ELSE IF y = c THEN t.parent[x]
                                        ELSE IF y = i THEN x ELSE t.parent[y]
    BY DEF Turned
  <1> HIDE DEF i, o
  <1>4. Stays(t, u, A) /\ Stays(t, u, C) /\ Stays(t, u, Key \ (A \cup B \cup C \cup {x, c}))
    BY <1>0, <1>1, <1>3 DEF Stays, Disjoint
  <1>5. Keeps(t, u, i, B)
    BY <1>0, <1>1, <1>3 DEF Keeps, Disjoint
  <1>6. u.kid[s][c] = t.kid[s][c] /\ u.kid[o][x] = t.kid[o][x] /\ u.kid[s][x] = i /\ u.kid[o][c] = x
        /\ u.parent[x] = c /\ u.parent[c] = t.parent[x] /\ (i # Nil => u.parent[i] = x)
    BY <1>0, <1>1, <1>3 DEF Disjoint
  <1>7. Hangs(u, s, c, A, m) /\ Hangs(u, o, x, C, j)
    BY <1>0, <1>2, <1>4, <1>6, HangsStay
  <1>8. Hangs(u, s, x, B, n)
    <2>1. \A y \in B : OnSide(s, y, x)
      BY <1>2
    <2> QED BY <1>0, <1>2, <1>5, <1>6, <2>1, Rehang
  <1>9. \A y \in B \cup {x} \cup C : OnSide(o, y, c)
    <2>1. OnSide(o, x, c)
      BY <1>0, <1>1, <1>2, Order DEF o, Disjoint
    <2>2. \A y \in C : OnSide(o, y, c)
      BY <1>0, <1>1, <1>2, <2>1, Order DEF Disjoint
    <2> QED BY <1>2, <2>1, <2>2
  <1> QED BY <1>3, <1>4, <1>6, <1>7, <1>8, <1>9 DEF Unbent, o

(* z is the top of a branch with the nodes W, where x was the top of one, and nothing
   changed beside it. *)
Topped(t, u, x, z, W, h) ==
    /\ u \in Tree /\ Same(t, u) /\ Sub(u, z, W, h) /\ z \in W
    /\ u.parent[z] = t.parent[x] /\ Stays(t, u, Key \ W)

(* With balances for the new heights, c is the top of one branch. *)
LEMMA UnbentTops ==
    ASSUME NEW t, NEW u, NEW s, NEW x, NEW c, NEW A, NEW m, NEW B, NEW n, NEW C, NEW j,
           Bent(t, s, x, c, A, m, B, n, C, j), Unbent(t, u, s, x, c, A, m, B, n, C, j),
           Leans(u.high[x], s, n, j), Leans(u.high[c], s, m, 1 + Higher(n, j))
    PROVE  Topped(t, u, x, c, A \cup {c} \cup B \cup {x} \cup C, 1 + Higher(m, 1 + Higher(n, j)))
  <1>1. s \in Side /\ x \in Key /\ c \in Key
    BY DEF Bent
  <1>2. Joins(u, s, x, B, n, C, j)
    BY DEF Unbent, Joins
  <1>3. Sub(u, x, B \cup {x} \cup C, 1 + Higher(n, j))
    BY <1>1, <1>2, Join
  <1>4. Hangs(u, Other(s), c, B \cup {x} \cup C, 1 + Higher(n, j))
    BY <1>3 DEF Unbent, Hangs, Fits
  <1>5. Joins(u, s, c, A, m, B \cup {x} \cup C, 1 + Higher(n, j))
    BY <1>4 DEF Unbent, Joins
  <1>6. Sub(u, c, A \cup {c} \cup (B \cup {x} \cup C), 1 + Higher(m, 1 + Higher(n, j)))
    BY <1>1, <1>5, Join
  <1> DEFINE W == A \cup {c} \cup B \cup {x} \cup C
  <1>7. W = A \cup {c} \cup (B \cup {x} \cup C) /\ c \in W /\ Key \ W = Key \ (A \cup B \cup C \cup {x, c})
    OBVIOUS
  <1> HIDE DEF W
  <1>8. Topped(t, u, x, c, W, 1 + Higher(m, 1 + Higher(n, j)))
    BY <1>6, <1>7 DEF Unbent, Topped
  <1> QED BY <1>8 DEF W

(* The same seen from a tree that differs from t inside the branch only. *)
LEMMA ToppedFrom ==
    ASSUME NEW t, NEW v, NEW u, NEW x, NEW z, NEW W, NEW h, Topped(v, u, x, z, W, h),
           Same(t, v), v.parent[x] = t.parent[x], Stays(t, v, Key \ W)
    PROVE  Topped(t, u, x, z, W, h)
  BY DEF Topped, Same, Stays

(* A node with a branch that is not empty on side s. *)
LEMMA Bend ==
    ASSUME NEW t \in Tree, NEW s \in Side, NEW x \in Key, NEW D, NEW k, NEW C, NEW j,
           Hangs(t, s, x, D, k), Hangs(t, Other(s), x, C, j), k # 0, NEW c, c = t.kid[s][x]
    PROVE  /\ c \in Key
           /\ \E A, B \in SUBSET Key, m, n \in Nat :
                 /\ Bent(t, s, x, c, A, m, B, n, C, j) /\ Leans(t.high[c], s, m, n)
                 /\ D = A \cup {c} \cup B /\ k = 1 + Higher(m, n)
  <1>1. Sub(t, c, D, k) /\ \A y \in D : OnSide(s, y, x)
    BY DEF Hangs, Fits
  <1>2. c \in Key
    BY <1>1, SubTop
  <1>3. PICK A, B \in SUBSET Key, m, n \in Nat :
            Joins(t, s, c, A, m, B, n) /\ D = A \cup {c} \cup B /\ k = 1 + Higher(m, n)
    BY <1>1, <1>2, Split DEF MadeOf
  <1>4. Bent(t, s, x, c, A, m, B, n, C, j) /\ Leans(t.high[c], s, m, n)
    BY <1>1, <1>2, <1>3 DEF Bent, Joins
  <1> QED BY <1>2, <1>3, <1>4

(* Heights. *)
LEMMA HeightsOnce ==
    ASSUME NEW s \in Side, NEW m \in Nat, NEW n \in Nat, NEW j \in Nat,
           Leans(HighTo(s), s, m, n), j + 2 = 1 + Higher(m, n)
    PROVE  /\ Leans(EqualHigh, s, n, j) /\ Leans(EqualHigh, s, m, 1 + Higher(n, j))
           /\ 1 + Higher(m, 1 + Higher(n, j)) = j + 2
  <1>1. HighTo(s) # EqualHigh /\ HighTo(s) # HighTo(Other(s))
    BY Sides
  <1>2. m = n + 1
    BY <1>1 DEF Leans
  <1>3. n = j
    BY <1>2 DEF Higher
  <1> QED BY <1>2, <1>3 DEF Leans, Higher

(* The single rotation of a node whose child leans the same way. *)
LEMMA OnceTops ==
    ASSUME NEW t \in Tree, NEW s \in Side, NEW x \in Key, NEW D, NEW C, NEW j \in Nat,
           Hangs(t, s, x, D, j + 2), Hangs(t, Other(s), x, C, j), NEW c, c = t.kid[s][x],
           t.high[c] = HighTo(s)
    PROVE  Topped(t, RotateOnce(t, x, s), x, c, D \cup {x} \cup C, j + 2)
  <1>1. c \in Key /\ \E A, B \in SUBSET Key, m, n \in Nat :
            /\ Bent(t, s, x, c, A, m, B, n, C, j) /\ Leans(t.high[c], s, m, n)
            /\ D = A \cup {c} \cup B /\ j + 2 = 1 + Higher(m, n)
    <2>1. j + 2 # 0
      OBVIOUS
    <2> QED BY <2>1, Bend
  <1>2. PICK A, B \in SUBSET Key, m, n \in Nat :
            /\ Bent(t, s, x, c, A, m, B, n, C, j) /\ Leans(t.high[c], s, m, n)
            /\ D = A \cup {c} \cup B /\ j + 2 = 1 + Higher(m, n)
    BY <1>1
  <1>3. Disjoint(x, c, A, B, C)
    BY <1>2, BentApart
  <1> DEFINE t1 == SetHigh(t, x, EqualHigh)
             t2 == SetHigh(t1, c, EqualHigh)
             u == Rotate(t2, x, Other(s))
  <1>4. RotateOnce(t, x, s) = u
    BY DEF RotateOnce
  <1>5. HighIs(t, t1, x, EqualHigh)
    BY HighSet
  <1> HIDE DEF t1
  <1>6. HighIs(t1, t2, c, EqualHigh)
    <2>1. t1 \in Tree /\ EqualHigh \in {LeftHigh, EqualHigh, RightHigh}
      BY <1>5 DEF HighIs
    <2> QED BY <1>1, <2>1, HighSet
  <1> HIDE DEF t2
  <1>7. /\ t2 \in Tree /\ t2.kid = t.kid /\ t2.parent = t.parent /\ Same(t, t2)
        /\ t2.high[x] = EqualHigh /\ t2.high[c] = EqualHigh
        /\ \A y \in Key \ {x, c} : t2.high[y] = t.high[y]
    BY <1>1, <1>5, <1>6 DEF HighIs, Same
  <1>8. Bent(t2, s, x, c, A, m, B, n, C, j)
    <2>1. \A y \in A \cup B \cup C : t2.high[y] = t.high[y]
      BY <1>3, <1>7 DEF Disjoint
    <2> QED BY <1>2, <1>7, <2>1, BentHigh
  <1>9. Turned(t2, u, x, s, c)
    <2>1. t2 \in Tree /\ c \in Key /\ c = t2.kid[s][x] /\ c # x
      BY <1>1, <1>3, <1>7 DEF Disjoint
    <2> QED BY <2>1, RotateTurns
  <1> HIDE DEF u
  <1>10. Unbent(t2, u, s, x, c, A, m, B, n, C, j)
    BY <1>8, <1>9, TurnedUnbends
  <1>11. u.high[x] = EqualHigh /\ u.high[c] = EqualHigh
    BY <1>7, <1>10 DEF Unbent
  <1>12. /\ Leans(u.high[x], s, n, j) /\ Leans(u.high[c], s, m, 1 + Higher(n, j))
         /\ 1 + Higher(m, 1 + Higher(n, j)) = j + 2
    BY <1>2, <1>11, HeightsOnce
  <1>13. Topped(t2, u, x, c, A \cup {c} \cup B \cup {x} \cup C, 1 + Higher(m, 1 + Higher(n, j)))
    BY <1>8, <1>10, <1>12, UnbentTops
  <1>14. A \cup {c} \cup B \cup {x} \cup C = D \cup {x} \cup C
    BY <1>2
  <1>15. Topped(t2, u, x, c, D \cup {x} \cup C, j + 2)
    BY <1>12, <1>13, <1>14
  <1>16. Stays(t, t2, Key \ (D \cup {x} \cup C))
    BY <1>2, <1>7 DEF Stays
  <1>17. Topped(t, u, x, c, D \cup {x} \cup C, j + 2)
    BY <1>7, <1>15, <1>16, ToppedFrom
  <1> QED BY <1>4, <1>17

(* After a rotation about a level child, the whole is as high as it was. *)
LEMMA HeightsLevel ==
    ASSUME NEW s \in Side, NEW m \in Nat, NEW n \in Nat, NEW j \in Nat,
           Leans(EqualHigh, s, m, n), j + 2 = 1 + Higher(m, n)
    PROVE  /\ Leans(HighTo(s), s, n, j) /\ Leans(HighTo(Other(s)), s, m, 1 + Higher(n, j))
           /\ 1 + Higher(m, 1 + Higher(n, j)) = j + 3
  <1>1. HighTo(s) # EqualHigh /\ EqualHigh # HighTo(Other(s))
    BY Sides
  <1>2. m = n
    BY <1>1 DEF Leans
  <1>3. n = j + 1
    BY <1>2 DEF Higher
  <1> QED BY <1>2, <1>3 DEF Leans, Higher

(* The rotation of a node whose child does not lean: nothing shrinks. *)
LEMMA LevelTops ==
    ASSUME NEW t \in Tree, NEW s \in Side, NEW x \in Key, NEW D, NEW C, NEW j \in Nat,
           Hangs(t, s, x, D, j + 2), Hangs(t, Other(s), x, C, j), NEW c, c = t.kid[s][x],
           t.high[c] = EqualHigh, t.high[x] = HighTo(s)
    PROVE  Topped(t, Rotate(SetHigh(t, c, HighTo(Other(s))), x, Other(s)), x, c, D \cup {x} \cup C, j + 3)
  <1>1. c \in Key /\ \E A, B \in SUBSET Key, m, n \in Nat :
            /\ Bent(t, s, x, c, A, m, B, n, C, j) /\ Leans(t.high[c], s, m, n)
            /\ D = A \cup {c} \cup B /\ j + 2 = 1 + Higher(m, n)
    <2>1. j + 2 # 0
      OBVIOUS
    <2> QED BY <2>1, Bend
  <1>2. PICK A, B \in SUBSET Key, m, n \in Nat :
            /\ Bent(t, s, x, c, A, m, B, n, C, j) /\ Leans(t.high[c], s, m, n)
            /\ D = A \cup {c} \cup B /\ j + 2 = 1 + Higher(m, n)
    BY <1>1
  <1>3. Disjoint(x, c, A, B, C)
    BY <1>2, BentApart
  <1> DEFINE t2 == SetHigh(t, c, HighTo(Other(s)))
             u == Rotate(t2, x, Other(s))
  <1>6. HighIs(t, t2, c, HighTo(Other(s)))
    <2>1. HighTo(Other(s)) \in {LeftHigh, EqualHigh, RightHigh}
      BY Sides
    <2> QED BY <1>1, <2>1, HighSet
  <1> HIDE DEF t2
  <1>7. /\ t2 \in Tree /\ t2.kid = t.kid /\ t2.parent = t.parent /\ Same(t, t2)
        /\ t2.high[x] = HighTo(s) /\ t2.high[c] = HighTo(Other(s))
        /\ \A y \in Key \ {x, c} : t2.high[y] = t.high[y]
    BY <1>1, <1>3, <1>6 DEF HighIs, Same, Disjoint
  <1>8. Bent(t2, s, x, c, A, m, B, n, C, j)
    <2>1. \A y \in A \cup B \cup C : t2.high[y] = t.high[y]
      BY <1>3, <1>7 DEF Disjoint
    <2> QED BY <1>2, <1>7, <2>1, BentHigh
  <1>9. Turned(t2, u, x, s, c)
    <2>1. t2 \in Tree /\ c \in Key /\ c = t2.kid[s][x] /\ c # x
      BY <1>1, <1>3, <1>7 DEF Disjoint
    <2> QED BY <2>1, RotateTurns
  <1> HIDE DEF u
  <1>10. Unbent(t2, u, s, x, c, A, m, B, n, C, j)
    BY <1>8, <1>9, TurnedUnbends
  <1>11. u.high[x] = HighTo(s) /\ u.high[c] = HighTo(Other(s))
    BY <1>7, <1>10 DEF Unbent
  <1>12. /\ Leans(u.high[x], s, n, j) /\ Leans(u.high[c], s, m, 1 + Higher(n, j))
         /\ 1 + Higher(m, 1 + Higher(n, j)) = j + 3
    BY <1>2, <1>11, HeightsLevel
  <1>13. Topped(t2, u, x, c, A \cup {c} \cup B \cup {x} \cup C, 1 + Higher(m, 1 + Higher(n, j)))
    BY <1>8, <1>10, <1>12, UnbentTops
  <1>14. A \cup {c} \cup B \cup {x} \cup C = D \cup {x} \cup C
    BY <1>2
  <1>15. Topped(t2, u, x, c, D \cup {x} \cup C, j + 3)
    BY <1>12, <1>13, <1>14
  <1>16. Stays(t, t2, Key \ (D \cup {x} \cup C))
    BY <1>2, <1>7 DEF Stays
  <1>17. Topped(t, u, x, c, D \cup {x} \cup C, j + 3)
    BY <1>7, <1>15, <1>16, ToppedFrom
  <1> QED BY <1>17 DEF u, t2

Evened(s, m, j, i1, i2, vx, vc) ==
    /\ Leans(vc, s, m, i1) /\ Leans(vx, s, i2, j)
    /\ Leans(EqualHigh, s, 1 + Higher(m, i1), 1 + Higher(i2, j))
    /\ 1 + Higher(1 + Higher(m, i1), 1 + Higher(i2, j)) = j + 2

(* After two rotations, both branches are level. *)
LEMMA HeightsTwice ==
    ASSUME NEW s \in Side, NEW m \in Nat, NEW n \in Nat, NEW j \in Nat, NEW i1 \in Nat, NEW i2 \in Nat,
           Leans(HighTo(Other(s)), s, m, n), j + 2 = 1 + Higher(m, n),
           NEW v, Leans(v, s, i1, i2), n = 1 + Higher(i1, i2),
           NEW vx, vx = IF v = HighTo(s) THEN HighTo(Other(s)) ELSE EqualHigh,
           NEW vc, vc = IF v = HighTo(Other(s)) THEN HighTo(s) ELSE EqualHigh
    PROVE  Evened(s, m, j, i1, i2, vx, vc)
  <1>1. HighTo(s) # EqualHigh /\ EqualHigh # HighTo(Other(s)) /\ HighTo(s) # HighTo(Other(s))
    BY Sides
  <1>2. n = m + 1
    BY <1>1 DEF Leans
  <1>3. m = j /\ n = j + 1
    BY <1>2 DEF Higher
  <1>4. CASE v = HighTo(s)
    <2>1. i1 = i2 + 1 /\ vx = HighTo(Other(s)) /\ vc = EqualHigh
      BY <1>1, <1>4 DEF Leans
    <2>2. i1 = j /\ i2 + 1 = j
      BY <1>3, <2>1 DEF Higher
    <2> QED BY <1>3, <2>1, <2>2 DEF Leans, Higher, Evened
  <1>5. CASE v = HighTo(Other(s))
    <2>1. i2 = i1 + 1 /\ vx = EqualHigh /\ vc = HighTo(s)
      BY <1>1, <1>5 DEF Leans
    <2>2. i2 = j /\ i1 + 1 = j
      BY <1>3, <2>1 DEF Higher
    <2> QED BY <1>3, <2>1, <2>2 DEF Leans, Higher, Evened
  <1>6. CASE v = EqualHigh
    <2>1. i2 = i1 /\ vx = EqualHigh /\ vc = EqualHigh
      BY <1>1, <1>6 DEF Leans
    <2>2. i2 = j /\ i1 = j
      BY <1>3, <2>1 DEF Higher
    <2> QED BY <1>3, <2>1, <2>2 DEF Leans, Higher, Evened
  <1> QED BY <1>4, <1>5, <1>6 DEF Leans

(* The double rotation of a node whose child leans the other way. *)
LEMMA TwiceTops ==
    ASSUME NEW t \in Tree, NEW s \in Side, NEW x \in Key, NEW D, NEW C, NEW j \in Nat,
           Hangs(t, s, x, D, j + 2), Hangs(t, Other(s), x, C, j), NEW c, c = t.kid[s][x],
           t.high[c] = HighTo(Other(s)), NEW w, w = t.kid[Other(s)][c]
    PROVE  Topped(t, RotateTwice(t, x, s), x, w, D \cup {x} \cup C, j + 2)
  <1> DEFINE o == Other(s)
             vx == IF t.high[w] = HighTo(s) THEN HighTo(o) ELSE EqualHigh
             vc == IF t.high[w] = HighTo(o) THEN HighTo(s) ELSE EqualHigh
  <1>0. /\ o \in Side /\ Other(o) = s /\ o # s /\ HighTo(o) # HighTo(s)
        /\ HighTo(s) # EqualHigh /\ HighTo(o) # EqualHigh
        /\ vx \in {LeftHigh, EqualHigh, RightHigh} /\ vc \in {LeftHigh, EqualHigh, RightHigh}
    BY Sides
  <1>1. c \in Key /\ \E A, B \in SUBSET Key, m, n \in Nat :
            /\ Bent(t, s, x, c, A, m, B, n, C, j) /\ Leans(t.high[c], s, m, n)
            /\ D = A \cup {c} \cup B /\ j + 2 = 1 + Higher(m, n)
    <2>1. j + 2 # 0
      OBVIOUS
    <2> QED BY <2>1, Bend
  <1>2. PICK A, B \in SUBSET Key, m, n \in Nat :
            /\ Bent(t, s, x, c, A, m, B, n, C, j) /\ Leans(t.high[c], s, m, n)
            /\ D = A \cup {c} \cup B /\ j + 2 = 1 + Higher(m, n)
    BY <1>1
  <1>3. Disjoint(x, c, A, B, C)
    BY <1>2, BentApart
  <1>4. w \in Key /\ \E W2, W1 \in SUBSET Key, i2, i1 \in Nat :
            /\ Bent(t, o, c, w, W2, i2, W1, i1, A, m) /\ Leans(t.high[w], o, i2, i1)
            /\ B = W2 \cup {w} \cup W1 /\ n = 1 + Higher(i2, i1)
    <2>1. n # 0
      BY <1>0, <1>2 DEF Leans
    <2>2. Hangs(t, o, c, B, n) /\ Hangs(t, Other(o), c, A, m)
      BY <1>0, <1>2 DEF Bent
    <2> HIDE DEF o
    <2>3. w = t.kid[o][c] /\ o \in Side /\ c \in Key
      BY <1>0, <1>1 DEF o
    <2> QED BY <2>1, <2>2, <2>3, Bend
  <1>5. PICK W2, W1 \in SUBSET Key, i2, i1 \in Nat :
            /\ Bent(t, o, c, w, W2, i2, W1, i1, A, m) /\ Leans(t.high[w], o, i2, i1)
            /\ B = W2 \cup {w} \cup W1 /\ n = 1 + Higher(i2, i1)
    BY <1>4
  <1>6. Disjoint(c, w, W2, W1, A)
    BY <1>5, BentApart
  <1> DEFINE t1 == SetHigh(t, x, vx)
             t2 == SetHigh(t1, c, vc)
             t3 == SetHigh(t2, w, EqualHigh)
             t4 == Rotate(t3, c, s)
             t5 == SetKid(t4, s, x, w)
             u == Rotate(t5, x, o)
  <1>7. RotateTwice(t, x, s) = u
    BY DEF RotateTwice
  <1> HIDE DEF vx, vc
  <1>8. HighIs(t, t1, x, vx)
    BY <1>0, HighSet
  <1> HIDE DEF t1
  <1>9. HighIs(t1, t2, c, vc)
    <2>1. t1 \in Tree
      BY <1>8 DEF HighIs
    <2> QED BY <1>0, <1>1, <2>1, HighSet
  <1> HIDE DEF t2
  <1>10. HighIs(t2, t3, w, EqualHigh)
    <2>1. t2 \in Tree /\ EqualHigh \in {LeftHigh, EqualHigh, RightHigh}
      BY <1>9 DEF HighIs
    <2> QED BY <1>4, <2>1, HighSet
  <1> HIDE DEF t3
  <1>11. /\ t3 \in Tree /\ t3.kid = t.kid /\ t3.parent = t.parent /\ Same(t, t3)
         /\ t3.high[x] = vx /\ t3.high[c] = vc /\ t3.high[w] = EqualHigh
         /\ \A y \in Key \ {x, c, w} : t3.high[y] = t.high[y]
    <2>1. x # c /\ x # w /\ c # w
      BY <1>3, <1>5, <1>6 DEF Disjoint
    <2>2. t3 \in Tree /\ t3.kid = t.kid /\ t3.parent = t.parent /\ Same(t, t3)
      BY <1>8, <1>9, <1>10 DEF HighIs, Same
    <2>3. \A y \in Key : t3.high[y] = IF y = w THEN EqualHigh ELSE IF y = c THEN vc
                                      ELSE IF y = x THEN vx ELSE t.high[y]
      BY <1>8, <1>9, <1>10 DEF HighIs
    <2> QED BY <1>1, <1>4, <2>1, <2>2, <2>3
  <1>12. Bent(t3, o, c, w, W2, i2, W1, i1, A, m)
    <2>1. \A y \in W2 \cup W1 \cup A : t3.high[y] = t.high[y]
      BY <1>3, <1>5, <1>6, <1>11 DEF Disjoint
    <2> QED BY <1>5, <1>11, <2>1, BentHigh
  <1>13. Turned(t3, t4, c, o, w)
    <2>1. t3 \in Tree /\ w \in Key /\ w = t3.kid[o][c] /\ w # c
      BY <1>4, <1>6, <1>11 DEF Disjoint
    <2>2. t4 = Rotate(t3, c, Other(o))
      BY <1>0
    <2> HIDE DEF t4, o
    <2> QED BY <1>0, <1>1, <2>1, <2>2, RotateTurns
  <1> HIDE DEF t4
  <1>14. Unbent(t3, t4, o, c, w, W2, i2, W1, i1, A, m)
    BY <1>12, <1>13, TurnedUnbends
  <1>15. KidIs(t4, t5, s, x, w)
    <2>1. t4 \in Tree /\ w \in Pointer
      BY <1>4, <1>14 DEF Unbent, Pointer
    <2> QED BY <2>1, KidSet
  <1> HIDE DEF t5
  <1>16. /\ t5 \in Tree /\ Same(t3, t5) /\ t5.parent = t4.parent /\ t5.high = t3.high
         /\ t5.kid[s][x] = w /\ \A r \in Side, y \in Key : y # x \/ r # s => t5.kid[r][y] = t4.kid[r][y]
         /\ Hangs(t4, o, w, W2, i2) /\ Hangs(t4, o, c, W1, i1) /\ Hangs(t4, s, c, A, m)
         /\ t4.kid[s][w] = c /\ t4.parent[c] = w
         /\ \A y \in W1 \cup {c} \cup A : OnSide(s, y, w)
         /\ Stays(t3, t4, Key \ (W2 \cup W1 \cup A \cup {c, w}))
    BY <1>0, <1>14, <1>15 DEF Unbent, KidIs, Same
  <1> HIDE DEF o
  <1>17. x \notin W1 /\ x \notin W2 /\ x \notin A /\ x # c /\ x # w /\ x \notin C
         /\ C \cap (W2 \cup W1 \cup A \cup {c, w}) = {} /\ C \subseteq Key
    <2>1. /\ x \notin A /\ x \notin B /\ x # c /\ x \notin C /\ C \subseteq Key
          /\ C \cap A = {} /\ C \cap B = {} /\ c \notin C
      BY <1>3 DEF Disjoint
    <2>2. W1 \subseteq B /\ W2 \subseteq B /\ w \in B
      BY <1>5
    <2>3. C \cap (W2 \cup W1 \cup A \cup {c, w}) = {}
      BY <2>1, <2>2
    <2> QED BY <2>1, <2>2, <2>3
  <1>18. Hangs(t5, o, w, W2, i2) /\ Hangs(t5, o, c, W1, i1) /\ Hangs(t5, s, c, A, m)
    <2>1. Stays(t4, t5, W2) /\ Stays(t4, t5, W1) /\ Stays(t4, t5, A)
      <3>1. \A y \in W2 \cup W1 \cup A : y \in Key /\ y # x
        BY <1>17
      <3>2. t5.high = t4.high
        BY <1>14, <1>16 DEF Unbent, Same
      <3> QED BY <1>16, <3>1, <3>2 DEF Stays
    <2>2. t5.kid[o][w] = t4.kid[o][w] /\ t5.kid[o][c] = t4.kid[o][c] /\ t5.kid[s][c] = t4.kid[s][c]
      BY <1>0, <1>1, <1>4, <1>16, <1>17
    <2> QED BY <1>0, <1>16, <2>1, <2>2, HangsStay
  <1>19. Stays(t, t5, Key \ (W2 \cup W1 \cup A \cup {c, w, x}))
    <2> SUFFICES ASSUME NEW y \in Key \ (W2 \cup W1 \cup A \cup {c, w, x})
                 PROVE  /\ t5.high[y] = t.high[y] /\ t5.parent[y] = t.parent[y]
                        /\ \A r \in Side : t5.kid[r][y] = t.kid[r][y]
      BY DEF Stays
    <2>1. y \in Key \ (W2 \cup W1 \cup A \cup {c, w}) /\ y # x /\ y \in Key \ {x, c, w}
      OBVIOUS
    <2>2. /\ t4.high[y] = t3.high[y] /\ t4.parent[y] = t3.parent[y]
          /\ \A r \in Side : t4.kid[r][y] = t3.kid[r][y]
      BY <1>16, <2>1 DEF Stays
    <2>3. t3.high[y] = t.high[y]
      BY <1>11, <2>1
    <2> QED BY <1>11, <1>16, <2>1, <2>2, <2>3
  <1>20. Hangs(t5, o, x, C, j)
    <2>1. Stays(t, t5, C)
      BY <1>17, <1>19 DEF Stays
    <2>2. t4.kid[o][x] = t3.kid[o][x]
      BY <1>0, <1>16, <1>17 DEF Stays
    <2>3. t5.kid[o][x] = t.kid[o][x]
      BY <1>0, <1>11, <1>16, <2>2
    <2>4. Hangs(t, o, x, C, j)
      BY DEF o
    <2> QED BY <1>0, <2>1, <2>3, <2>4, HangsStay
  <1>21. /\ Leans(vc, s, m, i1) /\ Leans(vx, s, i2, j)
         /\ Leans(EqualHigh, s, 1 + Higher(m, i1), 1 + Higher(i2, j))
         /\ 1 + Higher(1 + Higher(m, i1), 1 + Higher(i2, j)) = j + 2
    <2>1. Leans(HighTo(Other(s)), s, m, n) /\ j + 2 = 1 + Higher(m, n)
      BY <1>2
    <2>2. Leans(t.high[w], s, i1, i2)
      BY <1>0, <1>5, LeansBoth
    <2>3. n = 1 + Higher(i1, i2)
      BY <1>5, HigherIs
    <2>4. vx = (IF t.high[w] = HighTo(s) THEN HighTo(Other(s)) ELSE EqualHigh)
      BY DEF vx, o
    <2>5. vc = (IF t.high[w] = HighTo(Other(s)) THEN HighTo(s) ELSE EqualHigh)
      BY DEF vc, o
    <2>6. Evened(s, m, j, i1, i2, vx, vc)
      BY <2>1, <2>2, <2>3, <2>4, <2>5, HeightsTwice
    <2> QED BY <2>6 DEF Evened
  <1>22. Hangs(t5, s, w, A \cup {c} \cup W1, 1 + Higher(m, i1))
    <2>1. Joins(t5, s, c, A, m, W1, i1)
      BY <1>11, <1>16, <1>18, <1>21 DEF Joins, o
    <2>2. Sub(t5, c, A \cup {c} \cup W1, 1 + Higher(m, i1))
      BY <1>1, <2>1, Join
    <2>3. t5.kid[s][w] = c /\ t5.parent[c] = w
      BY <1>4, <1>16, <1>17
    <2>4. \A y \in A \cup {c} \cup W1 : OnSide(s, y, w)
      BY <1>16
    <2> QED BY <2>2, <2>3, <2>4 DEF Hangs, Fits
  <1>23. Bent(t5, s, x, w, A \cup {c} \cup W1, 1 + Higher(m, i1), W2, i2, C, j)
    <2>1. \A y \in D : OnSide(s, y, x)
      BY DEF Hangs, Fits
    <2>2. \A y \in (A \cup {c} \cup W1) \cup {w} \cup W2 : OnSide(s, y, x)
      BY <1>2, <1>5, <2>1
    <2> QED BY <1>4, <1>16, <1>18, <1>20, <1>22, <2>2 DEF Bent, o
  <1>24. Turned(t5, u, x, s, w)
    <2>1. t5 \in Tree /\ w \in Key /\ w = t5.kid[s][x] /\ w # x
      BY <1>4, <1>16, <1>17
    <2> QED BY <2>1, RotateTurns DEF o
  <1> HIDE DEF u
  <1> DEFINE E == A \cup {c} \cup W1
             k == 1 + Higher(m, i1)
  <1> HIDE DEF E, k
  <1>25. Unbent(t5, u, s, x, w, E, k, W2, i2, C, j) /\ Bent(t5, s, x, w, E, k, W2, i2, C, j)
    BY <1>23, <1>24, TurnedUnbends DEF E, k
  <1>26. u.high[x] = vx /\ u.high[w] = EqualHigh
    BY <1>11, <1>16, <1>25 DEF Unbent
  <1>27. Leans(u.high[x], s, i2, j) /\ Leans(u.high[w], s, k, 1 + Higher(i2, j))
         /\ 1 + Higher(k, 1 + Higher(i2, j)) = j + 2
    BY <1>21, <1>26 DEF k
  <1>28. Topped(t5, u, x, w, E \cup {w} \cup W2 \cup {x} \cup C, 1 + Higher(k, 1 + Higher(i2, j)))
    BY <1>25, <1>27, UnbentTops
  <1>29. E \cup {w} \cup W2 \cup {x} \cup C = D \cup {x} \cup C
    BY <1>2, <1>5 DEF E
  <1>30. Topped(t5, u, x, w, D \cup {x} \cup C, j + 2)
    BY <1>27, <1>28, <1>29
  <1>31. Stays(t, t5, Key \ (D \cup {x} \cup C)) /\ Same(t, t5)
    BY <1>2, <1>5, <1>11, <1>16, <1>19 DEF Stays, Same
  <1>32. t5.parent[x] = t.parent[x]
    <2>1. t4.parent[x] = t3.parent[x]
      BY <1>16, <1>17 DEF Stays
    <2> QED BY <1>11, <1>16, <2>1
  <1>33. Topped(t, u, x, w, D \cup {x} \cup C, j + 2)
    BY <1>30, <1>31, <1>32, ToppedFrom
  <1> QED BY <1>7, <1>33

(***************************************************************************)
(* Searching                                                               *)
(***************************************************************************)

(* One step more. *)
LEMMA IteratedNext ==
    ASSUME NEW F, NEW x, NEW k \in Nat
    PROVE  Iterated(F, x, 0) = x /\ Iterated(F, x, k + 1) = F[Iterated(F, x, k)]
  <1>1. Iterated(F, x, 0) = x
    <2> DEFINE P == [n \in Nat |-> IF n = 0 THEN {x} ELSE {F[Iterated(F, x, 0)]}]
    <2>1. x \in P[0]
      OBVIOUS
    <2>2. \A n \in Nat : n < 0 => \A s \in P[n] : F[s] \in P[n + 1]
      OBVIOUS
    <2> HIDE DEF P
    <2>3. Iterated(F, x, 0) \in P[0]
      BY <2>1, <2>2, IteratedUpTo
    <2> QED BY <2>3 DEF P
  <1>2. Iterated(F, x, k + 1) = F[Iterated(F, x, k)]
    <2> DEFINE f == CHOOSE f : Runs(F, x, k + 1, f)
    <2>0. k + 1 \in Nat
      OBVIOUS
    <2>1. Iterated(F, x, k + 1) = f[k + 1]
      BY DEF Iterated, Runs
    <2>2. Runs(F, x, k + 1, f)
      BY <2>0, RunExists
    <2> HIDE DEF f
    <2>3. \A i \in 0 .. k + 1 : f[i] = IF i = 0 THEN x ELSE F[f[i - 1]]
      BY <2>2 DEF Runs
    <2> DEFINE P == [n \in Nat |-> {f[n]}]
    <2>4. x \in P[0]
      BY <2>3
    <2>5. ASSUME NEW n \in Nat, n < k, NEW s \in P[n] PROVE F[s] \in P[n + 1]
      <3>1. n + 1 \in 0 .. k + 1 /\ n + 1 # 0 /\ (n + 1) - 1 = n
        BY <2>5
      <3>2. f[n + 1] = F[f[n]]
        BY <2>3, <3>1
      <3> QED BY <2>5, <3>2
    <2> HIDE DEF P
    <2>6. Iterated(F, x, k) \in P[k]
      BY <2>4, <2>5, IteratedUpTo
    <2>7. Iterated(F, x, k) = f[k]
      BY <2>6 DEF P
    <2>8. k + 1 \in 0 .. k + 1 /\ k + 1 # 0 /\ (k + 1) - 1 = k
      OBVIOUS
    <2>9. f[k + 1] = F[f[k]]
      BY <2>3, <2>8
    <2> QED BY <2>1, <2>7, <2>9
  <1> QED BY <1>1, <1>2

(* Where k belongs. *)
LEMMA TowardsSide ==
    ASSUME NEW k \in Key, NEW x \in Key
    PROVE  Towards(k, x) \in Side /\ (Cmp(k, x) = 0 <=> k = x) /\ (k # x => OnSide(Towards(k, x), k, x))
  <1>1. /\ Cmp(k, x) \in Int /\ Cmp(x, k) \in Int
        /\ (Cmp(k, x) = 0) <=> (k = x)
        /\ (Cmp(x, k) < 0) <=> (Cmp(k, x) > 0)
    BY CmpAssumption
  <1> QED BY <1>1 DEF Towards, Side, OnSide

(* The way to k, after n steps. *)
OnWay(t, S, h, k, n, x) == \E X \in SUBSET S, j \in Nat :
    /\ x \in Pointer /\ Sub(t, x, X, j) /\ (k \in S <=> k \in X)
    /\ x = Nil \/ x = k \/ j + n <= h

(* Each step of avl_find_node goes down one level, to where k belongs. *)
LEMMA FindWay ==
    ASSUME NEW t \in Tree, NEW x, NEW S, NEW h, Sub(t, x, S, h), NEW k \in Key, NEW n \in Nat
    PROVE  OnWay(t, S, h, k, n, Iterated(Descend(t, k), x, n))
  <1> DEFINE D == Descend(t, k)
             P == [i \in Nat |-> {y \in Pointer : OnWay(t, S, h, k, i, y)}]
  <1>0. h \in Nat /\ x \in Pointer /\ S \in SUBSET Key /\ Nil \notin Key
    BY SubKinds, TreeAssumption
  <1>1. x \in P[0]
    BY <1>0 DEF OnWay
  <1>2. ASSUME NEW i \in Nat, NEW y \in P[i] PROVE D[y] \in P[i + 1]
    <2>1. y \in Pointer /\ OnWay(t, S, h, k, i, y)
      BY <1>2
    <2> HIDE DEF P
    <2>2. PICK X \in SUBSET S, j \in Nat :
              Sub(t, y, X, j) /\ (k \in S <=> k \in X) /\ (y = Nil \/ y = k \/ j + i <= h)
      BY <2>1 DEF OnWay
    <2>3. D[y] = IF y = Nil THEN Nil ELSE IF Cmp(k, y) = 0 THEN y ELSE t.kid[Towards(k, y)][y]
      BY <2>1 DEF Descend
    <2>4. CASE y = Nil \/ y = k
      <3>1. D[y] = y
        BY <1>0, <2>1, <2>3, <2>4, TowardsSide DEF Pointer
      <3> HIDE DEF D
      <3> QED BY <2>1, <2>2, <2>4, <3>1 DEF OnWay, P
    <2>5. CASE y # Nil /\ y # k
      <3>1. y \in Key
        BY <2>1, <2>5 DEF Pointer
      <3> DEFINE s == Towards(k, y)
                 z == t.kid[s][y]
      <3>2. s \in Side /\ OnSide(s, k, y) /\ D[y] = z
        BY <2>3, <2>5, <3>1, TowardsSide
      <3> HIDE DEF D, s
      <3>3. PICK A, B \in SUBSET Key, m, q \in Nat :
                Joins(t, s, y, A, m, B, q) /\ X = A \cup {y} \cup B /\ j = 1 + Higher(m, q)
        BY <2>2, <3>1, <3>2, Split DEF MadeOf
      <3>4. Sub(t, z, A, m) /\ \A v \in B : OnSide(Other(s), v, y)
        BY <3>3 DEF Joins, Hangs, Fits
      <3>5. k \notin B
        BY <3>1, <3>2, <3>4, Order
      <3>6. Higher(m, q) \in Nat /\ m <= Higher(m, q)
        BY HigherIs
      <3>7. m + (i + 1) <= h
        BY <1>0, <2>2, <2>5, <3>3, <3>6
      <3>8. A \in SUBSET S /\ (k \in S <=> k \in A) /\ z \in Pointer
        BY <2>2, <2>5, <3>3, <3>4, <3>5, SubKinds
      <3>9. OnWay(t, S, h, k, i + 1, z)
        BY <3>4, <3>7, <3>8 DEF OnWay
      <3> QED BY <3>2, <3>8, <3>9 DEF P
    <2> QED BY <2>4, <2>5
  <1> HIDE DEF P, D
  <1>3. Iterated(D, x, n) \in P[n]
    BY <1>1, <1>2, IteratedIn
  <1> QED BY <1>3 DEF P, D

(* A key of the tree is found, and no other one. *)
LEMMA Finds ==
    ASSUME NEW t \in Tree, NEW x, NEW S, NEW h, Sub(t, x, S, h), NEW k \in Key, h <= t.at_nodes
    PROVE  avl_find_node(t, x, k) = IF k \in S THEN k ELSE Nil
  <1> DEFINE z == avl_find_node(t, x, k)
  <1>0. h \in Nat /\ t.at_nodes \in Nat /\ S \in SUBSET Key /\ Nil \notin Key
    BY SubKinds, TreeKinds, TreeAssumption
  <1>1. OnWay(t, S, h, k, t.at_nodes, z)
    BY <1>0, FindWay DEF avl_find_node, Deepest
  <1> HIDE DEF z
  <1>2. PICK X \in SUBSET S, j \in Nat :
            /\ Sub(t, z, X, j) /\ (k \in S <=> k \in X)
            /\ z = Nil \/ z = k \/ j + t.at_nodes <= h
    BY <1>1 DEF OnWay
  <1>3. z = Nil => X = {}
    BY <1>2, SubTop
  <1>4. z # Nil => z \in X /\ j > 0
    BY <1>2, SubTop
  <1>5. z = Nil \/ z = k
    BY <1>0, <1>2, <1>4
  <1> QED BY <1>0, <1>2, <1>3, <1>4, <1>5 DEF z

(***************************************************************************)
(* Insertion                                                               *)
(***************************************************************************)

(* A height that grew, or not. *)
Plus(grew, m) == IF grew THEN m + 1 ELSE m

(* The branch that r comes back from, with the nodes A and the height m in t, has k now. *)
Back(t, r, k, x, A, m) ==
    /\ r.t \in Tree /\ r.root \in Key /\ r.grew \in BOOLEAN /\ m \in Nat
    /\ Sub(r.t, r.root, A \cup {k}, Plus(r.grew, m))
    /\ r.t.parent[r.root] = IF x = Nil THEN Nil ELSE t.parent[x]
    /\ r.grew => r.t.high[r.root] # EqualHigh \/ m = 0
    /\ Stays(t, r.t, Key \ (A \cup {k}))

(* It is linked to the node above it. *)
LinkedTo(r, y, s) == SetParent(SetKid(r.t, s, y, r.root), r.root, y)
Linked(t, r, u, k, s, y, A, m, B, n) ==
    /\ u \in Tree /\ Same(r.t, u) /\ u.kid[s][y] = r.root /\ r.root # y
    /\ Hangs(u, s, y, A \cup {k}, Plus(r.grew, m)) /\ Hangs(u, Other(s), y, B, n)
    /\ u.high[y] = t.high[y] /\ u.high[r.root] = r.t.high[r.root] /\ u.parent[y] = t.parent[y]
    /\ Stays(t, u, Key \ ((A \cup {k}) \cup {y} \cup B))

(* A branch that took in k is linked below y. *)
LEMMA LinkBack ==
    ASSUME NEW t, NEW r, NEW k \in Key, NEW s \in Side, NEW y \in Key, NEW A, NEW m, NEW B, NEW n,
           Joins(t, s, y, A, m, B, n), Back(t, r, k, t.kid[s][y], A, m),
           k # y, k \notin B, OnSide(s, k, y)
    PROVE  Linked(t, r, LinkedTo(r, y, s), k, s, y, A, m, B, n)
  <1> DEFINE t1 == SetKid(r.t, s, y, r.root)
             u == SetParent(t1, r.root, y)
  <1>0. /\ r.t \in Tree /\ r.root \in Key /\ r.root \in Pointer /\ y \in Pointer /\ Other(s) \in Side /\ Other(s) # s
        /\ Nil \notin Key /\ Sub(r.t, r.root, A \cup {k}, Plus(r.grew, m))
        /\ Stays(t, r.t, Key \ (A \cup {k}))
    BY Sides, TreeAssumption DEF Back, Pointer
  <1>1. Apart(t, s, y, A, m, B, n)
    BY JoinsApart
  <1>2. /\ A \in SUBSET Key /\ B \in SUBSET Key /\ y \notin A /\ y \notin B /\ A \cap B = {}
        /\ y \notin A \cup {k} /\ (A \cup {k}) \cap B = {}
    BY <1>1 DEF Apart
  <1>3. r.root \in A \cup {k}
    BY <1>0, SubTop
  <1>4. KidIs(r.t, t1, s, y, r.root)
    BY <1>0, KidSet
  <1> HIDE DEF t1
  <1>5. ParentIs(t1, u, r.root, y)
    <2>1. t1 \in Tree
      BY <1>4 DEF KidIs
    <2> QED BY <1>0, <2>1, SetParentIs
  <1> HIDE DEF u
  <1>6. /\ u \in Tree /\ Same(r.t, u) /\ u.high = r.t.high
        /\ \A q \in Side, v \in Key : u.kid[q][v] = IF q = s /\ v = y THEN r.root ELSE r.t.kid[q][v]
        /\ \A v \in Key : u.parent[v] = IF v = r.root THEN y ELSE r.t.parent[v]
    BY <1>4, <1>5 DEF KidIs, ParentIs, Same
  <1>7. Keeps(r.t, u, r.root, A \cup {k})
    BY <1>2, <1>6 DEF Keeps
  <1>8. Hangs(u, s, y, A \cup {k}, Plus(r.grew, m))
    <2>1. u.kid[s][y] = r.root /\ u.parent[r.root] = y
      BY <1>0, <1>6
    <2>2. \A v \in A \cup {k} : OnSide(s, v, y)
      BY DEF Joins, Hangs, Fits
    <2> QED BY <1>0, <1>7, <2>1, <2>2, Rehang
  <1>9. Stays(t, u, Key \ ((A \cup {k}) \cup {y}))
    <2> SUFFICES ASSUME NEW v \in Key \ ((A \cup {k}) \cup {y})
                 PROVE  /\ u.high[v] = t.high[v] /\ u.parent[v] = t.parent[v]
                        /\ \A q \in Side : u.kid[q][v] = t.kid[q][v]
      BY DEF Stays
    <2>1. /\ r.t.high[v] = t.high[v] /\ r.t.parent[v] = t.parent[v]
          /\ \A q \in Side : r.t.kid[q][v] = t.kid[q][v]
      BY <1>0 DEF Stays
    <2> QED BY <1>3, <1>6, <2>1
  <1>10. Hangs(u, Other(s), y, B, n)
    <2>1. Stays(t, u, B)
      BY <1>2, <1>9 DEF Stays
    <2>2. r.t.kid[Other(s)][y] = t.kid[Other(s)][y]
      BY <1>0, <1>2 DEF Stays
    <2>3. u.kid[Other(s)][y] = t.kid[Other(s)][y]
      BY <1>0, <1>6, <2>2
    <2> QED BY <1>0, <2>1, <2>3, HangsStay DEF Joins
  <1>11. u.high[y] = t.high[y] /\ u.high[r.root] = r.t.high[r.root] /\ u.parent[y] = t.parent[y]
    <2>1. r.t.high[y] = t.high[y] /\ r.t.parent[y] = t.parent[y]
      BY <1>0, <1>2 DEF Stays
    <2> QED BY <1>2, <1>3, <1>6, <2>1
  <1>12. Stays(t, u, Key \ ((A \cup {k}) \cup {y} \cup B))
    BY <1>9 DEF Stays
  <1>13. u.kid[s][y] = r.root /\ r.root # y
    BY <1>2, <1>3, <1>6
  <1>14. LinkedTo(r, y, s) = u
    BY DEF LinkedTo, u, t1
  <1> QED BY <1>6, <1>8, <1>10, <1>11, <1>12, <1>13, <1>14 DEF Linked

(* The heights of the four cases. *)
LEMMA HeightsGrown ==
    ASSUME NEW s \in Side, NEW m \in Nat, NEW n \in Nat, NEW v, Leans(v, s, m, n)
    PROVE  /\ v = EqualHigh => Leans(HighTo(s), s, m + 1, n) /\ 1 + Higher(m + 1, n) = (1 + Higher(m, n)) + 1
           /\ v = HighTo(Other(s)) => Leans(EqualHigh, s, m + 1, n) /\ 1 + Higher(m + 1, n) = 1 + Higher(m, n)
           /\ v = HighTo(s) => m + 1 = n + 2 /\ n + 2 = 1 + Higher(m, n) /\ m # 0
  <1>1. HighTo(s) # EqualHigh /\ EqualHigh # HighTo(Other(s)) /\ HighTo(s) # HighTo(Other(s))
    BY Sides
  <1> QED BY <1>1 DEF Leans, Higher

(* What is known of the branch of y then. *)
GrownBack(t, r, g, k, y, A, m, B, n) ==
    Back(t, g, k, y, A \cup {y} \cup B, 1 + Higher(m, n)) /\ Same(r.t, g.t)

(* The node above it, when nothing has to be rotated: the balance of y was set to v. *)
LEMMA GrownLevel ==
    ASSUME NEW t, NEW r, NEW u, NEW k \in Key, NEW s \in Side, NEW y \in Key, NEW A, NEW m, NEW B, NEW n,
           Joins(t, s, y, A, m, B, n), Linked(t, r, u, k, s, y, A, m, B, n),
           NEW v \in {LeftHigh, EqualHigh, RightHigh}, Leans(v, s, Plus(r.grew, m), n),
           NEW g, g.t = SetHigh(u, y, v), g.root = y, g.grew \in BOOLEAN, k # y, k \notin B,
           1 + Higher(Plus(r.grew, m), n) = Plus(g.grew, 1 + Higher(m, n)),
           g.grew => v # EqualHigh
    PROVE  GrownBack(t, r, g, k, y, A, m, B, n)
  <1>1. Apart(t, s, y, A, m, B, n)
    BY JoinsApart
  <1>2. /\ A \in SUBSET Key /\ B \in SUBSET Key /\ y \notin A /\ y \notin B /\ 1 + Higher(m, n) \in Nat
        /\ y # Nil
    BY <1>1, TreeAssumption DEF Apart
  <1>3. Other(s) \in Side
    BY Sides
  <1>4. /\ u \in Tree /\ Same(r.t, u) /\ u.parent[y] = t.parent[y]
        /\ Hangs(u, s, y, A \cup {k}, Plus(r.grew, m)) /\ Hangs(u, Other(s), y, B, n)
        /\ Stays(t, u, Key \ ((A \cup {k}) \cup {y} \cup B))
    BY DEF Linked
  <1>5. HighIs(u, g.t, y, v)
    BY <1>4, HighSet
  <1>6. /\ g.t \in Tree /\ Same(r.t, g.t) /\ g.t.kid = u.kid /\ g.t.parent = u.parent
        /\ \A x \in Key : g.t.high[x] = IF x = y THEN v ELSE u.high[x]
    BY <1>4, <1>5 DEF HighIs, Same
  <1>7. Stays(u, g.t, A \cup {k}) /\ Stays(u, g.t, B)
    BY <1>2, <1>6 DEF Stays
  <1>8. Hangs(g.t, s, y, A \cup {k}, Plus(r.grew, m)) /\ Hangs(g.t, Other(s), y, B, n)
    BY <1>3, <1>4, <1>6, <1>7, HangsStay
  <1>9. Joins(g.t, s, y, A \cup {k}, Plus(r.grew, m), B, n)
    BY <1>6, <1>8 DEF Joins
  <1>10. Sub(g.t, y, (A \cup {k}) \cup {y} \cup B, 1 + Higher(Plus(r.grew, m), n))
    BY <1>9, Join
  <1>11. (A \cup {k}) \cup {y} \cup B = (A \cup {y} \cup B) \cup {k}
    OBVIOUS
  <1>12. Sub(g.t, y, (A \cup {y} \cup B) \cup {k}, Plus(g.grew, 1 + Higher(m, n)))
    BY <1>10, <1>11
  <1>13. Stays(t, g.t, Key \ ((A \cup {y} \cup B) \cup {k}))
    BY <1>4, <1>6, <1>11 DEF Stays
  <1>14. g.t.parent[y] = t.parent[y] /\ g.t.high[y] = v
    BY <1>4, <1>6
  <1> QED BY <1>2, <1>6, <1>12, <1>13, <1>14 DEF GrownBack, Back

(* When it is rotated. *)
LEMMA GrownTops ==
    ASSUME NEW t, NEW r, NEW u, NEW k \in Key, NEW s \in Side, NEW y \in Key, NEW A, NEW m, NEW B, NEW n,
           Joins(t, s, y, A, m, B, n), Linked(t, r, u, k, s, y, A, m, B, n),
           NEW g, g.grew = FALSE, Topped(u, g.t, y, g.root, (A \cup {k}) \cup {y} \cup B, 1 + Higher(m, n))
    PROVE  GrownBack(t, r, g, k, y, A, m, B, n)
  <1>1. Apart(t, s, y, A, m, B, n)
    BY JoinsApart
  <1>2. A \in SUBSET Key /\ B \in SUBSET Key /\ 1 + Higher(m, n) \in Nat /\ y # Nil
    BY <1>1, TreeAssumption DEF Apart
  <1>3. Same(r.t, u) /\ u.parent[y] = t.parent[y] /\ Stays(t, u, Key \ ((A \cup {k}) \cup {y} \cup B))
    BY DEF Linked
  <1>4. (A \cup {k}) \cup {y} \cup B = (A \cup {y} \cup B) \cup {k}
    OBVIOUS
  <1>5. /\ g.t \in Tree /\ Same(u, g.t) /\ Sub(g.t, g.root, (A \cup {y} \cup B) \cup {k}, 1 + Higher(m, n))
        /\ g.root \in (A \cup {y} \cup B) \cup {k}
        /\ g.t.parent[g.root] = u.parent[y] /\ Stays(u, g.t, Key \ ((A \cup {y} \cup B) \cup {k}))
    BY <1>4 DEF Topped
  <1>6. Stays(t, g.t, Key \ ((A \cup {y} \cup B) \cup {k}))
    BY <1>3, <1>4, <1>5 DEF Stays
  <1>7. Same(r.t, g.t) /\ g.root \in Key /\ Plus(g.grew, 1 + Higher(m, n)) = 1 + Higher(m, n)
    BY <1>2, <1>3, <1>5 DEF Same, Plus
  <1> QED BY <1>2, <1>3, <1>5, <1>6, <1>7 DEF GrownBack, Back

(* The recursion of avl_insert comes back over one node. *)
LEMMA GrownGrows ==
    ASSUME NEW t, NEW r, NEW k \in Key, NEW s \in Side, NEW y \in Key, NEW A, NEW m, NEW B, NEW n,
           Joins(t, s, y, A, m, B, n), Back(t, r, k, t.kid[s][y], A, m),
           k # y, k \notin B, OnSide(s, k, y)
    PROVE  GrownBack(t, r, Grown(r, y, s), k, y, A, m, B, n) /\ Grown(r, y, s).grew \in BOOLEAN
  <1> DEFINE u == LinkedTo(r, y, s)
             g == Grown(r, y, s)
  <1>1. Linked(t, r, u, k, s, y, A, m, B, n)
    BY LinkBack
  <1>2. /\ m \in Nat /\ n \in Nat /\ Leans(t.high[y], s, m, n)
    BY JoinsKinds DEF Joins
  <1>3. /\ HighTo(s) # EqualHigh /\ HighTo(Other(s)) # EqualHigh /\ HighTo(s) # HighTo(Other(s))
        /\ HighTo(s) \in {LeftHigh, RightHigh} /\ HighTo(Other(s)) \in {LeftHigh, RightHigh}
        /\ Other(s) \in Side /\ Other(Other(s)) = s
    BY Sides
  <1>4. /\ t.high[y] = EqualHigh => Leans(HighTo(s), s, m + 1, n) /\ 1 + Higher(m + 1, n) = (1 + Higher(m, n)) + 1
        /\ t.high[y] = HighTo(Other(s)) => Leans(EqualHigh, s, m + 1, n) /\ 1 + Higher(m + 1, n) = 1 + Higher(m, n)
        /\ t.high[y] = HighTo(s) => m + 1 = n + 2 /\ n + 2 = 1 + Higher(m, n) /\ m # 0
    BY <1>2, HeightsGrown
  <1>5. /\ u \in Tree /\ u.kid[s][y] = r.root /\ u.high[y] = t.high[y] /\ u.high[r.root] = r.t.high[r.root]
        /\ Hangs(u, s, y, A \cup {k}, Plus(r.grew, m)) /\ Hangs(u, Other(s), y, B, n)
    BY <1>1 DEF Linked
  <1>6. r.grew \in BOOLEAN /\ r.root \in Key /\ (r.grew => r.t.high[r.root] # EqualHigh \/ m = 0)
    BY DEF Back
  <1>7. t.high[y] \in {EqualHigh, HighTo(s), HighTo(Other(s))}
    BY <1>2 DEF Leans
  <1>8. SetHigh(u, y, u.high[y]) = u
    <2>1. HighIs(u, SetHigh(u, y, u.high[y]), y, u.high[y])
      BY <1>5, HighSet, TreeKinds
    <2> QED BY <1>5, <2>1 DEF SetHigh, Tree
  <1> HIDE DEF u
  <1>9. CASE ~r.grew
    <2>1. g = [t |-> u, root |-> y, grew |-> FALSE]
      BY <1>9 DEF Grown, LinkedTo, u
    <2>2. g.t = SetHigh(u, y, u.high[y]) /\ g.root = y /\ g.grew = FALSE
      BY <1>8, <2>1
    <2> HIDE DEF g
    <2>3. Plus(r.grew, m) = m /\ Plus(g.grew, 1 + Higher(m, n)) = 1 + Higher(m, n)
      BY <1>9, <2>2 DEF Plus
    <2>4. u.high[y] \in {LeftHigh, EqualHigh, RightHigh} /\ Leans(u.high[y], s, Plus(r.grew, m), n)
      BY <1>2, <1>5, <2>3, TreeKinds
    <2>5. GrownBack(t, r, g, k, y, A, m, B, n)
      BY <1>1, <2>2, <2>3, <2>4, GrownLevel
    <2> QED BY <2>2, <2>5 DEF g
  <1>10. CASE r.grew /\ u.high[y] = EqualHigh
    <2>1. g = [t |-> SetHigh(u, y, HighTo(s)), root |-> y, grew |-> TRUE]
      BY <1>3, <1>10 DEF Grown, LinkedTo, u
    <2>2. g.t = SetHigh(u, y, HighTo(s)) /\ g.root = y /\ g.grew = TRUE
      BY <2>1
    <2> HIDE DEF g
    <2>3. Plus(r.grew, m) = m + 1 /\ Plus(g.grew, 1 + Higher(m, n)) = (1 + Higher(m, n)) + 1
      BY <1>10, <2>2 DEF Plus
    <2>4. HighTo(s) \in {LeftHigh, EqualHigh, RightHigh} /\ Leans(HighTo(s), s, Plus(r.grew, m), n)
      BY <1>3, <1>4, <1>5, <1>10, <2>3
    <2>5. 1 + Higher(Plus(r.grew, m), n) = Plus(g.grew, 1 + Higher(m, n))
      BY <1>4, <1>5, <1>10, <2>3
    <2>6. GrownBack(t, r, g, k, y, A, m, B, n)
      BY <1>1, <1>3, <2>2, <2>4, <2>5, GrownLevel
    <2> QED BY <2>2, <2>6 DEF g
  <1>11. CASE r.grew /\ u.high[y] = HighTo(Other(s))
    <2>1. g = [t |-> SetHigh(u, y, EqualHigh), root |-> y, grew |-> FALSE]
      BY <1>3, <1>11 DEF Grown, LinkedTo, u
    <2>2. g.t = SetHigh(u, y, EqualHigh) /\ g.root = y /\ g.grew = FALSE
      BY <2>1
    <2> HIDE DEF g
    <2>3. Plus(r.grew, m) = m + 1 /\ Plus(g.grew, 1 + Higher(m, n)) = 1 + Higher(m, n)
      BY <1>11, <2>2 DEF Plus
    <2>4. EqualHigh \in {LeftHigh, EqualHigh, RightHigh} /\ Leans(EqualHigh, s, Plus(r.grew, m), n)
      BY <1>4, <1>5, <1>11, <2>3
    <2>5. 1 + Higher(Plus(r.grew, m), n) = Plus(g.grew, 1 + Higher(m, n))
      BY <1>4, <1>5, <1>11, <2>3
    <2>6. GrownBack(t, r, g, k, y, A, m, B, n)
      BY <1>1, <2>2, <2>4, <2>5, GrownLevel
    <2> QED BY <2>2, <2>6 DEF g
  <1>12. CASE r.grew /\ u.high[y] = HighTo(s)
    <2> DEFINE b == Balance(u, y, s)
    <2>1. g = [t |-> b.t, root |-> b.root, grew |-> FALSE]
      BY <1>3, <1>12 DEF Grown, LinkedTo, u
    <2>2. g.t = b.t /\ g.root = b.root /\ g.grew = FALSE
      BY <2>1
    <2> HIDE DEF g
    <2>3. m + 1 = n + 2 /\ n + 2 = 1 + Higher(m, n) /\ m # 0 /\ Plus(r.grew, m) = n + 2
      BY <1>4, <1>5, <1>12 DEF Plus
    <2>4. Hangs(u, s, y, A \cup {k}, n + 2) /\ Hangs(u, Other(s), y, B, n)
      BY <1>5, <2>3
    <2>5. u.high[r.root] \in {HighTo(s), HighTo(Other(s))}
      <3>1. u.high[r.root] \in {LeftHigh, EqualHigh, RightHigh} /\ u.high[r.root] # EqualHigh
        BY <1>5, <1>6, <1>12, <2>3, TreeKinds
      <3> QED BY <1>3, <3>1
    <2>6. CASE u.high[r.root] = HighTo(s)
      <3>1. b.t = RotateOnce(u, y, s) /\ b.root = r.root
        BY <1>5, <2>6 DEF Balance
      <3> HIDE DEF b
      <3>2. Topped(u, RotateOnce(u, y, s), y, r.root, (A \cup {k}) \cup {y} \cup B, n + 2)
        BY <1>2, <1>5, <2>4, <2>6, OnceTops
      <3>3. Topped(u, g.t, y, g.root, (A \cup {k}) \cup {y} \cup B, 1 + Higher(m, n))
        BY <2>2, <2>3, <3>1, <3>2
      <3>4. GrownBack(t, r, g, k, y, A, m, B, n)
        BY <1>1, <2>2, <3>3, GrownTops
      <3> QED BY <2>2, <3>4 DEF g
    <2>7. CASE u.high[r.root] = HighTo(Other(s))
      <3> DEFINE w == u.kid[Other(s)][r.root]
      <3>1. b.t = RotateTwice(u, y, s) /\ b.root = w
        BY <1>3, <1>5, <2>7 DEF Balance
      <3> HIDE DEF b
      <3>2. Topped(u, RotateTwice(u, y, s), y, w, (A \cup {k}) \cup {y} \cup B, n + 2)
        BY <1>2, <1>5, <2>4, <2>7, TwiceTops
      <3>3. Topped(u, g.t, y, g.root, (A \cup {k}) \cup {y} \cup B, 1 + Higher(m, n))
        BY <2>2, <2>3, <3>1, <3>2
      <3>4. GrownBack(t, r, g, k, y, A, m, B, n)
        BY <1>1, <2>2, <3>3, GrownTops
      <3> QED BY <2>2, <3>4 DEF g
    <2> QED BY <2>5, <2>6, <2>7
  <1> QED BY <1>5, <1>6, <1>7, <1>9, <1>10, <1>11, <1>12

(* A node without links. *)
Bare(t, u, x) ==
    /\ u \in Tree /\ Same(t, u) /\ u.high = t.high /\ u.parent[x] = Nil
    /\ \A s \in Side : u.kid[s][x] = Nil
    /\ \A y \in Key \ {x} : u.parent[y] = t.parent[y] /\ \A s \in Side : u.kid[s][y] = t.kid[s][y]

(* CUTOFF. *)
LEMMA CutOffIs ==
    ASSUME NEW t \in Tree, NEW x \in Key
    PROVE  Bare(t, CutOff(t, x), x)
  <1> DEFINE t1 == SetKid(t, "L", x, Nil)
             t2 == SetKid(t1, "R", x, Nil)
             u == SetParent(t2, x, Nil)
  <1>0. "L" \in Side /\ "R" \in Side /\ Nil \in Pointer /\ x \in Pointer /\ (\A s \in Side : s = "L" \/ s = "R")
    BY LeftRight DEF Pointer, Side
  <1>1. KidIs(t, t1, "L", x, Nil)
    BY <1>0, KidSet
  <1> HIDE DEF t1
  <1>2. KidIs(t1, t2, "R", x, Nil)
    <2>1. t1 \in Tree
      BY <1>1 DEF KidIs
    <2> QED BY <1>0, <2>1, KidSet
  <1> HIDE DEF t2
  <1>3. ParentIs(t2, u, x, Nil)
    <2>1. t2 \in Tree
      BY <1>2 DEF KidIs
    <2> QED BY <1>0, <2>1, SetParentIs
  <1> HIDE DEF u
  <1>4. u \in Tree /\ Same(t, u) /\ u.high = t.high /\ u.kid = t2.kid
    BY <1>1, <1>2, <1>3 DEF KidIs, ParentIs, Same
  <1>5. \A s \in Side, y \in Key : t2.kid[s][y] = IF y = x THEN Nil ELSE t.kid[s][y]
    BY <1>0, <1>1, <1>2 DEF KidIs
  <1>6. \A y \in Key : u.parent[y] = IF y = x THEN Nil ELSE t.parent[y]
    BY <1>1, <1>2, <1>3 DEF KidIs, ParentIs
  <1>7. Bare(t, u, x)
    BY <1>4, <1>5, <1>6 DEF Bare
  <1> QED BY <1>7 DEF CutOff, u, t1, t2

(* A new one. *)
NewIs(t, b, k, d) ==
    /\ b \in Tree /\ b.at_nodes = t.at_nodes /\ b.root = t.root /\ b.current = k
    /\ b.data = [t.data EXCEPT ![k] = d]
    /\ b.parent[k] = Nil /\ (\A s \in Side : b.kid[s][k] = Nil) /\ b.high[k] = EqualHigh
    /\ Stays(t, b, Key \ {k})

(* avl_new_node with its key and data. *)
LEMMA NewNodeIs ==
    ASSUME NEW t \in Tree, NEW k \in Key, NEW d \in Key \cup {Nil, Fresh}
    PROVE  NewIs(t, NewNode(t, k, d), k, d)
  <1> DEFINE c == CutOff(t, k)
             dat == [c.data EXCEPT ![k] = d]
             high == [c.high EXCEPT ![k] = EqualHigh]
             b == NewNode(t, k, d)
  <1>1. Bare(t, c, k)
    BY CutOffIs
  <1> HIDE DEF c
  <1>2. c \in Tree /\ c.data = t.data /\ c.high = t.high /\ c.root = t.root /\ c.at_nodes = t.at_nodes
    BY <1>1 DEF Bare, Same
  <1>3. dat \in [Key -> Key \cup {Nil, Fresh}] /\ high \in [Key -> {LeftHigh, EqualHigh, RightHigh}]
    BY <1>2, TreeKinds
  <1>4. b = [c EXCEPT !.data = dat, !.high = high, !.current = k]
    BY DEF NewNode, c
  <1>5. b = [at_nodes |-> c.at_nodes, root |-> c.root, current |-> k, kid |-> c.kid,
             parent |-> c.parent, high |-> high, data |-> dat]
    <2> HIDE DEF b, dat, high
    <2> QED BY <1>2, <1>4 DEF Tree
  <1>6. high[k] = EqualHigh /\ \A y \in Key \ {k} : high[y] = t.high[y]
    BY <1>2, TreeKinds
  <1> HIDE DEF b, high
  <1>7. b \in Tree
    <2>1. k \in Pointer \cup {Freed}
      BY DEF Pointer
    <2> HIDE DEF dat
    <2> QED BY <1>2, <1>3, <1>5, <2>1, TreeKinds DEF Tree
  <1>8. Stays(t, b, Key \ {k}) /\ b.parent[k] = Nil /\ (\A s \in Side : b.kid[s][k] = Nil)
    BY <1>1, <1>5, <1>6 DEF Stays, Bare
  <1>9. b.data = [t.data EXCEPT ![k] = d]
    BY <1>2, <1>5
  <1> QED BY <1>2, <1>5, <1>6, <1>7, <1>8, <1>9 DEF NewIs, b

(* The recursion on its way back: r holds the branch at its depth, with k in it. *)
Came(t, b, k, S, x, r) == \E X \in SUBSET S, j \in Nat :
    Sub(t, x, X, j) /\ Back(t, r, k, x, X, j) /\ Same(b, r.t)

(* When it is at the depth n. *)
CameTo(t, b, k, S, x, n, r) ==
    r \in Growing /\ r.depth = n /\ Came(t, b, k, S, Iterated(Descend(t, k), x, n), r)

(* The new node, *)
LEMMA CameFirst ==
    ASSUME NEW t \in Tree, NEW k \in Key, NEW d \in Key \cup {Nil, Fresh}, NEW S,
           NEW b, b = NewNode(t, k, d), NEW r, r.t = b, r.root = k, r.grew = TRUE
    PROVE  Came(t, b, k, S, Nil, r)
  <1>1. NewIs(t, b, k, d)
    BY NewNodeIs
  <1>2. Sub(t, Nil, {}, 0) /\ Sub(b, Nil, {}, 0)
    BY SubNil
  <1>3. Hangs(b, "L", k, {}, 0) /\ Hangs(b, "R", k, {}, 0)
    BY <1>1, <1>2, LeftRight DEF NewIs, Hangs, Fits
  <1>4. Joins(b, "L", k, {}, 0, {}, 0)
    BY <1>1, <1>3, LeftRight DEF Joins, NewIs, Leans
  <1>5. Sub(b, k, {} \cup {k} \cup {}, 1 + Higher(0, 0))
    BY <1>4, JoinLR
  <1>6. {} \cup {k} \cup {} = {} \cup {k} /\ 1 + Higher(0, 0) = Plus(TRUE, 0)
    BY DEF Higher, Plus
  <1>7. Back(t, r, k, Nil, {}, 0)
    BY <1>1, <1>5, <1>6 DEF Back, NewIs
  <1>8. Same(b, r.t)
    BY DEF Same
  <1> QED BY <1>2, <1>7, <1>8 DEF Came

(* and each node of the way. *)
LEMMA CameBack ==
    ASSUME NEW t \in Tree, NEW b, NEW x0, NEW S, NEW h, Sub(t, x0, S, h), NEW k \in Key \ S,
           NEW n \in Nat, NEW r, CameTo(t, b, k, S, x0, n + 1, r)
    PROVE  CameTo(t, b, k, S, x0, n, WayBack(t, x0, k)[r])
  <1> DEFINE g == WayBack(t, x0, k)[r]
             D == Descend(t, k)
             y == Iterated(D, x0, n)
             x == Iterated(D, x0, n + 1)
  <1>0. r \in Growing /\ r.depth = n + 1 /\ r.depth - 1 = n /\ r.t \in Tree /\ r.root \in Key /\ r.grew \in BOOLEAN
        /\ r = [t |-> r.t, root |-> r.root, grew |-> r.grew, depth |-> r.depth]
    BY DEF Growing, CameTo
  <1>1. OnWay(t, S, h, k, n, y)
    BY FindWay
  <1>2. x = D[y]
    BY IteratedNext
  <1>3. g = IF y = Nil THEN [r EXCEPT !.depth = @ - 1]
            ELSE LET q == Grown(r, y, Towards(k, y))
                 IN [t |-> q.t, root |-> q.root, grew |-> q.grew, depth |-> n]
    BY <1>0 DEF WayBack
  <1>4. PICK X \in SUBSET S, j \in Nat : Sub(t, x, X, j) /\ Back(t, r, k, x, X, j) /\ Same(b, r.t)
    BY DEF CameTo, Came
  <1> HIDE DEF y, x, g
  <1>5. PICK Y \in SUBSET S, i \in Nat : y \in Pointer /\ Sub(t, y, Y, i)
    BY <1>1 DEF OnWay
  <1>6. D[y] = IF y = Nil THEN Nil ELSE IF Cmp(k, y) = 0 THEN y ELSE t.kid[Towards(k, y)][y]
    BY <1>5 DEF Descend
  <1> HIDE DEF D
  <1>7. ASSUME y = Nil
        PROVE  g \in Growing /\ g.depth = n /\ Came(t, b, k, S, y, g)
    <2>1. g = [t |-> r.t, root |-> r.root, grew |-> r.grew, depth |-> n]
      BY <1>0, <1>3, <1>7
    <2>2. x = y
      BY <1>2, <1>6, <1>7
    <2>3. Back(t, g, k, y, X, j)
      BY <1>4, <2>1, <2>2 DEF Back
    <2>4. g \in Growing
      BY <1>0, <2>1 DEF Growing
    <2> QED BY <1>4, <2>1, <2>2, <2>3, <2>4 DEF Came
  <1>8. ASSUME y # Nil
        PROVE  g \in Growing /\ g.depth = n /\ Came(t, b, k, S, y, g)
    <2> DEFINE s == Towards(k, y)
               q == Grown(r, y, s)
    <2>1. y \in Key /\ k # y /\ k \notin Y
      BY <1>5, <1>8, SubTop
    <2>2. s \in Side /\ OnSide(s, k, y) /\ x = t.kid[s][y]
      BY <1>2, <1>6, <1>8, <2>1, TowardsSide
    <2>3. g = [t |-> q.t, root |-> q.root, grew |-> q.grew, depth |-> n]
      BY <1>3, <1>8
    <2> HIDE DEF s, q
    <2>4. PICK A, B \in SUBSET Key, m, e \in Nat :
              Joins(t, s, y, A, m, B, e) /\ Y = A \cup {y} \cup B /\ i = 1 + Higher(m, e)
      BY <1>5, <2>1, <2>2, Split DEF MadeOf
    <2>5. Sub(t, x, A, m)
      BY <2>2, <2>4 DEF Joins, Hangs
    <2>6. X = A /\ j = m
      BY <1>4, <2>5, SubOne
    <2>7. GrownBack(t, r, q, k, y, A, m, B, e) /\ q.grew \in BOOLEAN
      <3>1. Back(t, r, k, t.kid[s][y], A, m) /\ k \notin B
        BY <1>4, <2>1, <2>2, <2>4, <2>6
      <3> QED BY <2>1, <2>2, <2>4, <3>1, GrownGrows DEF q
    <2>8. Back(t, q, k, y, Y, i) /\ Same(r.t, q.t)
      BY <2>4, <2>7 DEF GrownBack
    <2>9. Back(t, g, k, y, Y, i) /\ Same(b, g.t)
      BY <1>4, <2>3, <2>8 DEF Back, Same
    <2>10. g \in Growing
      BY <1>0, <2>3, <2>8 DEF Growing, Back
    <2> QED BY <1>5, <2>3, <2>9, <2>10 DEF Came
  <1> QED BY <1>7, <1>8 DEF CameTo, y, g, D

(* A key that was not there is in the tree then, whose heights are right again. *)
Grew(t, r, k, d, S) ==
    /\ r.t \in Tree /\ r.root \in Key /\ (\E h \in Nat : Sub(r.t, r.root, S \cup {k}, h))
    /\ r.t.parent[r.root] = Nil /\ r.t.at_nodes = t.at_nodes /\ r.t.current = k
    /\ r.t.data = [t.data EXCEPT ![k] = d]

(* avl_insert puts k where the search for it ended, and rights the way back. *)
LEMMA Inserts ==
    ASSUME NEW t \in Tree, NEW x, NEW S, NEW h, Sub(t, x, S, h), h <= t.at_nodes,
           x # Nil => t.parent[x] = Nil, NEW k \in Key \ S, NEW d \in Key \cup {Nil, Fresh}
    PROVE  Grew(t, avl_insert(t, x, k, d), k, d, S)
  <1> DEFINE b == NewNode(t, k, d)
             N == t.at_nodes
             F == WayBack(t, x, k)
             D == Descend(t, k)
             r0 == [t |-> b, root |-> k, grew |-> TRUE, depth |-> N]
             r == Iterated(F, r0, N)
             P == [n \in Nat |-> {q \in Growing : CameTo(t, b, k, S, x, N - n, q)}]
  <1>0. N \in Nat /\ x \in Pointer /\ h \in Nat
    BY SubKinds, TreeKinds
  <1>1. avl_find_node(t, x, k) = Nil
    BY Finds
  <1>2. avl_insert(t, x, k, d) = r
    BY <1>1 DEF avl_insert, Deepest
  <1>3. NewIs(t, b, k, d)
    BY NewNodeIs
  <1> HIDE DEF b
  <1>4. r0 \in P[0]
    <2>1. r0 \in Growing
      BY <1>0, <1>3 DEF NewIs, Growing
    <2>2. Iterated(D, x, N) = Nil
      BY <1>1 DEF avl_find_node, Deepest
    <2>3. r0.t = b /\ r0.root = k /\ r0.grew = TRUE /\ r0.depth = N
      OBVIOUS
    <2> HIDE DEF r0, D
    <2>4. Came(t, b, k, S, Nil, r0)
      BY <2>3, CameFirst DEF b
    <2>5. CameTo(t, b, k, S, x, N, r0)
      BY <2>1, <2>2, <2>3, <2>4 DEF CameTo, D
    <2>6. N - 0 = N
      BY <1>0
    <2> QED BY <2>1, <2>5, <2>6
  <1>5. ASSUME NEW n \in Nat, n < N, NEW q \in P[n] PROVE F[q] \in P[n + 1]
    <2>1. q \in Growing /\ CameTo(t, b, k, S, x, N - n, q)
      BY <1>5
    <2>2. N - n = (N - (n + 1)) + 1 /\ N - (n + 1) \in Nat
      BY <1>0, <1>5
    <2>3. CameTo(t, b, k, S, x, N - (n + 1), WayBack(t, x, k)[q])
      BY <2>1, <2>2, CameBack
    <2> HIDE DEF D
    <2> QED BY <2>3 DEF CameTo
  <1> HIDE DEF P, F, r0
  <1>6. r \in P[N]
    BY <1>0, <1>4, <1>5, IteratedUpTo
  <1> HIDE DEF r
  <1>7. r \in Growing /\ r.depth = 0 /\ Came(t, b, k, S, Iterated(D, x, 0), r)
    <2>1. CameTo(t, b, k, S, x, N - N, r)
      BY <1>0, <1>6 DEF P
    <2>2. N - N = 0
      BY <1>0
    <2> QED BY <2>1, <2>2 DEF CameTo, D
  <1>8. Iterated(D, x, 0) = x
    BY IteratedNext
  <1>9. PICK X \in SUBSET S, j \in Nat : Sub(t, x, X, j) /\ Back(t, r, k, x, X, j) /\ Same(b, r.t)
    BY <1>7, <1>8 DEF Came
  <1>10. X = S /\ j = h
    BY <1>9, SubOne
  <1>11. Plus(r.grew, j) \in Nat
    BY <1>7 DEF Plus, Growing
  <1>12. Grew(t, r, k, d, S)
    BY <1>3, <1>9, <1>10, <1>11 DEF Grew, Back, NewIs, Same
  <1> QED BY <1>2, <1>12

(***************************************************************************)
(* Ends of a branch                                                        *)
(***************************************************************************)

(* The way to the end on side s: what is left behind lies on the other side. *)
OnEdge(t, S, s, h, n, y) == \E X \in SUBSET S, j \in Nat :
    /\ y \in S /\ Sub(t, y, X, j) /\ \A v \in S \ X, u \in X : OnSide(Other(s), v, u)
    /\ t.kid[s][y] = Nil \/ j + n <= h

IsEnd(t, S, s, z) ==
    z \in S /\ t.kid[s][z] = Nil /\ \A y \in S \ {z} : OnSide(Other(s), y, z)

(* avl_minimum_node and avl_maximum_node find it. *)
LEMMA OutermostEnds ==
    ASSUME NEW t \in Tree, NEW x \in Key, NEW S, NEW h, Sub(t, x, S, h), h <= t.at_nodes, NEW s \in Side
    PROVE  IsEnd(t, S, s, Outermost(t, x, s))
  <1> DEFINE F == Outwards(t, s)
             N == t.at_nodes
             z == Outermost(t, x, s)
             P == [n \in Nat |-> {y \in Key : OnEdge(t, S, s, h, n, y)}]
  <1>0. h \in Nat /\ N \in Nat /\ S \in SUBSET Key /\ x \in S /\ Nil \notin Key /\ Other(s) \in Side
        /\ Other(Other(s)) = s
    BY SubKinds, SubTop, TreeKinds, TreeAssumption, Sides
  <1>1. x \in P[0]
    <2>1. h + 0 <= h /\ S \in SUBSET S
      BY <1>0
    <2> QED BY <1>0, <2>1 DEF OnEdge
  <1>2. ASSUME NEW n \in Nat, NEW y \in P[n] PROVE F[y] \in P[n + 1]
    <2>1. y \in Key /\ y \in Pointer /\ y # Nil /\ OnEdge(t, S, s, h, n, y)
      BY <1>0, <1>2 DEF Pointer
    <2>2. F[y] = IF t.kid[s][y] = Nil THEN y ELSE t.kid[s][y]
      BY <2>1 DEF Outwards
    <2> HIDE DEF F
    <2>3. PICK X \in SUBSET S, j \in Nat :
            /\ y \in S /\ Sub(t, y, X, j) /\ \A v \in S \ X, u \in X : OnSide(Other(s), v, u)
            /\ t.kid[s][y] = Nil \/ j + n <= h
      BY <2>1 DEF OnEdge
    <2>4. CASE t.kid[s][y] = Nil
      <3>1. OnEdge(t, S, s, h, n + 1, y)
        BY <2>3, <2>4 DEF OnEdge
      <3> QED BY <2>1, <2>2, <2>4, <3>1
    <2>5. CASE t.kid[s][y] # Nil
      <3> DEFINE k == t.kid[s][y]
      <3>1. PICK A, B \in SUBSET Key, m, q \in Nat :
                Joins(t, s, y, A, m, B, q) /\ X = A \cup {y} \cup B /\ j = 1 + Higher(m, q)
        BY <2>1, <2>3, Split DEF MadeOf
      <3>2. /\ Sub(t, k, A, m)
            /\ \A v \in A : OnSide(s, v, y)
            /\ \A v \in B : OnSide(Other(s), v, y)
        BY <3>1 DEF Joins, Hangs, Fits
      <3>3. k \in A /\ k \in Key
        BY <2>5, <3>2, SubTop
      <3>4. ASSUME NEW v \in S \ A, NEW u \in A PROVE OnSide(Other(s), v, u)
        <4>1. u \in Key /\ v \in Key /\ OnSide(Other(s), y, u)
          BY <1>0, <2>1, <3>2, <3>4, Order
        <4>2. CASE v \in S \ X
          BY <2>3, <3>1, <4>2
        <4>3. CASE v = y
          BY <4>1, <4>3
        <4>4. CASE v \in B
          BY <1>0, <2>1, <3>2, <4>1, <4>4, Order
        <4> QED BY <3>1, <4>2, <4>3, <4>4
      <3>5. m + (n + 1) <= h
        <4>1. Higher(m, q) \in Nat /\ m <= Higher(m, q)
          BY HigherIs
        <4> QED BY <1>0, <2>3, <2>5, <3>1, <4>1
      <3>6. OnEdge(t, S, s, h, n + 1, k)
        <4>1. A \in SUBSET S /\ k \in S
          BY <2>3, <3>1, <3>3
        <4> QED BY <3>2, <3>4, <3>5, <4>1 DEF OnEdge
      <3>7. F[y] = k
        BY <2>2, <2>5
      <3> QED BY <3>3, <3>6, <3>7
    <2> QED BY <2>4, <2>5
  <1> HIDE DEF P, F
  <1>3. Iterated(F, x, N) \in P[N]
    BY <1>0, <1>1, <1>2, IteratedIn
  <1>4. z \in P[N]
    BY <1>3 DEF Outermost, Deepest, F
  <1> HIDE DEF z
  <1>5. PICK X \in SUBSET S, j \in Nat :
            /\ z \in S /\ Sub(t, z, X, j) /\ \A v \in S \ X, u \in X : OnSide(Other(s), v, u)
            /\ t.kid[s][z] = Nil \/ j + N <= h
    BY <1>0, <1>4 DEF P, OnEdge
  <1>6. z \in Key /\ z # Nil /\ z \in X /\ j > 0
    BY <1>0, <1>5, SubTop
  <1>7. t.kid[s][z] = Nil
    BY <1>0, <1>5, <1>6
  <1>8. PICK A, B \in SUBSET Key, m, q \in Nat : Joins(t, s, z, A, m, B, q) /\ X = A \cup {z} \cup B
    BY <1>5, <1>6, Split DEF MadeOf
  <1>9. Sub(t, Nil, A, m) /\ \A v \in B : OnSide(Other(s), v, z)
    BY <1>7, <1>8 DEF Joins, Hangs, Fits
  <1>10. A = {}
    BY <1>9, SubTop
  <1>11. \A y \in S \ {z} : OnSide(Other(s), y, z)
    BY <1>5, <1>6, <1>8, <1>9, <1>10
  <1> QED BY <1>5, <1>7, <1>11 DEF IsEnd, z

(* The way up leads to the top of the whole. *)
LEMMA TopmostIs ==
    ASSUME NEW t \in Tree, NEW r, NEW S, NEW h, Sub(t, r, S, h), h <= t.at_nodes,
           r # Nil => t.parent[r] = Nil, NEW x \in S \cup {Nil}, x = Nil => r = Nil
    PROVE  Topmost(t, x) = r
  <1> DEFINE F == Topwards(t)
             N == t.at_nodes
             P == [n \in Nat |-> {y \in Pointer : y = r \/ \E Y \in SUBSET Key, j \in Nat :
                                                            y \in S /\ Sub(t, y, Y, j) /\ j >= n + 1}]
  <1>0. h \in Nat /\ N \in Nat /\ S \in SUBSET Key /\ r \in Pointer /\ x \in Pointer /\ Nil \notin Key
    BY SubKinds, TreeKinds, TreeAssumption DEF Pointer
  <1>1. x \in P[0]
    <2>1. CASE x = Nil
      BY <1>0, <2>1
    <2>2. CASE x # Nil
      <3>1. x \in S
        BY <2>2
      <3>2. PICK Y \in SUBSET S, j \in Nat : Sub(t, x, Y, j)
        BY <3>1, SubAll
      <3>3. j >= 0 + 1
        BY <2>2, <3>2, SubTop
      <3>4. Y \in SUBSET Key
        BY <1>0
      <3> QED BY <1>0, <3>1, <3>2, <3>3, <3>4
    <2> QED BY <2>1, <2>2
  <1>2. ASSUME NEW n \in Nat, NEW y \in P[n] PROVE F[y] \in P[n + 1]
    <2>0. y \in Pointer
      BY <1>2
    <2>1. F[y] = IF y = Nil THEN Nil ELSE IF t.parent[y] = Nil THEN y ELSE t.parent[y]
      BY <2>0 DEF Topwards
    <2> HIDE DEF F
    <2>2. CASE y = r
      <3>1. F[y] = r
        BY <2>1, <2>2
      <3> QED BY <1>0, <3>1
    <2>3. CASE y # r
      <3>1. PICK Y \in SUBSET Key, j \in Nat : y \in S /\ Sub(t, y, Y, j) /\ j >= n + 1
        BY <1>2, <2>3
      <3>2. PICK p \in S, s \in Side, A, B \in SUBSET Key, m, q \in Nat :
                /\ t.parent[y] = p /\ t.kid[s][p] = y /\ Joins(t, s, p, A, m, B, q)
        BY <2>3, <3>1, SubInside DEF Inside
      <3>3. Sub(t, y, A, m) /\ p \in Key /\ y # Nil /\ p # Nil
        BY <1>0, <3>1, <3>2 DEF Joins, Hangs
      <3>4. m = j
        BY <3>1, <3>3, SubOne
      <3> DEFINE W == A \cup {p} \cup B
                 k == 1 + Higher(m, q)
      <3>5. Sub(t, p, W, k)
        BY <3>2, <3>3, Join
      <3>6. Higher(m, q) \in Nat /\ m <= Higher(m, q)
        BY HigherIs
      <3>7. W \in SUBSET Key /\ k \in Nat /\ k >= (n + 1) + 1
        BY <3>1, <3>3, <3>4, <3>6
      <3> HIDE DEF W, k
      <3>8. F[y] = p
        BY <2>1, <3>2, <3>3
      <3>9. p \in Pointer
        BY <3>3 DEF Pointer
      <3> QED BY <3>2, <3>5, <3>7, <3>8, <3>9
    <2> QED BY <2>2, <2>3
  <1> HIDE DEF P, F
  <1>3. Iterated(F, x, N) \in P[N]
    BY <1>0, <1>1, <1>2, IteratedIn
  <1> DEFINE z == Topmost(t, x)
  <1>4. z \in P[N]
    BY <1>3 DEF Topmost, Deepest, F
  <1> HIDE DEF z
  <1>5. ASSUME z # r PROVE FALSE
    <2>1. PICK Y \in SUBSET Key, j \in Nat : z \in S /\ Sub(t, z, Y, j) /\ j >= N + 1
      BY <1>0, <1>4, <1>5 DEF P
    <2>2. PICK X \in SUBSET S, k \in Nat : Sub(t, z, X, k) /\ k <= h
      BY <2>1, SubAll
    <2>3. k = j
      BY <2>1, <2>2, SubOne
    <2> QED BY <1>0, <2>1, <2>2, <2>3
  <1> QED BY <1>5 DEF z

(***************************************************************************)
(* Removal                                                                 *)
(***************************************************************************)

(* A node is the child of its parent on one side only. *)
LEMMA ChildSide ==
    ASSUME NEW t, NEW r, NEW S, NEW h, Sub(t, r, S, h), NEW p \in S
    PROVE  /\ SideOf(t, p) \in Side
           /\ \A y \in S, q \in Side : t.kid[q][y] = p => y = t.parent[p] /\ q = SideOf(t, p)
  <1>1. SideOf(t, p) \in Side
    BY LeftRight DEF SideOf
  <1>2. ASSUME NEW y \in S, NEW q \in Side, t.kid[q][y] = p PROVE y = t.parent[p] /\ q = SideOf(t, p)
    <2>0. p \in Key /\ y \in Key /\ y # Nil /\ p # Nil
      BY SubKinds, TreeAssumption
    <2>1. y = t.parent[p]
      BY <1>2, <2>0, SubKids
    <2>2. PICK Y \in SUBSET S, k \in Nat : MadeOf(t, "L", y, Y, k)
      BY SubAll
    <2>3. PICK A, B \in SUBSET Key, m, n \in Nat : Joins(t, "L", y, A, m, B, n)
      BY <2>2 DEF MadeOf
    <2>4. Apart(t, "L", y, A, m, B, n)
      BY <2>0, <2>3, LeftRight, JoinsApart
    <2>5. ~(t.kid["L"][y] = p /\ t.kid["R"][y] = p)
      BY <2>0, <2>4, LeftRight DEF Apart
    <2>6. SideOf(t, p) = IF t.kid["L"][y] = p THEN "L" ELSE "R"
      BY <2>0, <2>1 DEF SideOf, IsChild
    <2>7. q = SideOf(t, p)
      BY <1>2, <2>5, <2>6 DEF Side
    <2> QED BY <2>1, <2>7
  <1> QED BY <1>1, <1>2

(* The top of a tree is no node of a branch below it. *)
LEMMA TopOutside ==
    ASSUME NEW t, NEW p, NEW W, NEW k, Sub(t, p, W, k), NEW r \in W, r # p
    PROVE  t.parent[r] # Nil
  <1>1. t.parent[r] \in W
    BY SubInside DEF Inside
  <1> QED BY <1>1, SubKinds, TreeAssumption

(* The tree t without the node g: v, with the top z. *)
TreeWithout(t, S, g, v) == \E z \in Pointer, k \in Nat :
    /\ v \in Tree /\ Same(t, v) /\ Sub(v, z, S \ {g}, k) /\ (z # Nil => v.parent[z] = Nil)

(* The branch p of t without the node g: in v it has the top z and the height k. *)
Raised(t, g, p, W, v, z, k) ==
    /\ v \in Tree /\ Same(t, v) /\ z \in Key /\ Sub(v, z, W \ {g}, k) /\ v.parent[z] = t.parent[p]
    /\ \A y \in Key \ W : /\ v.high[y] = t.high[y] /\ v.parent[y] = t.parent[y]
                          /\ \A q \in Side : v.kid[q][y] = IF y = t.parent[p] /\ q = SideOf(t, p) THEN z
                                                           ELSE t.kid[q][y]

(* The tree t, whose top is r. *)
Rooted(t, r, S, h) == Sub(t, r, S, h) /\ t.parent[r] = Nil /\ r # Nil

(* When the height is the same, nothing is left to do. *)
LEMMA RaisedDone ==
    ASSUME NEW t, NEW r, NEW S, NEW h, Rooted(t, r, S, h), NEW p \in S, NEW W, NEW k, Sub(t, p, W, k),
           NEW g \in W, NEW v, NEW z, Raised(t, g, p, W, v, z, k)
    PROVE  TreeWithout(t, S, g, v)
  <1>0. Sub(t, r, S, h) /\ t.parent[r] = Nil /\ r \in Key /\ r \in S /\ p \in Key /\ S \in SUBSET Key /\ h \in Nat
    BY SubKinds, SubTop DEF Rooted
  <1>1. W \subseteq S
    <2>1. PICK X \in SUBSET S, j \in Nat : Sub(t, p, X, j)
      BY <1>0, SubAll
    <2>2. X = W
      BY <2>1, SubOne
    <2> QED BY <2>1, <2>2
  <1>2. p = r => W = S /\ k = h
    BY <1>0, SubOne
  <1>3. /\ v \in Tree /\ Same(t, v) /\ z \in Key /\ Sub(v, z, W \ {g}, k) /\ v.parent[z] = t.parent[p]
        /\ \A y \in Key \ W : /\ v.high[y] = t.high[y] /\ v.parent[y] = t.parent[y]
                              /\ \A q \in Side : v.kid[q][y] = IF y = t.parent[p] /\ q = SideOf(t, p) THEN z
                                                               ELSE t.kid[q][y]
    BY DEF Raised
  <1>4. CASE p = r
    <2>1. v.parent[z] = Nil /\ W = S /\ z \in Pointer /\ k \in Nat
      BY <1>0, <1>2, <1>3, <1>4 DEF Pointer
    <2> QED BY <1>3, <2>1 DEF TreeWithout
  <1>5. CASE p # r
    <2>1. \A y \in S, q \in Side : t.kid[q][y] = p => y = t.parent[p] /\ q = SideOf(t, p)
      BY <1>0, ChildSide
    <2>2. PICK y \in S, s \in Side : t.parent[p] = y /\ t.kid[s][y] = p
      BY <1>0, <1>5, SubInside DEF Inside
    <2>3. t.kid[SideOf(t, p)][t.parent[p]] = p
      BY <2>1, <2>2
    <2>4. Swaps(t, v, S \ W, p, z)
      BY <1>0, <1>3, <2>1, <2>3 DEF Swaps
    <2>5. W \ {g} \in SUBSET W
      OBVIOUS
    <2> DEFINE top == IF r = p THEN z ELSE r
    <2>6. Sub(v, top, (S \ W) \cup (W \ {g}), h)
      BY <1>0, <1>3, <2>4, <2>5, SubSwap
    <2>7. top = r /\ (S \ W) \cup (W \ {g}) = S \ {g}
      BY <1>1, <1>5
    <2> HIDE DEF top
    <2>8. Sub(v, r, S \ {g}, h)
      BY <2>6, <2>7
    <2>9. r \notin W
      BY <1>0, <1>5, TopOutside
    <2>10. v.parent[r] = Nil /\ r \in Pointer
      BY <1>0, <1>3, <2>9 DEF Pointer
    <2> QED BY <1>0, <1>3, <2>8, <2>10 DEF TreeWithout
  <1> QED BY <1>4, <1>5

(* u is t, but the branch on side s of p lost the node g and one of its height m + 1. *)
Shrunk(t, g, u, s, p, A, m, B, n) ==
    /\ p \in Key /\ s \in Side /\ g \in A /\ m \in Nat /\ Joins(t, s, p, A, m + 1, B, n)
    /\ u \in Tree /\ Same(t, u) /\ Hangs(u, s, p, A \ {g}, m) /\ Hangs(u, Other(s), p, B, n)
    /\ u.high[p] = t.high[p] /\ u.parent[p] = t.parent[p]
    /\ Stays(t, u, Key \ (A \cup {p} \cup B))

(* When the height is one less, the branch above it lost it, *)
AboveHole(t, S, g, v, s, p, k) == \E A, B \in SUBSET Key, m, n \in Nat :
    Shrunk(t, g, v, s, p, A, m, B, n) /\ p \in S /\ 1 + Higher(m + 1, n) > k

(* which is therefore no branch any more. *)
LEMMA RaisedOn ==
    ASSUME NEW t, NEW r, NEW S, NEW h, Rooted(t, r, S, h), NEW p \in S, p # r,
           NEW W, NEW m \in Nat, Sub(t, p, W, m + 1),
           NEW g \in W, NEW v, NEW z, Raised(t, g, p, W, v, z, m)
    PROVE  AboveHole(t, S, g, v, SideOf(t, p), t.parent[p], m + 1)
  <1>0. Sub(t, r, S, h) /\ p \in Key /\ p # Nil
    BY SubKinds, TreeAssumption DEF Rooted
  <1>1. PICK y \in S, s \in Side, A, B \in SUBSET Key, a, n \in Nat :
            t.parent[p] = y /\ t.kid[s][y] = p /\ Joins(t, s, y, A, a, B, n)
    BY <1>0, SubInside DEF Inside
  <1>2. s = SideOf(t, p) /\ y \in Key /\ y # Nil
    BY <1>0, <1>1, ChildSide, SubKinds, TreeAssumption
  <1>3. /\ Sub(t, p, A, a) /\ (\A x \in A : OnSide(s, x, y)) /\ Leans(t.high[y], s, a, n)
        /\ Hangs(t, Other(s), y, B, n)
    BY <1>1 DEF Joins, Hangs, Fits
  <1>4. A = W /\ a = m + 1
    BY <1>3, SubOne
  <1>5. Apart(t, s, y, A, a, B, n)
    BY <1>1, <1>2, JoinsApart
  <1>6. y \notin W /\ y \notin B /\ W \cap B = {} /\ Other(s) \in Side /\ Other(s) # s
    BY <1>4, <1>5, Sides DEF Apart
  <1>7. /\ v \in Tree /\ Same(t, v) /\ z \in Key /\ Sub(v, z, W \ {g}, m) /\ v.parent[z] = y
        /\ \A x \in Key \ W : /\ v.high[x] = t.high[x] /\ v.parent[x] = t.parent[x]
                              /\ \A q \in Side : v.kid[q][x] = IF x = y /\ q = s THEN z ELSE t.kid[q][x]
    BY <1>1, <1>2 DEF Raised
  <1>8. Hangs(v, s, y, W \ {g}, m)
    <2>1. v.kid[s][y] = z /\ \A x \in W \ {g} : OnSide(s, x, y)
      BY <1>2, <1>3, <1>4, <1>6, <1>7
    <2> QED BY <1>7, <2>1 DEF Hangs, Fits
  <1>9. Hangs(v, Other(s), y, B, n)
    <2>1. Stays(t, v, B)
      BY <1>6, <1>7 DEF Stays
    <2>2. v.kid[Other(s)][y] = t.kid[Other(s)][y]
      BY <1>2, <1>6, <1>7
    <2> QED BY <1>3, <1>6, <2>1, <2>2, HangsStay
  <1>10. Stays(t, v, Key \ (W \cup {y} \cup B))
    BY <1>7 DEF Stays
  <1>11. v.high[y] = t.high[y] /\ v.parent[y] = t.parent[y]
    BY <1>2, <1>6, <1>7
  <1>12. Shrunk(t, g, v, s, y, W, m, B, n)
    BY <1>1, <1>2, <1>4, <1>7, <1>8, <1>9, <1>10, <1>11 DEF Shrunk
  <1>13. 1 + Higher(m + 1, n) > m + 1
    BY HigherIs
  <1> QED BY <1>1, <1>2, <1>4, <1>12, <1>13 DEF AboveHole

(* and at the top nothing is left to do. *)
LEMMA RaisedTop ==
    ASSUME NEW t, NEW r, NEW S, NEW h, Rooted(t, r, S, h), NEW W, NEW m, NEW k, Sub(t, r, W, m),
           NEW g, NEW v, NEW z, Raised(t, g, r, W, v, z, k)
    PROVE  TreeWithout(t, S, g, v)
  <1>1. W = S
    BY SubOne DEF Rooted
  <1>2. k \in Nat /\ z \in Pointer /\ Sub(v, z, S \ {g}, k) /\ v.parent[z] = Nil /\ v \in Tree /\ Same(t, v)
    BY <1>1, SubKinds DEF Raised, Rooted
  <1> QED BY <1>2 DEF TreeWithout

(* The branch of p, after it was mended and linked again. *)
LEMMA Raises ==
    ASSUME NEW t, NEW r, NEW S, NEW h, Rooted(t, r, S, h), NEW p \in S,
           NEW g, NEW u, NEW s, NEW A, NEW m, NEW B, NEW n, Shrunk(t, g, u, s, p, A, m, B, n),
           NEW v0, NEW z, NEW k, Topped(u, v0, p, z, (A \ {g}) \cup {p} \cup B, k),
           NEW v, (z = p /\ v = v0) \/ KidIs(v0, v, SideOf(t, p), t.parent[p], z)
    PROVE  Raised(t, g, p, A \cup {p} \cup B, v, z, k)
  <1> DEFINE W == A \cup {p} \cup B
             pp == t.parent[p]
             side == SideOf(t, p)
  <1>0. /\ p \in Key /\ s \in Side /\ g \in A /\ m \in Nat /\ Joins(t, s, p, A, m + 1, B, n)
        /\ Same(t, u) /\ u.parent[p] = t.parent[p] /\ Stays(t, u, Key \ W)
    BY DEF Shrunk
  <1>1. /\ v0 \in Tree /\ Same(u, v0) /\ Sub(v0, z, (A \ {g}) \cup {p} \cup B, k)
        /\ z \in (A \ {g}) \cup {p} \cup B
        /\ v0.parent[z] = pp /\ Stays(u, v0, Key \ ((A \ {g}) \cup {p} \cup B))
    BY <1>0 DEF Topped
  <1>2. Apart(t, s, p, A, m + 1, B, n)
    BY <1>0, JoinsApart
  <1>3. /\ A \in SUBSET Key /\ B \in SUBSET Key /\ p \notin A /\ p \notin B /\ A \cap B = {}
        /\ (A \ {g}) \cup {p} \cup B = W \ {g}
    BY <1>0, <1>2 DEF Apart
  <1>4. Sub(t, p, W, 1 + Higher(m + 1, n))
    BY <1>0, Join
  <1>5. pp \notin W /\ (pp # Nil => t.kid[side][pp] = p) /\ side \in Side
    <2>0. side \in Side
      BY ChildSide DEF Rooted
    <2>1. CASE p = r
      <3>1. pp = Nil
        BY <2>1 DEF Rooted
      <3> QED BY <1>0, <1>3, <2>0, <3>1, TreeAssumption
    <2>2. CASE p # r
      <3>1. PICK y \in S, q \in Side, A1, B1 \in SUBSET Key, m1, n1 \in Nat :
                t.parent[p] = y /\ t.kid[q][y] = p /\ Joins(t, q, y, A1, m1, B1, n1)
        BY <2>2, SubInside DEF Inside, Rooted
      <3>2. y \in Key
        BY SubKinds DEF Rooted
      <3>3. Sub(t, p, A1, m1)
        BY <3>1 DEF Joins, Hangs
      <3>4. A1 = W
        BY <1>4, <3>3, SubOne
      <3>5. y \notin W
        <4>1. Apart(t, q, y, A1, m1, B1, n1)
          BY <3>1, <3>2, JoinsApart
        <4> QED BY <3>4, <4>1 DEF Apart
      <3>6. q = side
        BY <3>1, ChildSide DEF Rooted
      <3> QED BY <2>0, <3>1, <3>5, <3>6
    <2> QED BY <2>1, <2>2
  <1> HIDE DEF side
  <1>6. KidIs(v0, v, side, pp, z)
    <2>1. CASE z = p /\ v = v0
      <3>1. pp \in Key => v0.kid[side][pp] = p
        BY <1>0, <1>1, <1>3, <1>5, TreeAssumption DEF Stays
      <3> QED BY <1>1, <2>1, <3>1 DEF KidIs, Same
    <2> QED BY <2>1 DEF side
  <1>7. /\ v \in Tree /\ Same(v0, v) /\ v.parent = v0.parent /\ v.high = v0.high
        /\ \A q \in Side, y \in Key : v.kid[q][y] = IF q = side /\ y = pp THEN z ELSE v0.kid[q][y]
    BY <1>6 DEF KidIs
  <1>8. Sub(v, z, W \ {g}, k)
    <2>1. Keeps(v0, v, z, W \ {g})
      BY <1>0, <1>3, <1>5, <1>7 DEF Keeps
    <2> QED BY <1>1, <1>3, <2>1, SubFrame
  <1>9. Same(t, v)
    BY <1>0, <1>1, <1>7 DEF Same
  <1>10. z \in Key /\ v.parent[z] = pp
    BY <1>0, <1>1, <1>3, <1>7
  <1>11. \A y \in Key \ W : /\ v.high[y] = t.high[y] /\ v.parent[y] = t.parent[y]
                            /\ \A q \in Side : v.kid[q][y] = IF y = pp /\ q = side THEN z ELSE t.kid[q][y]
    <2>1. Stays(t, u, Key \ W) /\ Stays(u, v0, Key \ (W \ {g}))
      BY <1>0, <1>1, <1>3
    <2> HIDE DEF W, pp
    <2> QED BY <1>7, <2>1 DEF Stays
  <1> QED BY <1>7, <1>8, <1>9, <1>10, <1>11 DEF Raised, side

(* Its balance was set, and that is all. *)
LEMMA LevelsOut ==
    ASSUME NEW t, NEW g, NEW u, NEW s, NEW p, NEW A, NEW m, NEW B, NEW n, Shrunk(t, g, u, s, p, A, m, B, n),
           NEW v \in {LeftHigh, EqualHigh, RightHigh}, Leans(v, s, m, n)
    PROVE  Topped(u, SetHigh(u, p, v), p, p, (A \ {g}) \cup {p} \cup B, 1 + Higher(m, n))
  <1> DEFINE w == SetHigh(u, p, v)
             D == A \ {g}
  <1>0. /\ p \in Key /\ s \in Side /\ m \in Nat /\ Joins(t, s, p, A, m + 1, B, n)
        /\ u \in Tree /\ Hangs(u, s, p, D, m) /\ Hangs(u, Other(s), p, B, n)
    BY DEF Shrunk
  <1>1. HighIs(u, w, p, v)
    BY <1>0, HighSet
  <1> HIDE DEF w
  <1>2. w \in Tree /\ Same(u, w) /\ w.kid = u.kid /\ w.parent = u.parent
        /\ \A y \in Key : w.high[y] = IF y = p THEN v ELSE u.high[y]
    BY <1>1 DEF HighIs
  <1>3. Apart(t, s, p, A, m + 1, B, n)
    BY <1>0, JoinsApart
  <1>4. D \in SUBSET Key /\ B \in SUBSET Key /\ p \notin D /\ p \notin B /\ Other(s) \in Side
    BY <1>0, <1>3, Sides DEF Apart
  <1>5. Stays(u, w, D) /\ Stays(u, w, B)
    BY <1>2, <1>4 DEF Stays
  <1>6. Hangs(w, s, p, D, m) /\ Hangs(w, Other(s), p, B, n)
    BY <1>0, <1>2, <1>4, <1>5, HangsStay
  <1>7. Joins(w, s, p, D, m, B, n)
    BY <1>0, <1>2, <1>6 DEF Joins
  <1>8. Sub(w, p, D \cup {p} \cup B, 1 + Higher(m, n))
    BY <1>0, <1>7, Join
  <1>9. Stays(u, w, Key \ (D \cup {p} \cup B))
    BY <1>2 DEF Stays
  <1> QED BY <1>2, <1>8, <1>9 DEF Topped, w

(* The heights, before and after the branch on side s lost one. *)
LEMMA HeightsLost ==
    ASSUME NEW s \in Side, NEW m \in Nat, NEW n \in Nat, NEW v, Leans(v, s, m + 1, n)
    PROVE  /\ Higher(m + 1, n) \in Nat
           /\ v = HighTo(s) => Leans(EqualHigh, s, m, n) /\ 1 + Higher(m, n) = m + 1 /\ 1 + Higher(m + 1, n) = (m + 1) + 1
           /\ v = EqualHigh => Leans(HighTo(Other(s)), s, m, n) /\ 1 + Higher(m, n) = 1 + Higher(m + 1, n)
           /\ v = HighTo(Other(s)) => n = m + 2 /\ 1 + Higher(m + 1, n) = m + 3 /\ m + 3 = (m + 2) + 1
           /\ v = HighTo(s) \/ v = EqualHigh \/ v = HighTo(Other(s))
  <1>1. HighTo(s) # HighTo(Other(s)) /\ EqualHigh # HighTo(s) /\ EqualHigh # HighTo(Other(s))
    BY Sides
  <1> QED BY <1>1 DEF Leans, Higher

(* The loop of avl_rem_fix_up_left and avl_rem_fix_up_right, after k rounds: it was left, or
   the branch of p lost one of its height. *)
Mending(t, S, g, f, k) ==
    /\ f \in Fixing
    /\ IF f.p = Nil THEN TreeWithout(t, S, g, f.t) ELSE AboveHole(t, S, g, f.t, Other(f.s), f.p, k)

(* The branch is as high as it was, and the loop is left, *)
LEMMA FixLeft ==
    ASSUME NEW t, NEW r, NEW S, NEW h, Rooted(t, r, S, h), NEW p \in S, NEW W, NEW k, Sub(t, p, W, k),
           NEW g \in W, NEW v, NEW z, Raised(t, g, p, W, v, z, k), NEW q \in Side, NEW i
    PROVE  Mending(t, S, g, [t |-> v, p |-> Nil, s |-> q], i)
  <1> DEFINE e == [t |-> v, p |-> Nil, s |-> q]
  <1>1. TreeWithout(t, S, g, v)
    BY RaisedDone
  <1>2. v \in Tree
    BY DEF Raised
  <1>3. e \in Fixing
    BY <1>2 DEF Fixing, Pointer
  <1> QED BY <1>1, <1>3 DEF Mending

(* or it is lower by one, and the loop goes on with the parent. *)
LEMMA FixOn ==
    ASSUME NEW t \in Tree, NEW r, NEW S, NEW h, Rooted(t, r, S, h), NEW p \in S, NEW W, NEW m \in Nat,
           Sub(t, p, W, m + 1), NEW g \in W, NEW v, NEW z, Raised(t, g, p, W, v, z, m),
           NEW i \in Nat, m + 1 >= i + 1
    PROVE  Mending(t, S, g, [t |-> v, p |-> t.parent[p], s |-> Other(SideOf(t, p))], i + 1)
  <1> DEFINE pp == t.parent[p]  side == SideOf(t, p)
             e == [t |-> v, p |-> pp, s |-> Other(side)]
  <1>0. p \in Key /\ side \in Side /\ pp \in Pointer /\ v \in Tree
    BY ChildSide, SubKinds, TreeKinds DEF Rooted, Raised
  <1>1. Other(side) \in Side /\ Other(Other(side)) = side
    BY <1>0, Sides
  <1>2. e \in Fixing
    BY <1>0, <1>1 DEF Fixing
  <1>3. CASE p = r
    <2>1. pp = Nil /\ TreeWithout(t, S, g, v)
      BY <1>3, RaisedTop DEF Rooted
    <2> HIDE DEF pp, side
    <2> QED BY <1>2, <2>1 DEF Mending, pp, side
  <1>4. CASE p # r
    <2>1. AboveHole(t, S, g, v, side, pp, m + 1)
      BY <1>4, RaisedOn
    <2>2. PICK A, B \in SUBSET Key, a, n \in Nat :
              Shrunk(t, g, v, side, pp, A, a, B, n) /\ pp \in S /\ 1 + Higher(a + 1, n) > m + 1
      BY <2>1 DEF AboveHole
    <2>3. Higher(a + 1, n) \in Nat
      BY <2>2, HigherIs
    <2>4. 1 + Higher(a + 1, n) > i + 1
      BY <2>2, <2>3
    <2>5. AboveHole(t, S, g, v, side, pp, i + 1) /\ pp # Nil
      BY <2>2, <2>4, TreeAssumption DEF AboveHole, Shrunk
    <2> HIDE DEF pp, side
    <2> QED BY <1>1, <1>2, <2>5 DEF Mending, pp, side
  <1> QED BY <1>3, <1>4

(* One round. *)
LEMMA FixRoundMends ==
    ASSUME NEW t \in Tree, NEW r, NEW S, NEW h, Rooted(t, r, S, h), NEW g,
           NEW f, NEW i \in Nat, Mending(t, S, g, f, i)
    PROVE  Mending(t, S, g, FixRound[f], i + 1)
  <1> DEFINE u == f.t  p == f.p  s == Other(f.s)
             pp == u.parent[p]  side == SideOf(u, p)  q == u.kid[Other(s)][p]
             Done(x) == [t |-> x, p |-> Nil, s |-> f.s]
             Falls(x) == [t |-> x, p |-> pp, s |-> Other(side)]
  <1>0. f \in Fixing /\ u \in Tree /\ p \in Pointer /\ f.s \in Side /\ s \in Side /\ Other(s) = f.s
    BY Sides DEF Mending, Fixing
  <1>1. FixRound[f] = IF p = Nil THEN f
           ELSE IF u.high[p] = HighTo(s) THEN Falls(SetHigh(u, p, EqualHigh))
           ELSE IF u.high[p] = EqualHigh THEN Done(SetHigh(u, p, HighTo(Other(s))))
           ELSE IF u.high[q] = EqualHigh
           THEN Done(Attach(Rotate(SetHigh(u, q, HighTo(s)), p, s), pp, side, q))
           ELSE IF u.high[q] = HighTo(Other(s)) THEN Falls(Attach(RotateOnce(u, p, Other(s)), pp, side, q))
           ELSE Falls(Attach(RotateTwice(u, p, Other(s)), pp, side, u.kid[s][q]))
    BY <1>0 DEF FixRound
  <1>2. CASE p = Nil
    <2>1. FixRound[f] = f /\ TreeWithout(t, S, g, f.t)
      BY <1>1, <1>2 DEF Mending
    <2> QED BY <1>0, <1>2, <2>1 DEF Mending
  <1>3. CASE p # Nil
    <2>0. AboveHole(t, S, g, u, s, p, i)
      BY <1>3 DEF Mending
    <2> HIDE DEF u, p, s
    <2>1. PICK A, B \in SUBSET Key, m, n \in Nat :
              Shrunk(t, g, u, s, p, A, m, B, n) /\ p \in S /\ 1 + Higher(m + 1, n) > i
      BY <2>0 DEF AboveHole
    <2> DEFINE W == A \cup {p} \cup B
               D == A \ {g}
               H == 1 + Higher(m + 1, n)
    <2>2. /\ p \in Key /\ g \in A /\ Joins(t, s, p, A, m + 1, B, n)
          /\ Hangs(u, s, p, D, m) /\ Hangs(u, Other(s), p, B, n)
          /\ u.high[p] = t.high[p] /\ u.parent[p] = t.parent[p]
          /\ Stays(t, u, Key \ W)
      BY <2>1 DEF Shrunk
    <2>3. Sub(t, p, W, H) /\ g \in W /\ Leans(t.high[p], s, m + 1, n) /\ W \in SUBSET Key
      BY <1>0, <2>2, Join DEF Joins
    <2>4. pp = t.parent[p] /\ side = SideOf(t, p)
      <3>1. CASE p = r
        <4>1. t.parent[p] = Nil
          BY <3>1 DEF Rooted
        <4> QED BY <2>2, <4>1 DEF SideOf, IsChild
      <3>2. CASE p # r
        <4>1. PICK y \in S, a \in Side, A1, B1 \in SUBSET Key, m1, n1 \in Nat :
                  t.parent[p] = y /\ t.kid[a][y] = p /\ Joins(t, a, y, A1, m1, B1, n1)
          BY <2>1, <3>2, SubInside DEF Inside, Rooted
        <4>2. y \in Key
          BY SubKinds DEF Rooted
        <4>3. Sub(t, p, A1, m1)
          BY <4>1 DEF Joins, Hangs
        <4>4. A1 = W
          BY <2>3, <4>3, SubOne
        <4>5. y \in Key \ W
          <5>1. Apart(t, a, y, A1, m1, B1, n1)
            BY <4>1, <4>2, JoinsApart
          <5> QED BY <4>2, <4>4, <5>1 DEF Apart
        <4>6. u.kid["L"][y] = t.kid["L"][y]
          BY <2>2, <4>5, LeftRight DEF Stays
        <4> QED BY <2>2, <4>1, <4>6 DEF SideOf, IsChild
      <3> QED BY <3>1, <3>2
    <2>5. side \in Side /\ pp \in Pointer
      BY <2>1, <2>2, <2>4, ChildSide, TreeKinds DEF Rooted
    <2>6. q \in Pointer /\ Other(s) \in Side /\ HighTo(s) \in {LeftHigh, EqualHigh, RightHigh}
          /\ HighTo(Other(s)) \in {LeftHigh, EqualHigh, RightHigh} /\ Other(Other(s)) = s
          /\ EqualHigh \in {LeftHigh, EqualHigh, RightHigh}
          /\ EqualHigh # HighTo(s) /\ EqualHigh # HighTo(Other(s)) /\ HighTo(Other(s)) # HighTo(s)
      BY <1>0, <2>2, Sides, TreeKinds
    <2> HIDE DEF pp, side, W, D
    <2>7. /\ Higher(m + 1, n) \in Nat
          /\ u.high[p] = HighTo(s) => Leans(EqualHigh, s, m, n) /\ 1 + Higher(m, n) = m + 1 /\ H = (m + 1) + 1
          /\ u.high[p] = EqualHigh => Leans(HighTo(Other(s)), s, m, n) /\ 1 + Higher(m, n) = H
          /\ u.high[p] = HighTo(Other(s)) => n = m + 2 /\ H = m + 3 /\ m + 3 = (m + 2) + 1
          /\ u.high[p] = HighTo(s) \/ u.high[p] = EqualHigh \/ u.high[p] = HighTo(Other(s))
      BY <1>0, <2>2, <2>3, HeightsLost
    <2> HIDE DEF H
    <2>8. ASSUME NEW v0, NEW z, NEW k, Topped(u, v0, p, z, D \cup {p} \cup B, k),
                 NEW v, (z = p /\ v = v0) \/ KidIs(v0, v, side, pp, z)
          PROVE  Raised(t, g, p, W, v, z, k)
      BY <2>1, <2>4, <2>8, Raises DEF W, D
    <2>9. ASSUME NEW v, NEW z, Raised(t, g, p, W, v, z, H)
          PROVE  Mending(t, S, g, Done(v), i + 1)
      BY <1>0, <2>1, <2>3, <2>9, FixLeft
    <2>10. ASSUME NEW v, NEW z, NEW k \in Nat, H = k + 1, Raised(t, g, p, W, v, z, k)
           PROVE  Mending(t, S, g, Falls(v), i + 1)
      <3>1. Sub(t, p, W, k + 1) /\ k + 1 >= i + 1
        BY <2>1, <2>3, <2>10 DEF H
      <3> QED BY <2>1, <2>3, <2>4, <2>10, <3>1, FixOn
    <2>11. ASSUME NEW v0, NEW z, NEW k, Topped(u, v0, p, z, D \cup {p} \cup B, k), z \in Key
           PROVE  Raised(t, g, p, W, Attach(v0, pp, side, z), z, k)
      <3>1. v0 \in Tree /\ z \in Pointer
        BY <2>11 DEF Topped, Pointer
      <3>2. KidIs(v0, Attach(v0, pp, side, z), side, pp, z)
        BY <2>5, <3>1, AttachIs
      <3> QED BY <2>8, <2>11, <3>2
    <2>12. CASE u.high[p] = HighTo(s)
      <3> DEFINE v == SetHigh(u, p, EqualHigh)
      <3>0. Leans(EqualHigh, s, m, n) /\ 1 + Higher(m, n) = m + 1
        BY <2>7, <2>12
      <3>1. Topped(u, v, p, p, D \cup {p} \cup B, 1 + Higher(m, n))
        BY <2>1, <2>6, <3>0, LevelsOut DEF D
      <3> HIDE DEF v
      <3>2. Raised(t, g, p, W, v, p, m + 1)
        BY <2>8, <3>0, <3>1
      <3>3. Mending(t, S, g, Falls(v), i + 1)
        BY <2>7, <2>10, <2>12, <3>2
      <3> QED BY <1>1, <1>3, <2>12, <3>3 DEF v
    <2>13. CASE u.high[p] = EqualHigh
      <3> DEFINE v == SetHigh(u, p, HighTo(Other(s)))
      <3>1. Topped(u, v, p, p, D \cup {p} \cup B, H)
        BY <2>1, <2>6, <2>7, <2>13, LevelsOut DEF D
      <3> HIDE DEF v
      <3>2. Raised(t, g, p, W, v, p, H)
        BY <2>8, <3>1
      <3>3. Mending(t, S, g, Done(v), i + 1)
        BY <2>9, <3>2
      <3> QED BY <1>1, <1>3, <2>6, <2>13, <3>3 DEF v
    <2>14. CASE u.high[p] = HighTo(Other(s))
      <3>0. n = m + 2 /\ H = m + 3 /\ H = (m + 2) + 1 /\ B \cup {p} \cup D = D \cup {p} \cup B
            /\ u.high[p] # HighTo(s) /\ u.high[p] # EqualHigh
        BY <2>6, <2>7, <2>14
      <3>1. Hangs(u, Other(s), p, B, m + 2) /\ Hangs(u, Other(Other(s)), p, D, m)
        BY <2>2, <2>6, <3>0
      <3>2. CASE u.high[q] = EqualHigh
        <4> DEFINE v0 == Rotate(SetHigh(u, q, HighTo(Other(Other(s)))), p, Other(Other(s)))
        <4>1. Topped(u, v0, p, q, B \cup {p} \cup D, m + 3)
          BY <1>0, <2>2, <2>6, <2>14, <3>1, <3>2, LevelTops
        <4>2. v0 = Rotate(SetHigh(u, q, HighTo(s)), p, s)
          BY <2>6
        <4> HIDE DEF v0, q
        <4>3. q \in Key
          BY <2>2, <4>1 DEF Topped, D
        <4>4. Raised(t, g, p, W, Attach(v0, pp, side, q), q, H)
          BY <2>11, <3>0, <4>1, <4>3
        <4>5. Mending(t, S, g, Done(Attach(v0, pp, side, q)), i + 1)
          BY <2>9, <4>4
        <4> QED BY <1>1, <1>3, <3>0, <3>2, <4>2, <4>5
      <3>3. CASE u.high[q] = HighTo(Other(s))
        <4> DEFINE v0 == RotateOnce(u, p, Other(s))
        <4>1. Topped(u, v0, p, q, B \cup {p} \cup D, m + 2)
          BY <1>0, <2>2, <2>6, <2>14, <3>1, <3>3, OnceTops
        <4> HIDE DEF v0, q
        <4>3. q \in Key
          BY <2>2, <4>1 DEF Topped, D
        <4>4. Raised(t, g, p, W, Attach(v0, pp, side, q), q, m + 2)
          BY <2>11, <3>0, <4>1, <4>3
        <4>5. Mending(t, S, g, Falls(Attach(v0, pp, side, q)), i + 1)
          BY <2>10, <3>0, <4>4
        <4> QED BY <1>1, <1>3, <2>6, <3>0, <3>3, <4>5 DEF v0
      <3>4. CASE u.high[q] # EqualHigh /\ u.high[q] # HighTo(Other(s))
        <4> DEFINE v0 == RotateTwice(u, p, Other(s))
                   w == u.kid[s][q]
        <4>1. q \in Key
          <5>1. m + 2 # 0
            OBVIOUS
          <5> QED BY <1>0, <2>2, <2>6, <3>1, <5>1, Bend
        <4>2. u.high[q] \in {LeftHigh, EqualHigh, RightHigh}
          BY <1>0, <4>1, TreeKinds
        <4>3. u.high[q] = HighTo(s)
          BY <1>0, <2>6, <3>4, <4>2 DEF HighTo, Other, Side
        <4>4. u.high[q] = HighTo(Other(Other(s))) /\ w = u.kid[Other(Other(s))][q]
          BY <2>6, <4>3
        <4>5. Topped(u, v0, p, w, B \cup {p} \cup D, m + 2)
          BY <1>0, <2>2, <2>6, <2>14, <3>1, <4>4, TwiceTops
        <4> HIDE DEF v0, q, w
        <4>6. w \in Key
          BY <2>2, <4>5 DEF Topped, D
        <4>7. Raised(t, g, p, W, Attach(v0, pp, side, w), w, m + 2)
          BY <2>11, <3>0, <4>5, <4>6
        <4>8. Mending(t, S, g, Falls(Attach(v0, pp, side, w)), i + 1)
          BY <2>10, <3>0, <4>7
        <4> QED BY <1>1, <1>3, <3>0, <3>4, <4>8 DEF v0, w
      <3> QED BY <3>2, <3>3, <3>4
    <2> QED BY <2>7, <2>12, <2>13, <2>14
  <1> QED BY <1>2, <1>3

(* avl_rem_fix_up_left and avl_rem_fix_up_right: the tree is one again. *)
LEMMA FixUpMends ==
    ASSUME NEW t \in Tree, NEW r, NEW S, NEW h, Rooted(t, r, S, h), h <= t.at_nodes, NEW g,
           NEW u, NEW s \in Side, NEW p, AboveHole(t, S, g, u, s, p, 0)
    PROVE  TreeWithout(t, S, g, FixUp(u, p, Other(s)))
  <1> DEFINE P == [n \in Nat |-> {f \in Fixing : Mending(t, S, g, f, n)}]
             f0 == [t |-> u, p |-> p, s |-> Other(s)]
             N == u.at_nodes
             e == Iterated(FixRound, f0, N)
  <1>0. PICK A, B \in SUBSET Key, m, n \in Nat : Shrunk(t, g, u, s, p, A, m, B, n) /\ p \in S
    BY DEF AboveHole
  <1>1. p \in Key /\ u \in Tree /\ N = t.at_nodes /\ N \in Nat /\ Other(s) \in Side /\ Other(Other(s)) = s
    BY <1>0, Sides, TreeKinds DEF Shrunk, Same
  <1>2. f0 \in P[0]
    <2>1. f0 \in Fixing
      BY <1>1 DEF Fixing, Pointer
    <2>2. Mending(t, S, g, f0, 0)
      BY <1>1, <2>1, TreeAssumption DEF Mending
    <2> QED BY <2>1, <2>2
  <1>3. ASSUME NEW i \in Nat, NEW f \in P[i] PROVE FixRound[f] \in P[i + 1]
    <2>1. Mending(t, S, g, FixRound[f], i + 1)
      BY <1>3, FixRoundMends
    <2>2. FixRound[f] \in Fixing /\ i + 1 \in Nat
      BY <2>1 DEF Mending
    <2> QED BY <2>1, <2>2
  <1> HIDE DEF P, f0, N
  <1>4. e \in P[N]
    BY <1>1, <1>2, <1>3, IteratedIn
  <1>5. Mending(t, S, g, e, N)
    BY <1>1, <1>4 DEF P
  <1>6. FixUp(u, p, Other(s)) = e.t
    BY DEF FixUp, Deepest, f0, N
  <1> HIDE DEF e
  <1>7. ASSUME e.p # Nil PROVE FALSE
    <2>1. AboveHole(t, S, g, e.t, Other(e.s), e.p, N)
      BY <1>5, <1>7 DEF Mending
    <2>2. PICK A1, B1 \in SUBSET Key, m1, n1 \in Nat :
              Shrunk(t, g, e.t, Other(e.s), e.p, A1, m1, B1, n1) /\ e.p \in S /\ 1 + Higher(m1 + 1, n1) > N
      BY <2>1 DEF AboveHole
    <2>3. Sub(t, e.p, A1 \cup {e.p} \cup B1, 1 + Higher(m1 + 1, n1))
      BY <2>2, Join DEF Shrunk
    <2>4. PICK Y \in SUBSET S, k \in Nat : Sub(t, e.p, Y, k) /\ k <= h
      BY <2>2, SubAll DEF Rooted
    <2>5. k = 1 + Higher(m1 + 1, n1)
      BY <2>3, <2>4, SubOne
    <2>6. h \in Nat
      BY SubKinds DEF Rooted
    <2> QED BY <1>1, <2>2, <2>4, <2>5, <2>6
  <1> QED BY <1>5, <1>6, <1>7 DEF Mending

(* A node of the tree t with at most one child, and what hangs below it. *)
Single(t, g, C, c, j) ==
    /\ g \in Key /\ C \in SUBSET Key /\ j \in Nat /\ c \in C \cup {Nil} /\ g \notin C
    /\ Sub(t, c, C, j) /\ Sub(t, g, {g} \cup C, j + 1)
    /\ (C = {} => c = Nil) /\ (c = Nil => C = {})
OnlyChild(t, g) == IF t.kid["L"][g] # Nil THEN t.kid["L"][g] ELSE t.kid["R"][g]

(* Such is a node that has no child on some side. *)
LEMMA SingleIs ==
    ASSUME NEW t, NEW r, NEW S, NEW h, Sub(t, r, S, h), NEW g \in S, NEW a \in Side, t.kid[a][g] = Nil
    PROVE  \E C \in SUBSET S, j \in Nat : Single(t, g, C, OnlyChild(t, g), j)
  <1>0. g \in Key /\ g # Nil /\ Other(a) \in Side /\ S \in SUBSET Key
    BY SubKinds, TreeAssumption, Sides
  <1>1. PICK Y \in SUBSET S, k \in Nat : Sub(t, g, Y, k)
    BY SubAll
  <1>2. PICK A, C \in SUBSET Key, m, j \in Nat :
            Joins(t, a, g, A, m, C, j) /\ Y = A \cup {g} \cup C /\ k = 1 + Higher(m, j)
    BY <1>0, <1>1, Split DEF MadeOf
  <1> DEFINE c == t.kid[Other(a)][g]
  <1>3. Sub(t, Nil, A, m) /\ Sub(t, c, C, j)
    BY <1>2 DEF Joins, Hangs
  <1>4. A = {} /\ m = 0
    BY <1>3, SubTop
  <1>5. g \notin C
    BY <1>0, <1>2, JoinsApart DEF Apart
  <1>6. Higher(m, j) = j
    BY <1>4 DEF Higher
  <1>7. Y = {g} \cup C /\ k = j + 1
    BY <1>2, <1>4, <1>6
  <1>8. c \in C \cup {Nil} /\ (C = {} => c = Nil) /\ (c = Nil => C = {})
    BY <1>3, SubTop
  <1>9. OnlyChild(t, g) = c
    <2>1. CASE a = "L"
      BY <2>1, LeftRight DEF OnlyChild
    <2>2. CASE a = "R"
      BY <2>2, LeftRight DEF OnlyChild
    <2> QED BY <2>1, <2>2 DEF Side
  <1>10. Single(t, g, C, c, j)
    BY <1>0, <1>1, <1>3, <1>5, <1>7, <1>8 DEF Single
  <1>11. C \in SUBSET S
    BY <1>1, <1>2
  <1> QED BY <1>9, <1>10, <1>11

(* BIND takes it out. *)
LEMMA BindsOut ==
    ASSUME NEW t \in Tree, NEW r, NEW S, NEW h, Rooted(t, r, S, h), h <= t.at_nodes,
           NEW g \in S, NEW C, NEW c, NEW j, Single(t, g, C, c, j)
    PROVE  TreeWithout(t, S, g, Bind(t, g, c))
  <1> DEFINE p == t.parent[g]
             side == SideOf(t, g)
             v == SetParent(t, c, p)
             u == Attach(v, p, side, c)
  <1>0. /\ g \in Key /\ C \in SUBSET Key /\ j \in Nat /\ c \in C \cup {Nil} /\ g \notin C
        /\ Sub(t, c, C, j) /\ Sub(t, g, {g} \cup C, j + 1) /\ (c = Nil => C = {})
    BY DEF Single
  <1>1. p \in Pointer /\ c \in Pointer /\ side \in Side
    BY <1>0, ChildSide, TreeKinds DEF Rooted, Pointer
  <1> HIDE DEF p, side
  <1>2. ParentIs(t, v, c, p)
    BY <1>1, SetParentIs
  <1> HIDE DEF v
  <1>3. v \in Tree /\ Same(t, v) /\ v.kid = t.kid /\ v.high = t.high
        /\ \A y \in Key : v.parent[y] = IF y = c THEN p ELSE t.parent[y]
    BY <1>2 DEF ParentIs
  <1>4. Bind(t, g, c) = IF p = Nil THEN v ELSE FixUp(u, p, Other(side))
    BY DEF Bind, p, side, v, u
  <1>5. CASE p = Nil
    <2>1. g = r
      BY <1>0, <1>5, SubInside, SubKinds, TreeAssumption DEF Inside, Rooted, p
    <2>2. S = {g} \cup C
      BY <1>0, <2>1, SubOne DEF Rooted
    <2>3. S \ {g} = C
      BY <1>0, <2>2
    <2>4. Keeps(t, v, c, C)
      BY <1>0, <1>3 DEF Keeps
    <2>5. Sub(v, c, C, j)
      BY <1>0, <2>4, SubFrame
    <2>6. c # Nil => v.parent[c] = Nil
      BY <1>0, <1>3, <1>5
    <2>7. TreeWithout(t, S, g, v)
      BY <1>0, <1>1, <1>3, <2>3, <2>5, <2>6 DEF TreeWithout
    <2> QED BY <1>4, <1>5, <2>7
  <1>6. CASE p # Nil
    <2>1. g # r
      BY <1>6 DEF Rooted, p
    <2>2. PICK y \in S, s \in Side, A, B \in SUBSET Key, m, n \in Nat :
              t.parent[g] = y /\ t.kid[s][y] = g /\ Joins(t, s, y, A, m, B, n)
      BY <2>1, SubInside DEF Inside, Rooted
    <2>3. y = p /\ s = side /\ p \in Key
      BY <1>1, <1>6, <2>2, ChildSide DEF Rooted, p, side, Pointer
    <2>4. /\ Joins(t, side, p, A, m, B, n) /\ Sub(t, g, A, m) /\ Hangs(t, Other(side), p, B, n)
          /\ \A x \in A : OnSide(side, x, p)
      BY <2>2, <2>3 DEF Joins, Hangs, Fits
    <2>5. A = {g} \cup C /\ m = j + 1
      BY <1>0, <2>4, SubOne
    <2>6. p \notin A /\ p \notin B /\ A \cap B = {} /\ Other(side) \in Side /\ Other(side) # side
      <3>1. Apart(t, side, p, A, m, B, n)
        BY <1>1, <2>3, <2>4, JoinsApart
      <3>2. Other(side) \in Side /\ Other(side) # side
        BY <1>1, Sides
      <3> QED BY <3>1, <3>2 DEF Apart
    <2>7. KidIs(v, u, side, p, c)
      BY <1>1, <1>3, AttachIs
    <2> HIDE DEF u
    <2>8. u \in Tree /\ Same(v, u) /\ u.parent = v.parent /\ u.high = v.high
          /\ \A q \in Side, x \in Key : u.kid[q][x] = IF q = side /\ x = p THEN c ELSE v.kid[q][x]
      BY <2>7 DEF KidIs
    <2>9. Hangs(u, side, p, A \ {g}, j)
      <3>1. Keeps(t, u, c, C)
        BY <1>0, <1>3, <2>5, <2>6, <2>8 DEF Keeps
      <3>2. Sub(u, c, C, j)
        BY <1>0, <3>1, SubFrame
      <3>3. u.kid[side][p] = c /\ A \ {g} = C
        BY <1>0, <1>1, <2>3, <2>5, <2>8
      <3>4. c # Nil => u.parent[c] = p
        BY <1>0, <1>3, <2>8
      <3> QED BY <2>4, <3>2, <3>3, <3>4 DEF Hangs, Fits
    <2>10. c \notin B /\ c # p
      BY <1>0, <2>3, <2>4, <2>5, <2>6, SubKinds, TreeAssumption DEF Hangs
    <2>11. B \in SUBSET Key
      BY <2>2
    <2>12. Hangs(u, Other(side), p, B, n)
      <3>1. Stays(t, u, B)
        BY <1>3, <2>6, <2>8, <2>10, <2>11 DEF Stays
      <3>2. u.kid[Other(side)][p] = t.kid[Other(side)][p]
        BY <1>3, <2>3, <2>6, <2>8
      <3> QED BY <2>4, <2>6, <3>1, <3>2, HangsStay
    <2>13. Stays(t, u, Key \ (A \cup {p} \cup B))
      BY <1>0, <1>3, <2>5, <2>8, TreeAssumption DEF Stays
    <2>14. Same(t, u) /\ u.high[p] = t.high[p] /\ u.parent[p] = t.parent[p]
      BY <1>3, <2>3, <2>8, <2>10 DEF Same
    <2>15. Joins(t, side, p, A, j + 1, B, n) /\ g \in A
      BY <2>4, <2>5
    <2>16. Shrunk(t, g, u, side, p, A, j, B, n)
      BY <1>0, <1>1, <2>3, <2>8, <2>9, <2>12, <2>13, <2>14, <2>15 DEF Shrunk
    <2>17. 1 + Higher(j + 1, n) > 0
      BY <1>0, <2>2, HigherIs
    <2>18. AboveHole(t, S, g, u, side, p, 0)
      BY <1>0, <2>2, <2>3, <2>16, <2>17 DEF AboveHole
    <2>19. TreeWithout(t, S, g, FixUp(u, p, Other(side)))
      BY <1>1, <2>18, FixUpMends
    <2> QED BY <1>4, <1>6, <2>19
  <1> QED BY <1>5, <1>6

(* Unlink: the node is out, and its memory is freed. *)
Unlinked(t, S, g, u) ==
    /\ u \in Tree /\ u.at_nodes = t.at_nodes /\ u.data = [t.data EXCEPT ![g] = Nil]
    /\ u.current = (IF t.current = g THEN Freed ELSE t.current)
    /\ \E k \in Nat : Sub(u, u.root, S \ {g}, k)
    /\ u.root # Nil => u.parent[u.root] = Nil

(* The root that the loop looks for at the end is that of what is left. *)
LEMMA Unlinks ==
    ASSUME NEW t \in Tree, NEW S, NEW h, Rooted(t, t.root, S, h), Cardinality(S) <= t.at_nodes,
           NEW g \in S, NEW a \in Side, t.kid[a][g] = Nil
    PROVE  Unlinked(t, S, g, Unlink(t, g))
  <1> DEFINE r == t.root
             c == OnlyChild(t, g)
             v == Bind(t, g, c)
             w0 == CutOff(v, g)
             w == SetHigh(w0, g, EqualHigh)
             x == IF t.parent[g] = Nil THEN c ELSE r
             top == Topmost(v, x)
             dat == [w.data EXCEPT ![g] = Nil]
             current == IF w.current = g THEN Freed ELSE w.current
             e == [at_nodes |-> w.at_nodes, root |-> top, current |-> current, kid |-> w.kid,
                   parent |-> w.parent, high |-> w.high, data |-> dat]
  <1>0. Sub(t, r, S, h) /\ r \in S /\ r \in Key /\ g \in Key /\ g # Nil /\ S \in SUBSET Key /\ h \in Nat
        /\ IsFiniteSet(S) /\ Cardinality(S) \in Nat /\ h <= Cardinality(S) /\ t.at_nodes \in Nat
    BY SubKinds, SubTop, SubBound, TreeKinds, TreeAssumption DEF Rooted
  <1>1. h <= t.at_nodes
    BY <1>0
  <1>2. PICK C \in SUBSET S, j \in Nat : Single(t, g, C, c, j)
    BY <1>0, SingleIs
  <1>3. TreeWithout(t, S, g, v)
    BY <1>1, <1>2, BindsOut
  <1>4. Unlink(t, g) = [w EXCEPT !.root = top, !.data = dat, !.current = current]
    BY DEF Unlink, OnlyChild
  <1> HIDE DEF c, v
  <1>5. PICK z \in Pointer, k \in Nat :
            v \in Tree /\ Same(t, v) /\ Sub(v, z, S \ {g}, k) /\ (z # Nil => v.parent[z] = Nil)
    BY <1>3 DEF TreeWithout
  <1>6. k <= v.at_nodes
    <2>1. IsFiniteSet(S \ {g}) /\ Cardinality(S \ {g}) \in Nat /\ k <= Cardinality(S \ {g})
      BY <1>5, SubBound
    <2>2. Cardinality(S \ {g}) <= Cardinality(S)
      BY <1>0, FS_Subset
    <2> QED BY <1>0, <1>5, <2>1, <2>2 DEF Same
  <1>7. x \in (S \ {g}) \cup {Nil} /\ (x = Nil => z = Nil)
    <2>1. CASE t.parent[g] = Nil
      <3>1. g = r
        BY <1>0, <2>1, SubInside, TreeAssumption DEF Inside
      <3>2. Sub(t, g, {g} \cup C, j + 1) /\ g \notin C /\ c \in C \cup {Nil} /\ (c = Nil => C = {})
        BY <1>2 DEF Single
      <3>3. S = {g} \cup C
        BY <1>0, <3>1, <3>2, SubOne
      <3>4. S \ {g} = C
        BY <3>2, <3>3
      <3>5. c = Nil => z = Nil
        BY <1>5, <3>2, <3>4, SubTop
      <3> QED BY <2>1, <3>2, <3>4, <3>5
    <2>2. CASE t.parent[g] # Nil
      <3>1. g # r
        BY <2>2 DEF Rooted
      <3> QED BY <1>0, <2>2, <3>1, TreeAssumption
    <2> QED BY <2>1, <2>2
  <1> HIDE DEF x
  <1>8. top = z
    BY <1>5, <1>6, <1>7, TopmostIs
  <1>9. Bare(v, w0, g)
    BY <1>0, <1>5, CutOffIs
  <1> HIDE DEF w0
  <1>10. /\ w \in Tree /\ Same(v, w)
         /\ \A y \in Key \ {g} : /\ w.high[y] = v.high[y] /\ w.parent[y] = v.parent[y]
                                /\ \A s \in Side : w.kid[s][y] = v.kid[s][y]
    <2>1. HighIs(w0, w, g, EqualHigh)
      BY <1>0, <1>9, HighSet DEF Bare
    <2> HIDE DEF w
    <2> QED BY <1>9, <2>1 DEF Bare, HighIs, Same
  <1> HIDE DEF w
  <1> HIDE DEF top
  <1>11. dat \in [Key -> Key \cup {Nil, Fresh}]
         /\ current \in Pointer \cup {Freed}
         /\ dat = [t.data EXCEPT ![g] = Nil] /\ w.at_nodes = t.at_nodes
         /\ current = (IF t.current = g THEN Freed ELSE t.current)
    <2>1. w.data \in [Key -> Key \cup {Nil, Fresh}]
          /\ w.current \in Pointer \cup {Freed}
      BY <1>10, TreeKinds
    <2>2. w.data = t.data /\ w.current = t.current /\ w.at_nodes = t.at_nodes
      BY <1>5, <1>10 DEF Same
    <2> QED BY <1>0, <2>1, <2>2
  <1>12. Unlink(t, g) = e
    <2> HIDE DEF dat, current
    <2> QED BY <1>4, <1>10 DEF Tree
  <1> HIDE DEF dat, current
  <1>13. e \in Tree
    <2>1. w.at_nodes \in Nat /\ w.kid \in [Side -> [Key -> Pointer]] /\ w.parent \in [Key -> Pointer]
          /\ w.high \in [Key -> {LeftHigh, EqualHigh, RightHigh}]
      BY <1>10, TreeKinds
    <2>2. top \in Pointer
      BY <1>8
    <2> QED BY <1>11, <2>1, <2>2 DEF Tree
  <1>14. Sub(e, z, S \ {g}, k)
    <2>1. Keeps(v, e, z, S \ {g})
      BY <1>0, <1>10, <1>11 DEF Keeps
    <2> QED BY <1>5, <2>1, SubFrame
  <1>15. z # Nil => e.parent[z] = Nil
    <2>1. z # Nil => z \in S \ {g}
      BY <1>5, SubTop
    <2> QED BY <1>0, <1>5, <1>10, <2>1
  <1>16. e.root = z /\ e.at_nodes = t.at_nodes /\ e.current = (IF t.current = g THEN Freed ELSE t.current)
         /\ e.data = [t.data EXCEPT ![g] = Nil]
    BY <1>8, <1>11
  <1> HIDE DEF e
  <1> QED BY <1>5, <1>12, <1>13, <1>14, <1>15, <1>16 DEF Unlinked

(* Other data, or another currency. *)
Relabelled(t, u) ==
    /\ u \in Tree /\ u.at_nodes = t.at_nodes /\ u.root = t.root
    /\ u.kid = t.kid /\ u.parent = t.parent /\ u.high = t.high

(* Branches do not depend on the currency, *)
LEMMA CurrentSet ==
    ASSUME NEW t \in Tree, NEW c \in Pointer \cup {Freed}
    PROVE  LET u == [t EXCEPT !.current = c] IN Relabelled(t, u) /\ u.current = c /\ u.data = t.data
  <1> DEFINE u == [t EXCEPT !.current = c]
  <1>1. u = [at_nodes |-> t.at_nodes, root |-> t.root, current |-> c, kid |-> t.kid,
             parent |-> t.parent, high |-> t.high, data |-> t.data]
    BY DEF Tree
  <1> HIDE DEF u
  <1>2. u \in Tree
    BY <1>1, TreeKinds DEF Tree
  <1> QED BY <1>1, <1>2 DEF Relabelled, u

(* nor on data: *)
LEMMA DataSet ==
    ASSUME NEW t \in Tree, NEW k \in Key, NEW d \in Key \cup {Nil, Fresh}
    PROVE  LET u == [t EXCEPT !.data[k] = d]
           IN Relabelled(t, u) /\ u.current = t.current /\ u.data = [t.data EXCEPT ![k] = d]
  <1> DEFINE dat == [t.data EXCEPT ![k] = d]
             u == [t EXCEPT !.data[k] = d]
  <1>0. u = [t EXCEPT !.data = dat] /\ dat \in [Key -> Key \cup {Nil, Fresh}]
    BY TreeKinds
  <1> HIDE DEF dat
  <1>1. u = [at_nodes |-> t.at_nodes, root |-> t.root, current |-> t.current, kid |-> t.kid,
             parent |-> t.parent, high |-> t.high, data |-> dat]
    BY <1>0 DEF Tree
  <1> HIDE DEF u
  <1>2. u \in Tree
    BY <1>0, <1>1, TreeKinds DEF Tree
  <1> QED BY <1>1, <1>2 DEF Relabelled, u, dat

(* they are the same branches. *)
LEMMA SubRelabelled ==
    ASSUME NEW t, NEW u, Relabelled(t, u), NEW x, NEW S, NEW h, Sub(t, x, S, h)
    PROVE  Sub(u, x, S, h)
  <1>1. Keeps(t, u, x, S)
    BY DEF Keeps, Relabelled
  <1> QED BY <1>1, SubFrame

(* A node outside a branch lies on one side of all its nodes. *)
Beside(s, v, Y) == \A u \in Y : OnSide(s, v, u)

(* It follows from the order at the node where the ways to the two part. *)
LEMMA SubBeside ==
    ASSUME NEW t, NEW x, NEW S, NEW h, Sub(t, x, S, h), NEW y \in S, NEW Y, NEW k, Sub(t, y, Y, k),
           NEW v \in S \ Y
    PROVE  \E s \in Side : Beside(s, v, Y)
  <1> DEFINE T == {w \in Branch : y \in w[2] /\ v \in w[2] => \E s \in Side : Beside(s, v, Y)}
  <1>1. <<Nil, {}, 0>> \in T
    BY NilTriple
  <1>2. ASSUME NEW x1, NEW A, NEW m, NEW B, NEW n, NEW a \in T, NEW b \in T, NEW w,
               Made(t, x1, A, m, B, n, a, b, w), y \in w[2], v \in w[2]
        PROVE  \E s \in Side : Beside(s, v, Y)
    <2>1. /\ x1 \in Key /\ A \in SUBSET Key /\ B \in SUBSET Key /\ Joins(t, "L", x1, A, m, B, n)
          /\ a[2] = A /\ b[2] = B /\ w[2] = A \cup {x1} \cup B
      BY <1>2 DEF Made
    <2>2. /\ (y \in A /\ v \in A) \/ (y \in B /\ v \in B) => \E s \in Side : Beside(s, v, Y)
      BY <2>1
    <2>3. /\ Sub(t, t.kid["L"][x1], A, m) /\ Sub(t, t.kid["R"][x1], B, n)
          /\ \A z \in A : OnSide("L", z, x1)
          /\ \A z \in B : OnSide("R", z, x1)
      BY <2>1, LeftRight DEF Joins, Hangs, Fits
    <2>4. y \in A => Y \subseteq A
      <3>1. SUFFICES ASSUME y \in A PROVE Y \subseteq A
        OBVIOUS
      <3>2. PICK Z \in SUBSET A, j \in Nat : Sub(t, y, Z, j)
        BY <2>3, <3>1, SubAll
      <3> QED BY <3>2, SubOne
    <2>5. y \in B => Y \subseteq B
      <3>1. SUFFICES ASSUME y \in B PROVE Y \subseteq B
        OBVIOUS
      <3>2. PICK Z \in SUBSET B, j \in Nat : Sub(t, y, Z, j)
        BY <2>3, <3>1, SubAll
      <3> QED BY <3>2, SubOne
    <2>6. y = x1 => v \in Y
      <3>1. Sub(t, x1, A \cup {x1} \cup B, 1 + Higher(m, n))
        BY <2>1, JoinLR
      <3>2. y = x1 => Y = A \cup {x1} \cup B
        BY <3>1, SubOne
      <3> QED BY <1>2, <2>1, <3>2
    <2>7. CASE y \in A /\ v \notin A
      <3>1. Beside("R", v, Y)
        <4>1. SUFFICES ASSUME NEW u \in A PROVE OnSide("R", v, u)
          BY <2>4, <2>7 DEF Beside
        <4>2. u \in Key /\ v \in Key /\ OnSide("L", u, x1) /\ (v = x1 \/ OnSide("R", v, x1))
          BY <1>2, <2>1, <2>3, <2>7
        <4>3. OnSide("R", x1, u)
          BY <2>1, <4>2, Order, LeftRight
        <4> QED BY <2>1, <4>2, <4>3, Order, LeftRight
      <3> QED BY <3>1, LeftRight
    <2>8. CASE y \in B /\ v \notin B
      <3>1. Beside("L", v, Y)
        <4>1. SUFFICES ASSUME NEW u \in B PROVE OnSide("L", v, u)
          BY <2>5, <2>8 DEF Beside
        <4>2. u \in Key /\ v \in Key /\ OnSide("R", u, x1) /\ (v = x1 \/ OnSide("L", v, x1))
          BY <1>2, <2>1, <2>3, <2>8
        <4>3. OnSide("L", x1, u)
          BY <2>1, <4>2, Order, LeftRight
        <4> QED BY <2>1, <4>2, <4>3, Order, LeftRight
      <3> QED BY <3>1, LeftRight
    <2> QED BY <1>2, <2>1, <2>2, <2>6, <2>7, <2>8
  <1>3. ASSUME NEW x1, NEW A, NEW m, NEW B, NEW n, NEW a \in T, NEW b \in T, NEW w,
               Made(t, x1, A, m, B, n, a, b, w)
        PROVE  w \in T
    BY <1>2, <1>3 DEF Made
  <1> HIDE DEF T
  <1>4. <<x, S, h>> \in T
    BY <1>1, <1>3, BranchInduct
  <1>5. x \in Pointer /\ S \in SUBSET Key /\ h \in Nat
    BY SubKinds
  <1> QED BY <1>4, <1>5, Triple DEF T

(* The node named a is named b: u is t then. *)
NameOf(a, b, x) == IF x = a THEN b ELSE x
NamesOf(a, b, X) == IF a \in X THEN (X \ {a}) \cup {b} ELSE X
RenamedTo(t, u, a, b) ==
    /\ u \in Tree /\ u.at_nodes = t.at_nodes
    /\ u.root = NameOf(a, b, t.root) /\ u.current = NameOf(a, b, t.current)
    /\ \A x \in Key \ {a, b} :
          /\ u.high[x] = t.high[x] /\ u.parent[x] = NameOf(a, b, t.parent[x])
          /\ \A s \in Side : u.kid[s][x] = NameOf(a, b, t.kid[s][x])
    /\ u.high[b] = t.high[a] /\ u.parent[b] = NameOf(a, b, t.parent[a])
    /\ \A s \in Side : u.kid[s][b] = NameOf(a, b, t.kid[s][a])
    /\ \A x \in Key : u.data[x] = IF x = a THEN Nil ELSE IF x = b THEN t.data[a] ELSE t.data[x]

(* Renamed gives b the links of a, and every link to a leads to b. *)
LEMMA RenamedIs ==
    ASSUME NEW t \in Tree, NEW a \in Key, NEW b \in Key, a # b
    PROVE  RenamedTo(t, Renamed(t, a, b), a, b)
  <1> DEFINE name(x) == IF x = a THEN b ELSE x
             old(x) == IF x = b THEN a ELSE x
             links(f) == LET g == [x \in Key |-> IF x = a THEN Nil ELSE f[IF x = b THEN a ELSE x]]
                         IN [x \in Key |-> name(g[x])]
             kid == [s \in Side |-> links(t.kid[s])]
             parent == links(t.parent)
             high == [x \in Key |-> IF x = a THEN EqualHigh ELSE t.high[old(x)]]
             dat == [x \in Key |-> IF x = a THEN Nil ELSE t.data[old(x)]]
             u == [at_nodes |-> t.at_nodes, root |-> name(t.root), current |-> name(t.current),
                   kid |-> kid, parent |-> parent, high |-> high, data |-> dat]
  <1>1. Renamed(t, a, b) = u
    BY DEF Renamed
  <1>2. ASSUME NEW f \in [Key -> Pointer]
        PROVE  /\ links(f) \in [Key -> Pointer] /\ links(f)[b] = NameOf(a, b, f[a])
               /\ \A x \in Key \ {a, b} : links(f)[x] = NameOf(a, b, f[x])
    BY <1>2, TreeAssumption DEF Pointer, NameOf
  <1> HIDE DEF links
  <1>3. parent \in [Key -> Pointer] /\ parent[b] = NameOf(a, b, t.parent[a])
        /\ \A x \in Key \ {a, b} : parent[x] = NameOf(a, b, t.parent[x])
    BY <1>2, TreeKinds
  <1>4. ASSUME NEW s \in Side
        PROVE  /\ kid[s] \in [Key -> Pointer] /\ kid[s][b] = NameOf(a, b, t.kid[s][a])
               /\ \A x \in Key \ {a, b} : kid[s][x] = NameOf(a, b, t.kid[s][x])
    <2>1. t.kid[s] \in [Key -> Pointer]
      BY TreeKinds
    <2> QED BY <1>2, <2>1
  <1>5. kid \in [Side -> [Key -> Pointer]]
    <2>1. \A s \in Side : links(t.kid[s]) \in [Key -> Pointer]
      BY <1>4
    <2> QED BY <2>1
  <1>6. /\ high \in [Key -> {LeftHigh, EqualHigh, RightHigh}] /\ high[b] = t.high[a]
        /\ \A x \in Key \ {a, b} : high[x] = t.high[x]
    BY TreeKinds
  <1>7. /\ dat \in [Key -> Key \cup {Nil, Fresh}]
        /\ \A x \in Key : dat[x] = IF x = a THEN Nil ELSE IF x = b THEN t.data[a] ELSE t.data[x]
    BY TreeKinds
  <1>8. name(t.root) \in Pointer /\ name(t.current) \in Pointer \cup {Freed}
    BY TreeKinds DEF Pointer
  <1> HIDE DEF kid, parent, high, dat
  <1>9. u \in Tree
    BY <1>3, <1>5, <1>6, <1>7, <1>8, TreeKinds DEF Tree
  <1> QED BY <1>1, <1>3, <1>4, <1>6, <1>7, <1>9 DEF RenamedTo, NameOf

(* The order of the nodes S is the same for a and for b. *)
Alike(S, a, b) == \A y \in S \ {a} : \A s \in Side : OnSide(s, y, a) <=> OnSide(s, y, b)

(* What hangs below x hangs below it under its new name. *)
LEMMA HangsRenamed ==
    ASSUME NEW t, NEW u, NEW a \in Key, NEW b \in Key, RenamedTo(t, u, a, b), NEW S \in SUBSET Key,
           b \notin S, Alike(S, a, b), NEW s \in Side, NEW x \in S, NEW A \in SUBSET S, NEW m,
           x \notin A, Fits(t, s, x, t.kid[s][x], A), t.kid[s][x] \in A \cup {Nil},
           Sub(u, NameOf(a, b, t.kid[s][x]), NamesOf(a, b, A), m)
    PROVE  Hangs(u, s, NameOf(a, b, x), NamesOf(a, b, A), m)
  <1> DEFINE c == t.kid[s][x]
             z == NameOf(a, b, x)
  <1>0. /\ x \in Key /\ Nil \notin Key /\ a # Nil /\ b # Nil /\ (c # Nil => t.parent[c] = x)
        /\ \A y \in A : OnSide(s, y, x)
    BY TreeAssumption DEF Fits
  <1>1. u.kid[s][z] = NameOf(a, b, c)
    BY <1>0 DEF RenamedTo, NameOf
  <1>2. NameOf(a, b, c) # Nil => u.parent[NameOf(a, b, c)] = z
    <2>1. CASE c = Nil
      BY <1>0, <2>1 DEF NameOf
    <2>2. CASE c = a
      BY <1>0, <2>2 DEF NameOf, RenamedTo
    <2>3. CASE c # Nil /\ c # a
      <3>1. c \in Key \ {a, b}
        BY <2>3
      <3>2. u.parent[c] = NameOf(a, b, t.parent[c])
        BY <3>1 DEF RenamedTo
      <3> QED BY <1>0, <2>3, <3>2 DEF NameOf
    <2> QED BY <2>1, <2>2, <2>3
  <1>3. ASSUME NEW y \in NamesOf(a, b, A) PROVE OnSide(s, y, z)
    <2>1. CASE y \in A \ {a}
      <3>1. OnSide(s, y, x) /\ y \in S \ {a}
        BY <1>0, <2>1
      <3> QED BY <3>1 DEF Alike, NameOf
    <2>2. CASE a \in A /\ y = b
      <3>1. OnSide(s, a, x) /\ x \in S \ {a} /\ x # a /\ Other(s) \in Side
        BY <1>0, <2>2, Sides
      <3>2. OnSide(Other(s), x, a)
        BY <1>0, <3>1, Order
      <3>3. OnSide(Other(s), x, b)
        BY <3>1, <3>2 DEF Alike
      <3>4. OnSide(s, b, x)
        BY <1>0, <3>3, Order
      <3> QED BY <2>2, <3>1, <3>4 DEF NameOf
    <2> QED BY <2>1, <2>2 DEF NamesOf
  <1> QED BY <1>1, <1>2, <1>3 DEF Hangs, Fits

(* So a branch is one under its new names. *)
LEMMA SubRenamed ==
    ASSUME NEW t, NEW u, NEW a \in Key, NEW b \in Key, RenamedTo(t, u, a, b),
           NEW r, NEW S, NEW h, Sub(t, r, S, h), b \notin S, Alike(S, a, b)
    PROVE  Sub(u, NameOf(a, b, r), NamesOf(a, b, S), h)
  <1> DEFINE T == {w \in Branch : w[2] \subseteq S => Sub(u, NameOf(a, b, w[1]), NamesOf(a, b, w[2]), w[3])}
  <1>0. S \in SUBSET Key /\ a # Nil /\ r \in Pointer /\ h \in Nat
    BY SubKinds, TreeAssumption
  <1>1. <<Nil, {}, 0>> \in T
    <2>1. NameOf(a, b, Nil) = Nil /\ NamesOf(a, b, {}) = {}
      BY <1>0 DEF NameOf, NamesOf
    <2> QED BY <2>1, SubNil, NilTriple
  <1>2. ASSUME NEW x, NEW A, NEW m, NEW B, NEW n, NEW v1 \in T, NEW v2 \in T, NEW w,
               Made(t, x, A, m, B, n, v1, v2, w), w[2] \subseteq S
        PROVE  Sub(u, NameOf(a, b, w[1]), NamesOf(a, b, w[2]), w[3])
    <2>0. /\ x \in Key /\ Joins(t, "L", x, A, m, B, n)
          /\ x \notin A /\ x \notin B /\ A \cap B = {} /\ m \in Nat /\ n \in Nat
          /\ t.kid["L"][x] \in A \cup {Nil} /\ t.kid["R"][x] \in B \cup {Nil}
          /\ v1[1] = t.kid["L"][x] /\ v1[2] = A /\ v1[3] = m
          /\ v2[1] = t.kid["R"][x] /\ v2[2] = B /\ v2[3] = n
          /\ w[1] = x /\ w[2] = A \cup {x} \cup B /\ w[3] = 1 + Higher(m, n)
      BY <1>2 DEF Made
    <2>1. x \in S /\ A \in SUBSET S /\ B \in SUBSET S
      BY <1>2, <2>0
    <2>2. /\ Sub(u, NameOf(a, b, t.kid["L"][x]), NamesOf(a, b, A), m)
          /\ Sub(u, NameOf(a, b, t.kid["R"][x]), NamesOf(a, b, B), n)
      BY <2>0, <2>1
    <2>3. /\ Fits(t, "L", x, t.kid["L"][x], A) /\ Fits(t, "R", x, t.kid["R"][x], B)
          /\ Leans(t.high[x], "L", m, n)
      BY <2>0, LeftRight DEF Joins, Hangs
    <2> DEFINE z == NameOf(a, b, x)  X == NamesOf(a, b, A)  Y == NamesOf(a, b, B)
    <2>4. Hangs(u, "L", z, X, m) /\ Hangs(u, "R", z, Y, n)
      BY <1>0, <2>0, <2>1, <2>2, <2>3, LeftRight, HangsRenamed
    <2>5. u.high[z] = t.high[x]
      BY <2>0, <2>1 DEF RenamedTo, NameOf
    <2>6. Joins(u, "L", z, X, m, Y, n) /\ z \in Key
      BY <2>0, <2>3, <2>4, <2>5, LeftRight DEF Joins, NameOf
    <2>7. Sub(u, z, X \cup {z} \cup Y, 1 + Higher(m, n))
      BY <2>6, JoinLR
    <2>8. X \cup {z} \cup Y = NamesOf(a, b, A \cup {x} \cup B)
      BY <2>0 DEF NameOf, NamesOf
    <2> QED BY <2>0, <2>7, <2>8
  <1>3. ASSUME NEW x, NEW A, NEW m, NEW B, NEW n, NEW v1 \in T, NEW v2 \in T, NEW w,
               Made(t, x, A, m, B, n, v1, v2, w)
        PROVE  w \in T
    BY <1>2, <1>3 DEF Made
  <1> HIDE DEF T
  <1>4. <<r, S, h>> \in T
    BY <1>1, <1>3, BranchInduct
  <1> QED BY <1>0, <1>4, Triple DEF T

(***************************************************************************)
(* Neighbours                                                              *)
(***************************************************************************)

(* z is the next of the nodes S after x on the side s. *)
IsNext(S, s, x, z) ==
    z \in S /\ OnSide(s, z, x) /\ \A y \in S \ {z} : OnSide(s, y, x) => OnSide(s, y, z)

(* The neighbour of a node that has a child on that side has none towards it. *)
LEMMA NeighbourBeneath ==
    ASSUME NEW t \in Tree, NEW r, NEW S, NEW h, Sub(t, r, S, h), h <= t.at_nodes,
           NEW x \in S, NEW s \in Side, t.kid[s][x] # Nil
    PROVE  IsNext(S, s, x, Neighbour(t, x, s)) /\ t.kid[Other(s)][Neighbour(t, x, s)] = Nil
  <1> DEFINE z == Neighbour(t, x, s)  c == t.kid[s][x]
  <1>0. x \in Key /\ Other(s) \in Side /\ Other(Other(s)) = s /\ S \in SUBSET Key /\ h \in Nat /\ t.at_nodes \in Nat
    BY SubKinds, Sides, TreeKinds
  <1>1. PICK Y \in SUBSET S, k \in Nat : Sub(t, x, Y, k) /\ k <= h
    BY SubAll
  <1>2. PICK A, B \in SUBSET Key, m, n \in Nat :
            Joins(t, s, x, A, m, B, n) /\ Y = A \cup {x} \cup B /\ k = 1 + Higher(m, n)
    BY <1>0, <1>1, Split DEF MadeOf
  <1>3. /\ Sub(t, c, A, m) /\ (\A y \in A : OnSide(s, y, x)) /\ \A y \in B : OnSide(Other(s), y, x)
    BY <1>2 DEF Joins, Hangs, Fits
  <1>4. c \in Key
    BY <1>3, SubTop
  <1>5. m <= t.at_nodes
    <2>1. m <= Higher(m, n) /\ Higher(m, n) \in Nat
      BY <1>2, HigherIs
    <2> QED BY <1>0, <1>1, <1>2, <2>1
  <1>6. z = Outermost(t, c, Other(s))
    BY DEF Neighbour
  <1> HIDE DEF z, c
  <1>7. IsEnd(t, A, Other(s), z)
    BY <1>0, <1>3, <1>4, <1>5, <1>6, OutermostEnds
  <1>8. z \in A /\ t.kid[Other(s)][z] = Nil /\ \A y \in A \ {z} : OnSide(s, y, z)
    BY <1>0, <1>7 DEF IsEnd
  <1>9. ASSUME NEW y \in S \ {z}, OnSide(s, y, x) PROVE OnSide(s, y, z)
    <2>1. y \in Key /\ ~OnSide(Other(s), y, x) /\ y # x
      BY <1>0, <1>9, Order
    <2>2. CASE y \in A
      BY <1>8, <2>2
    <2>3. CASE y \notin Y
      <3>1. PICK q \in Side : Beside(q, y, Y)
        BY <1>1, <2>3, SubBeside
      <3>2. x \in Y /\ z \in Y
        BY <1>2, <1>8
      <3>3. q = s
        BY <2>1, <3>1, <3>2, Sides DEF Beside
      <3> QED BY <3>1, <3>2, <3>3 DEF Beside
    <2> QED BY <1>2, <1>3, <2>1, <2>2, <2>3
  <1>10. z \in S
    BY <1>1, <1>2, <1>8
  <1> QED BY <1>3, <1>8, <1>9, <1>10 DEF IsNext, z

(* Nothing lies between neighbours. *)
LEMMA NextAlike ==
    ASSUME NEW S \in SUBSET Key, NEW s \in Side, NEW x \in S, NEW z, IsNext(S, s, x, z)
    PROVE  Alike(S \ {z}, x, z) /\ z \in S /\ z # x
  <1>0. x \in Key /\ z \in Key /\ Other(s) \in Side /\ z \in S /\ OnSide(s, z, x) /\ z # x
    BY Sides, Order DEF IsNext
  <1>1. ASSUME NEW y \in (S \ {z}) \ {x}, NEW q \in Side PROVE OnSide(q, y, x) <=> OnSide(q, y, z)
    <2>1. OnSide(s, y, x) <=> OnSide(s, y, z)
      BY <1>0, Order DEF IsNext
    <2>2. /\ OnSide(Other(s), y, x) <=> ~OnSide(s, y, x)
          /\ OnSide(Other(s), y, z) <=> ~OnSide(s, y, z)
      BY <1>0, Order
    <2>3. q = s \/ q = Other(s)
      BY Sides
    <2> QED BY <2>1, <2>2, <2>3
  <1> QED BY <1>0, <1>1 DEF Alike

(* There is one next node at most. *)
LEMMA NextOnly ==
    ASSUME NEW S \in SUBSET Key, NEW s \in Side, NEW x \in S, NEW y, NEW z, IsNext(S, s, x, y), IsNext(S, s, x, z)
    PROVE  y = z
  <1>1. y \in Key /\ z \in Key /\ y \in S /\ z \in S /\ OnSide(s, y, x) /\ OnSide(s, z, x)
    BY DEF IsNext
  <1>2. y # z => OnSide(s, y, z) /\ OnSide(s, z, y)
    BY <1>1 DEF IsNext
  <1> QED BY <1>1, <1>2, Order

(***************************************************************************)
(* What a removal leaves                                                   *)
(***************************************************************************)

(* The node g is out of the tree t; with two children, its predecessor has taken its place:
   under its own name, or, when the keys are not copied, under that of g. *)
Leaves(t, S, g, R) ==
    \/ R = S \ {g} /\ ((\E a \in Side : t.kid[a][g] = Nil) \/ ~CopyKeys)
    \/ CopyKeys /\ (\A a \in Side : t.kid[a][g] # Nil) /\ \E z \in S \ {g} : R = S \ {z} /\ IsNext(S, "L", g, z)
(* The nodes that stay keep their data, but g has that of the predecessor that went instead. *)
Carries(t, S, g, R, u) ==
    /\ \A y \in R \ {g} : u.data[y] = t.data[y]
    /\ \A z \in S \ {g} : R = S \ {z} => u.data[g] = t.data[z]
CutFrom(t, S, g, R, u) ==
    /\ u \in Tree /\ u.at_nodes = t.at_nodes /\ Leaves(t, S, g, R)
    /\ (\E k \in Nat : Sub(u, u.root, R, k)) /\ (u.root # Nil => u.parent[u.root] = Nil)
    /\ u.current = IF \A a \in Side : t.kid[a][g] # Nil THEN Freed
                   ELSE IF t.current = g THEN Nil ELSE t.current
    /\ Carries(t, S, g, R, u)

(* A node with one child or none is unlinked, *)
LEMMA RemovesEasily ==
    ASSUME NEW t \in Tree, NEW S, NEW h, Rooted(t, t.root, S, h), Cardinality(S) <= t.at_nodes,
           NEW g \in S, NEW a \in Side, t.kid[a][g] = Nil, NEW v, Relabelled(t, v), v.data = t.data,
           v.current = (IF t.current = g THEN Nil ELSE t.current)
    PROVE  CutFrom(t, S, g, S \ {g}, avl_remove_node(v, g))
  <1> DEFINE u == Unlink(v, g)
  <1>0. g \in Key /\ g # Nil /\ S \in SUBSET Key /\ v \in Tree /\ v.kid = t.kid /\ v.at_nodes = t.at_nodes
    BY SubKinds, TreeAssumption DEF Rooted, Relabelled
  <1>1. Rooted(v, v.root, S, h)
    BY SubRelabelled DEF Rooted, Relabelled
  <1>2. Unlinked(v, S, g, u)
    BY <1>0, <1>1, Unlinks
  <1>3. avl_remove_node(v, g) = u
    BY <1>0, LeftRight DEF avl_remove_node, Side
  <1> HIDE DEF u
  <1>4. u.current = IF \A b \in Side : t.kid[b][g] # Nil THEN Freed ELSE IF t.current = g THEN Nil ELSE t.current
    BY <1>0, <1>2 DEF Unlinked
  <1>5. Carries(t, S, g, S \ {g}, u)
    <2>1. u.data = [t.data EXCEPT ![g] = Nil]
      BY <1>2 DEF Unlinked
    <2>2. \A y \in S \ {g} : u.data[y] = t.data[y]
      BY <1>0, <2>1, TreeKinds
    <2> QED BY <2>2 DEF Carries
  <1>6. Leaves(t, S, g, S \ {g})
    BY DEF Leaves
  <1> QED BY <1>0, <1>2, <1>3, <1>4, <1>5, <1>6 DEF CutFrom, Unlinked

(* and one with two makes room for its predecessor. *)
LEMMA RemovesByCopy ==
    ASSUME NEW t \in Tree, NEW S, NEW h, Rooted(t, t.root, S, h), Cardinality(S) <= t.at_nodes,
           NEW g \in S, \A a \in Side : t.kid[a][g] # Nil, NEW v, Relabelled(t, v), v.data = t.data,
           v.current \in Pointer \cup {Freed}
    PROVE  \E R \in SUBSET S : CutFrom(t, S, g, R, avl_remove_node(v, g))
  <1> DEFINE z == Neighbour(v, g, "L")
             v1 == [v EXCEPT !.current = z]
             v2 == [v1 EXCEPT !.data[g] = v1.data[z]]
             w == Unlink(v2, z)
             u == Renamed(w, g, z)
  <1>0. g \in Key /\ g # Nil /\ S \in SUBSET Key /\ v \in Tree /\ v.kid = t.kid /\ v.at_nodes = t.at_nodes
        /\ IsFiniteSet(S) /\ Cardinality(S) \in Nat /\ h <= Cardinality(S) /\ h \in Nat /\ t.at_nodes \in Nat
    BY SubKinds, SubBound, TreeKinds, TreeAssumption DEF Rooted, Relabelled
  <1>1. Rooted(v, v.root, S, h)
    BY SubRelabelled DEF Rooted, Relabelled
  <1>2. avl_remove_node(v, g) = IF CopyKeys THEN w ELSE u
    BY <1>0, LeftRight DEF avl_remove_node, avl_copy_nodes
  <1>3. IsNext(S, "L", g, z) /\ v.kid["R"][z] = Nil
    <2>1. PICK l \in Side : l = "L" /\ Other(l) = "R"
      BY LeftRight
    <2>2. h <= v.at_nodes /\ Sub(v, v.root, S, h)
      BY <1>0, <1>1 DEF Rooted
    <2>3. IsNext(S, l, g, Neighbour(v, g, l)) /\ v.kid[Other(l)][Neighbour(v, g, l)] = Nil
      BY <1>0, <2>2, NeighbourBeneath
    <2> QED BY <2>1, <2>3
  <1> HIDE DEF z
  <1>4. Alike(S \ {z}, g, z) /\ z \in S /\ z # g /\ z \in Key
    BY <1>0, <1>3, LeftRight, NextAlike
  <1>5. Relabelled(v, v1) /\ v1.current = z /\ v1.data = t.data
    <2>1. z \in Pointer \cup {Freed}
      BY <1>4 DEF Pointer
    <2> QED BY <1>0, <2>1, CurrentSet
  <1> HIDE DEF v1
  <1>6. Relabelled(v1, v2) /\ v2.current = z /\ v2.data = [t.data EXCEPT ![g] = t.data[z]]
    <2>1. t.data[z] \in Key \cup {Nil, Fresh} /\ v1 \in Tree
      BY <1>4, <1>5, TreeKinds DEF Relabelled
    <2> QED BY <1>0, <1>5, <2>1, DataSet
  <1> HIDE DEF v2
  <1>7. v2 \in Tree /\ Rooted(v2, v2.root, S, h) /\ v2.at_nodes = t.at_nodes /\ v2.kid["R"][z] = Nil
    <2>1. Relabelled(v, v2)
      BY <1>5, <1>6 DEF Relabelled
    <2> QED BY <1>0, <1>1, <1>3, <2>1, SubRelabelled DEF Rooted, Relabelled
  <1>8. Unlinked(v2, S, z, w)
    <2>1. PICK q \in Side : q = "R"
      BY LeftRight
    <2> QED BY <1>4, <1>7, <2>1, Unlinks
  <1> HIDE DEF w
  <1>9. PICK k \in Nat : Sub(w, w.root, S \ {z}, k)
    BY <1>8 DEF Unlinked
  <1>10. /\ w \in Tree /\ w.at_nodes = t.at_nodes /\ w.current = Freed
         /\ (w.root # Nil => w.parent[w.root] = Nil)
         /\ w.data = [[t.data EXCEPT ![g] = t.data[z]] EXCEPT ![z] = Nil]
    BY <1>6, <1>7, <1>8 DEF Unlinked
  <1>11. CASE CopyKeys
    <2>1. Leaves(t, S, g, S \ {z})
      BY <1>3, <1>4, <1>11 DEF Leaves
    <2>2. \A y \in Key \ {z} : w.data[y] = IF y = g THEN t.data[z] ELSE t.data[y]
      BY <1>10, TreeKinds
    <2>3. Carries(t, S, g, S \ {z}, w)
      <3>1. \A x \in S \ {g} : S \ {z} = S \ {x} => x = z
        OBVIOUS
      <3> QED BY <1>0, <1>4, <2>2, <3>1 DEF Carries
    <2>4. CutFrom(t, S, g, S \ {z}, w)
      BY <1>9, <1>10, <2>1, <2>3 DEF CutFrom
    <2> QED BY <1>2, <1>11, <2>4
  <1>12. CASE ~CopyKeys
    <2>1. RenamedTo(w, u, g, z)
      BY <1>0, <1>4, <1>10, RenamedIs
    <2> HIDE DEF u
    <2>2. NamesOf(g, z, S \ {z}) = S \ {g}
      BY <1>4 DEF NamesOf
    <2>3. u.root = NameOf(g, z, w.root) /\ u \in Tree /\ u.at_nodes = t.at_nodes
      BY <1>10, <2>1 DEF RenamedTo
    <2>4. Sub(u, u.root, S \ {g}, k)
      <3>1. z \notin S \ {z} /\ Alike(S \ {z}, g, z) /\ g \in Key /\ z \in Key
        BY <1>0, <1>4 DEF Alike
      <3> QED BY <1>9, <2>1, <2>2, <2>3, <3>1, SubRenamed
    <2>5. u.current = Freed
      BY <1>0, <1>10, <2>1, TreeAssumption DEF RenamedTo, NameOf
    <2>6. u.root # Nil => u.parent[u.root] = Nil
      <3>1. w.root \in (S \ {z}) \cup {Nil}
        BY <1>9, SubTop
      <3> QED BY <1>0, <1>4, <1>10, <2>1, <2>3, <3>1 DEF RenamedTo, NameOf
    <2>7. \A y \in S \ {g} : u.data[y] = t.data[y]
      <3>1. ASSUME NEW y \in Key PROVE w.data[y] = IF y = z THEN Nil ELSE IF y = g THEN t.data[z] ELSE t.data[y]
        BY <1>10, TreeKinds
      <3> QED BY <1>0, <1>4, <2>1, <3>1 DEF RenamedTo
    <2>8. Leaves(t, S, g, S \ {g})
      BY <1>12 DEF Leaves
    <2>9. Carries(t, S, g, S \ {g}, u)
      BY <2>7 DEF Carries
    <2>10. CutFrom(t, S, g, S \ {g}, u)
      BY <2>3, <2>4, <2>5, <2>6, <2>8, <2>9 DEF CutFrom
    <2> QED BY <1>2, <1>12, <2>10
  <1> QED BY <1>11, <1>12

(***************************************************************************)
(* Calls                                                                   *)
(***************************************************************************)

(* The neighbour of a node without a child on that side is the first ancestor that it is
   not on that side of. *)
IsNeighbour(S, s, x, z) ==
    IF \E y \in S : OnSide(s, y, x) THEN IsNext(S, s, x, z) ELSE z = Nil

(* The way up, after n steps: the branch of y has x as its end on side s. *)
WayUp(t, S, s, x, n, y) == \E Y \in SUBSET S, k \in Nat :
    /\ y \in S /\ Sub(t, y, Y, k) /\ x \in Y /\ \A v \in Y : ~OnSide(s, v, x)
    /\ ~IsChild(t, y, s) \/ k >= n + 1

(* One step up. *)
LEMMA RisingUp ==
    ASSUME NEW t \in Tree, NEW r, NEW S, NEW h, Rooted(t, r, S, h), NEW x \in S, NEW s \in Side,
           NEW n \in Nat, NEW y \in Key, WayUp(t, S, s, x, n, y), IsChild(t, y, s)
    PROVE  WayUp(t, S, s, x, n + 1, t.parent[y])
  <1> DEFINE p == t.parent[y]
  <1>0. Sub(t, r, S, h) /\ t.parent[r] = Nil /\ S \in SUBSET Key /\ x \in Key /\ Other(s) \in Side
    BY SubKinds, Sides DEF Rooted
  <1>1. PICK Y \in SUBSET S, k \in Nat :
            y \in S /\ Sub(t, y, Y, k) /\ x \in Y /\ (\A v \in Y : ~OnSide(s, v, x)) /\ k >= n + 1
    BY DEF WayUp
  <1>2. p # Nil /\ t.kid[s][p] = y
    BY DEF IsChild
  <1>3. PICK q \in Side, A, B \in SUBSET Key, m, j \in Nat :
            p \in S /\ t.kid[q][p] = y /\ Joins(t, q, p, A, m, B, j) /\ A \cup {p} \cup B \subseteq S
    BY <1>0, <1>1, <1>2, SubInside DEF Inside
  <1>4. q = s
    BY <1>0, <1>1, <1>2, <1>3, ChildSide
  <1>5. /\ Sub(t, y, A, m) /\ (\A v \in A : OnSide(s, v, p)) /\ (\A v \in B : OnSide(Other(s), v, p))
    BY <1>3, <1>4 DEF Joins, Hangs, Fits
  <1>6. A = Y /\ m = k
    BY <1>1, <1>5, SubOne
  <1> DEFINE Z == A \cup {p} \cup B
             i == 1 + Higher(m, j)
  <1>7. Sub(t, p, Z, i)
    BY <1>0, <1>3, Join
  <1>8. i \in Nat /\ i >= (n + 1) + 1
    <2>1. Higher(m, j) \in Nat /\ m <= Higher(m, j)
      BY <1>3, HigherIs
    <2> QED BY <1>1, <1>6, <2>1
  <1>9. ASSUME NEW v \in Z PROVE ~OnSide(s, v, x)
    <2>1. p \in Key /\ v \in Key /\ OnSide(s, x, p)
      BY <1>0, <1>1, <1>3, <1>5, <1>6
    <2>2. OnSide(Other(s), p, x)
      BY <1>0, <2>1, Order
    <2>3. CASE v \in A
      BY <1>1, <1>6, <2>3
    <2>4. CASE v = p
      BY <1>0, <2>1, <2>2, <2>4, Order
    <2>5. CASE v \in B
      <3>1. OnSide(Other(s), v, x)
        BY <1>0, <1>5, <2>1, <2>2, <2>5, Order
      <3> QED BY <1>0, <2>1, <3>1, Order
    <2> QED BY <2>3, <2>4, <2>5
  <1>10. Z \in SUBSET S /\ x \in Z
    BY <1>1, <1>3, <1>6
  <1> HIDE DEF Z, i
  <1> QED BY <1>3, <1>7, <1>8, <1>9, <1>10 DEF WayUp

(* When there is no child on that side, the way up finds it. *)
LEMMA NeighbourAbove ==
    ASSUME NEW t \in Tree, NEW r, NEW S, NEW h, Rooted(t, r, S, h), h <= t.at_nodes,
           NEW x \in S, NEW s \in Side, t.kid[s][x] = Nil
    PROVE  IsNeighbour(S, s, x, Neighbour(t, x, s))
  <1> DEFINE F == Upwards(t, s)
             N == t.at_nodes
             P == [n \in Nat |-> {y \in Key : WayUp(t, S, s, x, n, y)}]
             e == Iterated(F, x, N)
             z == t.parent[e]
  <1>0. /\ Sub(t, r, S, h) /\ t.parent[r] = Nil /\ S \in SUBSET Key /\ x \in Key /\ Other(s) \in Side
        /\ Other(s) # s /\ Other(Other(s)) = s /\ h \in Nat /\ N \in Nat /\ Nil \notin Key
    BY SubKinds, Sides, TreeKinds, TreeAssumption DEF Rooted
  <1>1. x \in P[0]
    <2>1. PICK Y \in SUBSET S, k \in Nat : Sub(t, x, Y, k)
      BY <1>0, SubAll
    <2>2. PICK A, B \in SUBSET Key, m, n \in Nat :
              Joins(t, s, x, A, m, B, n) /\ Y = A \cup {x} \cup B /\ k = 1 + Higher(m, n)
      BY <1>0, <2>1, Split DEF MadeOf
    <2>3. Sub(t, Nil, A, m) /\ \A y \in B : OnSide(Other(s), y, x)
      BY <2>2 DEF Joins, Hangs, Fits
    <2>4. A = {}
      BY <2>3, SubTop
    <2>5. \A v \in Y : ~OnSide(s, v, x)
      BY <1>0, <2>2, <2>3, <2>4, Order
    <2>6. k >= 0 + 1
      BY <2>2, HigherIs
    <2>7. x \in Y
      BY <2>2
    <2> QED BY <1>0, <2>1, <2>5, <2>6, <2>7 DEF WayUp
  <1>2. ASSUME NEW n \in Nat, NEW y \in P[n] PROVE F[y] \in P[n + 1]
    <2>1. y \in Key /\ WayUp(t, S, s, x, n, y)
      BY <1>2
    <2>2. F[y] = IF IsChild(t, y, s) THEN t.parent[y] ELSE y
      BY <2>1 DEF Upwards
    <2>3. WayUp(t, S, s, x, n + 1, F[y])
      <3>1. CASE IsChild(t, y, s)
        BY <2>1, <2>2, <3>1, RisingUp
      <3>2. CASE ~IsChild(t, y, s)
        BY <2>1, <2>2, <3>2 DEF WayUp
      <3> QED BY <3>1, <3>2
    <2> HIDE DEF F
    <2>4. F[y] \in Key
      BY <1>0, <2>3 DEF WayUp
    <2> QED BY <2>3, <2>4
  <1> HIDE DEF P, F
  <1>3. e \in P[N]
    BY <1>0, <1>1, <1>2, IteratedIn
  <1>4. Neighbour(t, x, s) = z
    BY DEF Neighbour, Ascend, Deepest, F
  <1> HIDE DEF e
  <1>5. PICK Y \in SUBSET S, k \in Nat :
            /\ e \in S /\ Sub(t, e, Y, k) /\ x \in Y /\ \A v \in Y : ~OnSide(s, v, x)
            /\ ~IsChild(t, e, s) \/ k >= N + 1
    BY <1>0, <1>3 DEF P, WayUp
  <1>6. ~IsChild(t, e, s)
    <2>1. PICK X \in SUBSET S, j \in Nat : Sub(t, e, X, j) /\ j <= h
      BY <1>0, <1>5, SubAll
    <2>2. j = k
      BY <1>5, <2>1, SubOne
    <2> QED BY <1>0, <1>5, <2>1, <2>2
  <1>7. CASE e = r
    <2>1. Y = S /\ z = Nil
      BY <1>0, <1>5, <1>7, SubOne
    <2> QED BY <1>4, <1>5, <2>1 DEF IsNeighbour
  <1>8. CASE e # r
    <2>1. PICK q \in Side, A, B \in SUBSET Key, m, n \in Nat :
              z \in S /\ t.kid[q][z] = e /\ Joins(t, q, z, A, m, B, n) /\ A \cup {z} \cup B \subseteq S
      BY <1>0, <1>5, <1>8, SubInside DEF Inside
    <2>2. z \in Key /\ e \in Key /\ z # Nil
      BY <1>0, <1>5, <2>1
    <2> HIDE DEF z
    <2>3. q = Other(s)
      <3>1. q # s
        BY <1>6, <2>1, <2>2 DEF IsChild, z
      <3> QED BY <3>1, Sides
    <2>4. /\ Sub(t, e, A, m) /\ (\A v \in A : OnSide(Other(s), v, z)) /\ (\A v \in B : OnSide(s, v, z))
      BY <1>0, <2>1, <2>3 DEF Joins, Hangs, Fits
    <2>5. A = Y
      BY <1>5, <2>4, SubOne
    <2>6. OnSide(s, z, x)
      BY <1>0, <1>5, <2>2, <2>4, <2>5, Order
    <2>7. Sub(t, z, A \cup {z} \cup B, 1 + Higher(m, n))
      BY <2>1, <2>2, Join
    <2>8. ASSUME NEW v \in S \ {z}, OnSide(s, v, x) PROVE OnSide(s, v, z)
      <3>1. v \notin Y
        BY <1>5, <2>8
      <3>2. CASE v \in B
        BY <2>4, <3>2
      <3>3. CASE v \notin A \cup {z} \cup B
        <4>1. PICK b \in Side : Beside(b, v, A \cup {z} \cup B)
          BY <1>0, <2>1, <2>7, <3>3, SubBeside
        <4>2. OnSide(b, v, x) /\ OnSide(b, v, z)
          BY <1>5, <2>5, <4>1 DEF Beside
        <4>3. b = s
          BY <1>0, <2>8, <4>2, Order, Sides
        <4> QED BY <4>2, <4>3
      <3> QED BY <2>5, <2>8, <3>1, <3>2, <3>3
    <2>9. IsNext(S, s, x, z)
      BY <2>1, <2>6, <2>8 DEF IsNext
    <2> QED BY <1>4, <2>1, <2>6, <2>9 DEF IsNeighbour
  <1> QED BY <1>7, <1>8

(* avlNextNode and avlPrevNode find the neighbour in the order of the keys. *)
LEMMA NeighbourIs ==
    ASSUME NEW t \in Tree, NEW r, NEW S, NEW h, Rooted(t, r, S, h), h <= t.at_nodes,
           NEW x \in S, NEW s \in Side
    PROVE  IsNeighbour(S, s, x, Neighbour(t, x, s))
  <1>1. CASE t.kid[s][x] = Nil
    BY <1>1, NeighbourAbove
  <1>2. CASE t.kid[s][x] # Nil
    <2>1. IsNext(S, s, x, Neighbour(t, x, s))
      BY <1>2, NeighbourBeneath DEF Rooted
    <2> QED BY <2>1 DEF IsNeighbour, IsNext
  <1> QED BY <1>1, <1>2

(* There is nothing in an empty tree. *)
LEMMA OutermostOfNil == ASSUME NEW t \in Tree, NEW s PROVE Outermost(t, Nil, s) = Nil
  <1> DEFINE F == Outwards(t, s)
             P == [n \in Nat |-> {Nil}]
  <1>1. F[Nil] = Nil
    BY DEF Outwards, Pointer
  <1>2. t.at_nodes \in Nat
    BY TreeKinds
  <1>3. Iterated(F, Nil, t.at_nodes) \in P[t.at_nodes]
    <2> HIDE DEF F
    <2>1. Nil \in P[0] /\ \A n \in Nat : \A x \in P[n] : F[x] \in P[n + 1]
      BY <1>1
    <2> HIDE DEF P
    <2> QED BY <1>2, <2>1, IteratedIn
  <1> QED BY <1>2, <1>3 DEF Outermost, Deepest

(* The tree t is in order and has the nodes S. *)
TreeOf(t, S) ==
    /\ t \in Tree /\ t.at_nodes = Cardinality(S) /\ \E h \in Nat : Sub(t, t.root, S, h)
    /\ t.root # Nil => t.parent[t.root] = Nil
    /\ t.current \in S \cup {Nil, Freed}
InOrder(t, S, h) ==
    /\ t \in Tree /\ S \in SUBSET Key /\ IsFiniteSet(S) /\ t.at_nodes = Cardinality(S) /\ Cardinality(S) \in Nat
    /\ h \in Nat /\ Sub(t, t.root, S, h) /\ h <= t.at_nodes
    /\ t.root = Nil => S = {}
    /\ t.root # Nil => Rooted(t, t.root, S, h) /\ t.root \in S /\ t.root \in Key
    /\ t.current \in S \cup {Nil, Freed}

(* In a tree, the height is no more than the number of nodes, which bounds every loop. *)
LEMMA TreeOfIs == ASSUME NEW t, NEW S, TreeOf(t, S) PROVE \E h : InOrder(t, S, h)
  <1>1. PICK h \in Nat : Sub(t, t.root, S, h)
    BY DEF TreeOf
  <1>2. S \in SUBSET Key /\ IsFiniteSet(S) /\ Cardinality(S) \in Nat /\ h <= Cardinality(S)
    BY <1>1, SubKinds, SubBound
  <1>3. (t.root = Nil => S = {}) /\ (t.root # Nil => t.root \in S /\ t.root \in Key)
    BY <1>1, SubTop
  <1>4. t.root # Nil => Rooted(t, t.root, S, h)
    BY <1>1 DEF TreeOf, Rooted
  <1> QED BY <1>1, <1>2, <1>3, <1>4 DEF TreeOf, InOrder

(* What the searches and steps find. *)
LEMMA CallsFind ==
    ASSUME NEW t, NEW S, TreeOf(t, S)
    PROVE  /\ \A k \in Key : avl_find_node(t, t.root, k) = IF k \in S THEN k ELSE Nil
           /\ \A s \in Side : Outermost(t, t.root, s) \in S \cup {Nil}
           /\ \A s \in Side : S # {} => IsEnd(t, S, s, Outermost(t, t.root, s))
           /\ \A x \in S, s \in Side : /\ IsNeighbour(S, s, x, Neighbour(t, x, s))
                                       /\ Neighbour(t, x, s) \in S \cup {Nil}
  <1>1. PICK h : InOrder(t, S, h)
    BY TreeOfIs
  <1>2. /\ t \in Tree /\ S \in SUBSET Key /\ h \in Nat /\ Sub(t, t.root, S, h) /\ h <= t.at_nodes
        /\ t.root = Nil => S = {}
        /\ t.root # Nil => Rooted(t, t.root, S, h) /\ t.root \in S /\ t.root \in Key
    BY <1>1 DEF InOrder
  <1>3. \A k \in Key : avl_find_node(t, t.root, k) = IF k \in S THEN k ELSE Nil
    BY <1>2, Finds
  <1>4. ASSUME NEW s \in Side
        PROVE  /\ Outermost(t, t.root, s) \in S \cup {Nil}
               /\ S # {} => IsEnd(t, S, s, Outermost(t, t.root, s))
    <2>1. CASE t.root = Nil
      BY <1>2, <2>1, OutermostOfNil
    <2>2. CASE t.root # Nil
      <3>1. IsEnd(t, S, s, Outermost(t, t.root, s))
        BY <1>2, <2>2, OutermostEnds
      <3> QED BY <3>1 DEF IsEnd
    <2> QED BY <2>1, <2>2
  <1>5. ASSUME NEW x \in S, NEW s \in Side
        PROVE  IsNeighbour(S, s, x, Neighbour(t, x, s)) /\ Neighbour(t, x, s) \in S \cup {Nil}
    <2>1. IsNeighbour(S, s, x, Neighbour(t, x, s))
      BY <1>2, NeighbourIs
    <2> QED BY <2>1 DEF IsNeighbour, IsNext
  <1> QED BY <1>3, <1>4, <1>5

(* What the calls do to the tree: move the currency, *)
Moves(t, S, u) == TreeOf(u, S) /\ u.data = t.data /\ u.current \in S \cup {Nil}

(* put a node in, *)
PutIn(t, S, k, u) ==
    k \in Key \ S /\ TreeOf(u, S \cup {k}) /\ u.data = [t.data EXCEPT ![k] = k] /\ u.current = k

(* replace the data of one, *)
Updated(t, S, k, u) ==
    k \in S /\ TreeOf(u, S) /\ u.data = [t.data EXCEPT ![k] = Fresh] /\ u.current = k

(* and take one out. *)
TakenOut(t, S, g, R, u) ==
    /\ g \in S /\ R \in SUBSET S /\ TreeOf(u, R) /\ Leaves(t, S, g, R)
    /\ u.current \in {Nil, Freed, t.current} \ {g}
    /\ u.current = Freed /\ t.current # Freed => \A a \in Side : t.kid[a][g] # Nil
    /\ (\A a \in Side : t.kid[a][g] # Nil) => u.current = Freed
    /\ Carries(t, S, g, R, u)

(* A move of the currency. *)
LEMMA MoveMoves ==
    ASSUME NEW t, NEW S, TreeOf(t, S), NEW c \in S \cup {Nil}
    PROVE  Moves(t, S, Move(t, c)) /\ Relabelled(t, Move(t, c)) /\ Move(t, c).current = c
  <1>0. t \in Tree /\ c \in Pointer \cup {Freed}
    BY TreeOfIs DEF InOrder, Pointer
  <1>1. Relabelled(t, Move(t, c)) /\ Move(t, c).current = c /\ Move(t, c).data = t.data
    BY <1>0, CurrentSet DEF Move
  <1>2. PICK h \in Nat : Sub(t, t.root, S, h)
    BY DEF TreeOf
  <1>3. Sub(Move(t, c), t.root, S, h)
    BY <1>1, <1>2, SubRelabelled
  <1>4. TreeOf(Move(t, c), S)
    BY <1>1, <1>3 DEF TreeOf, Relabelled
  <1> QED BY <1>1, <1>4 DEF Moves

(* One node more or less. *)
LEMMA CountSet ==
    ASSUME NEW t \in Tree, NEW n \in Nat
    PROVE  LET u == [t EXCEPT !.at_nodes = n]
           IN  /\ u \in Tree /\ u.at_nodes = n /\ u.root = t.root /\ u.current = t.current /\ u.kid = t.kid
               /\ u.parent = t.parent /\ u.high = t.high /\ u.data = t.data
  <1> DEFINE u == [t EXCEPT !.at_nodes = n]
  <1>1. u = [at_nodes |-> n, root |-> t.root, current |-> t.current, kid |-> t.kid,
             parent |-> t.parent, high |-> t.high, data |-> t.data]
    BY DEF Tree
  <1> HIDE DEF u
  <1>2. u \in Tree
    BY <1>1, TreeKinds DEF Tree
  <1> QED BY <1>1, <1>2 DEF u

(* RemoveNode takes a node out of the tree. *)
LEMMA RemoveNodeTakes ==
    ASSUME NEW t, NEW S, TreeOf(t, S), NEW g \in S
    PROVE  \E R : TakenOut(t, S, g, R, RemoveNode(t, g))
  <1> DEFINE c == IF t.current = g THEN Nil ELSE t.current
             v == [t EXCEPT !.current = c]
             w == avl_remove_node(v, g)
             u == RemoveNode(t, g)
  <1>1. PICK h : InOrder(t, S, h)
    BY TreeOfIs
  <1>2. /\ t \in Tree /\ S \in SUBSET Key /\ IsFiniteSet(S) /\ t.at_nodes = Cardinality(S) /\ Cardinality(S) \in Nat
        /\ h \in Nat /\ Rooted(t, t.root, S, h) /\ t.current \in S \cup {Nil, Freed} /\ c \in Pointer \cup {Freed}
    BY <1>1 DEF InOrder, Pointer
  <1>3. Relabelled(t, v) /\ v.current = c /\ v.data = t.data
    BY <1>2, CurrentSet
  <1>4. u = [w EXCEPT !.at_nodes = w.at_nodes - 1]
    BY DEF RemoveNode
  <1> HIDE DEF v, u
  <1>5. PICK R \in SUBSET S : CutFrom(t, S, g, R, w)
    <2>0. Cardinality(S) <= t.at_nodes
      BY <1>2
    <2>1. CASE \E a \in Side : t.kid[a][g] = Nil
      <3>1. CutFrom(t, S, g, S \ {g}, w)
        <4>1. PICK a \in Side : t.kid[a][g] = Nil
          BY <2>1
        <4> QED BY <1>2, <1>3, <2>0, <4>1, RemovesEasily
      <3> QED BY <3>1
    <2>2. CASE \A a \in Side : t.kid[a][g] # Nil
      <3> HIDE DEF c
      <3> QED BY <1>2, <1>3, <2>0, <2>2, RemovesByCopy
    <2> QED BY <2>1, <2>2
  <1> HIDE DEF w
  <1>6. /\ w \in Tree /\ w.at_nodes = t.at_nodes /\ Leaves(t, S, g, R)
        /\ (\E k \in Nat : Sub(w, w.root, R, k)) /\ (w.root # Nil => w.parent[w.root] = Nil)
        /\ w.current = IF \A a \in Side : t.kid[a][g] # Nil THEN Freed
                       ELSE IF t.current = g THEN Nil ELSE t.current
        /\ Carries(t, S, g, R, w)
    BY <1>5 DEF CutFrom
  <1>7. Cardinality(R) = Cardinality(S) - 1 /\ Cardinality(S) - 1 \in Nat
    <2>1. PICK z \in S : R = S \ {z}
      BY <1>6 DEF Leaves
    <2>2. Cardinality(S \ {z}) = Cardinality(S) - 1
      BY <1>2, FS_RemoveElement
    <2>3. Cardinality(S \ {z}) \in Nat
      BY <1>2, FS_RemoveElement, FS_CardinalityType
    <2> QED BY <2>1, <2>2, <2>3
  <1>8. /\ u \in Tree /\ u.at_nodes = w.at_nodes - 1 /\ u.root = w.root /\ u.current = w.current /\ u.kid = w.kid
        /\ u.parent = w.parent /\ u.high = w.high /\ u.data = w.data
    BY <1>2, <1>4, <1>6, <1>7, CountSet
  <1>9. \E k \in Nat : Sub(u, u.root, R, k)
    <2>1. PICK k \in Nat : Sub(w, w.root, R, k)
      BY <1>6
    <2>2. Keeps(w, u, w.root, R)
      BY <1>8 DEF Keeps
    <2>3. Sub(u, w.root, R, k)
      BY <2>1, <2>2, SubFrame
    <2> QED BY <1>8, <2>3
  <1>10. u.current \in R \cup {Nil, Freed}
    BY <1>2, <1>6, <1>8 DEF Leaves
  <1>11. TreeOf(u, R)
    BY <1>2, <1>6, <1>7, <1>8, <1>9, <1>10 DEF TreeOf
  <1>12. /\ u.current \in {Nil, Freed, t.current} \ {g}
         /\ u.current = Freed /\ t.current # Freed => \A a \in Side : t.kid[a][g] # Nil
         /\ (\A a \in Side : t.kid[a][g] # Nil) => u.current = Freed
    BY <1>2, <1>6, <1>8, TreeAssumption
  <1>13. Carries(t, S, g, R, u)
    BY <1>6, <1>8 DEF Carries
  <1> QED BY <1>5, <1>6, <1>11, <1>12, <1>13 DEF TakenOut, u

(* The new root is linked to the tree. *)
Grafted(r, u) == u = [r.t EXCEPT !.root = r.root, !.at_nodes = @ + 1]

(* avlInsert puts one in. *)
LEMMA InsertPutsIn ==
    ASSUME NEW t, NEW S, TreeOf(t, S), NEW k \in Key, NEW r, r = avl_insert(t, t.root, k, k), r.root # Nil,
           NEW u, Grafted(r, u)
    PROVE  PutIn(t, S, k, u)
  <1>1. PICK h : InOrder(t, S, h)
    BY TreeOfIs
  <1>2. /\ t \in Tree /\ S \in SUBSET Key /\ IsFiniteSet(S) /\ t.at_nodes = Cardinality(S) /\ Cardinality(S) \in Nat
        /\ h \in Nat /\ Sub(t, t.root, S, h) /\ h <= t.at_nodes /\ (t.root # Nil => t.parent[t.root] = Nil)
    BY <1>1 DEF InOrder, Rooted
  <1>3. k \notin S
    <2>1. SUFFICES ASSUME k \in S PROVE FALSE
      OBVIOUS
    <2>2. avl_find_node(t, t.root, k) = k /\ k # Nil
      BY <2>1, CallsFind, TreeAssumption
    <2>3. r = [t |-> t, root |-> Nil, grew |-> FALSE]
      BY <2>2 DEF avl_insert
    <2> QED BY <2>3
  <1>4. Grew(t, r, k, k, S)
    BY <1>2, <1>3, Inserts
  <1>5. /\ r.t \in Tree /\ r.root \in Key /\ r.t.parent[r.root] = Nil /\ r.t.at_nodes = t.at_nodes
        /\ r.t.current = k /\ r.t.data = [t.data EXCEPT ![k] = k]
    BY <1>4 DEF Grew
  <1>6. PICK j \in Nat : Sub(r.t, r.root, S \cup {k}, j)
    BY <1>4 DEF Grew
  <1> DEFINE n == r.t.at_nodes + 1
  <1>7. u = [r.t EXCEPT !.root = r.root, !.at_nodes = n]
    BY DEF Grafted
  <1>8. n = Cardinality(S \cup {k}) /\ n \in Nat
    <2>1. Cardinality(S \cup {k}) = Cardinality(S) + 1
      BY <1>2, <1>3, FS_AddElement
    <2> QED BY <1>2, <1>5, <2>1
  <1> HIDE DEF n
  <1>9. /\ u \in Tree /\ u.at_nodes = n /\ u.root = r.root /\ u.current = r.t.current /\ u.kid = r.t.kid
        /\ u.parent = r.t.parent /\ u.high = r.t.high /\ u.data = r.t.data
    <2>1. r.root \in Pointer
      BY <1>5 DEF Pointer
    <2> DEFINE v == r.t  x == r.root
    <2>2. v \in Tree /\ n \in Nat /\ x \in Pointer
      BY <1>5, <1>8, <2>1
    <2>3. u = [v EXCEPT !.root = x, !.at_nodes = n]
      BY <1>7
    <2> HIDE DEF v, x
    <2>4. u = [at_nodes |-> n, root |-> x, current |-> v.current, kid |-> v.kid,
               parent |-> v.parent, high |-> v.high, data |-> v.data]
      BY <2>2, <2>3 DEF Tree
    <2> HIDE DEF n
    <2>5. u \in Tree
      BY <2>2, <2>4, TreeKinds DEF Tree
    <2> QED BY <2>4, <2>5 DEF v, x
  <1>10. Sub(u, r.root, S \cup {k}, j)
    <2>1. Keeps(r.t, u, r.root, S \cup {k})
      BY <1>9 DEF Keeps
    <2> QED BY <1>6, <2>1, SubFrame
  <1>11. TreeOf(u, S \cup {k})
    <2>1. u.current = k /\ u.current \in (S \cup {k}) \cup {Nil, Freed}
      BY <1>5, <1>9
    <2> QED BY <1>5, <1>8, <1>9, <1>10, <2>1 DEF TreeOf
  <1> QED BY <1>3, <1>5, <1>9, <1>11 DEF PutIn

(* A new tree is one without nodes. *)
LEMMA NewTreeIs == TreeOf(avlNewTree, {}) /\ avlNewTree.current = Nil
  <1>1. avlNewTree \in Tree
    BY LeftRight DEF avlNewTree, Tree, Pointer
  <1>2. Cardinality({}) = 0
    BY FS_EmptySet
  <1>3. avlNewTree.root = Nil /\ avlNewTree.at_nodes = 0 /\ avlNewTree.current = Nil
    BY DEF avlNewTree
  <1>4. Sub(avlNewTree, avlNewTree.root, {}, 0)
    BY <1>3, SubNil
  <1> QED BY <1>1, <1>2, <1>3, <1>4 DEF TreeOf

(* What a step of the specification does. *)
Outcome(t, S, u) ==
    \/ Moves(t, S, u)
    \/ \E k \in Key : PutIn(t, S, k, u) \/ Updated(t, S, k, u) \/ \E R : TakenOut(t, S, k, R, u)
    \/ u = avlNewTree

(* avlFindNode moves the currency to the node that it finds. *)
LEMMA FindNodeIs ==
    ASSUME NEW S, TreeOf(tree, S), NEW k \in Key
    PROVE  LET u == FindNode(k) IN
           /\ Moves(tree, S, u) /\ Relabelled(tree, u) /\ u.data = tree.data
           /\ u.current = IF k \in S THEN k ELSE Nil
  <1>1. avl_find_node(tree, tree.root, k) = IF k \in S THEN k ELSE Nil
    BY CallsFind
  <1>2. avl_find_node(tree, tree.root, k) \in S \cup {Nil}
    BY <1>1
  <1> QED BY <1>1, <1>2, MoveMoves DEF FindNode, Moves

(* avlNodeUpdateData replaces the data of that node. *)
LEMMA UpdateUpdates ==
    ASSUME NEW S, TreeOf(tree, S), NEW k \in S, NEW u, u = [FindNode(k) EXCEPT !.data[k] = Fresh]
    PROVE  Updated(tree, S, k, u)
  <1> DEFINE f == FindNode(k)
  <1>0. k \in Key
    BY TreeOfIs DEF InOrder
  <1>1. /\ Moves(tree, S, f) /\ f.data = tree.data /\ f.current = k
    BY <1>0, FindNodeIs
  <1> HIDE DEF f
  <1>2. f \in Tree /\ TreeOf(f, S)
    BY <1>1 DEF Moves, TreeOf
  <1>3. Relabelled(f, u) /\ u.current = f.current /\ u.data = [f.data EXCEPT ![k] = Fresh]
    BY <1>0, <1>2, DataSet DEF f
  <1>4. TreeOf(u, S)
    <2>1. PICK h \in Nat : Sub(f, f.root, S, h)
      BY <1>2 DEF TreeOf
    <2>2. Sub(u, f.root, S, h)
      BY <1>3, <2>1, SubRelabelled
    <2> QED BY <1>2, <1>3, <2>2 DEF TreeOf, Relabelled
  <1> QED BY <1>1, <1>3, <1>4 DEF Updated

(* Every call does one of these. *)
LEMMA StepsDo ==
    ASSUME NEW S, TreeOf(tree, S), Next
    PROVE  Outcome(tree, S, tree')
  <1>0. /\ S \in SUBSET Key /\ tree.current \in S \cup {Nil, Freed} /\ Nil \notin Key /\ Freed \notin Key /\ Freed # Nil
    BY TreeOfIs, TreeAssumption DEF InOrder
  <1>1. ASSUME NEW c \in S \cup {Nil}, tree' = Move(tree, c) PROVE Outcome(tree, S, tree')
    BY <1>1, MoveMoves DEF Outcome
  <1>2. ASSUME NEW k \in Key PROVE Moves(tree, S, FindNode(k)) /\ FindNode(k).current = IF k \in S THEN k ELSE Nil
    BY FindNodeIs
  <1>3. CASE avlMinimum
    BY <1>1, <1>3, CallsFind, LeftRight DEF avlMinimum
  <1>4. CASE avlMaximum
    BY <1>1, <1>4, CallsFind, LeftRight DEF avlMaximum
  <1>5. CASE avlCut
    <2>1. tree.current \in S /\ tree.current \in Key /\ tree' = RemoveNode(tree, tree.current)
      BY <1>0, <1>5 DEF avlCut
    <2> QED BY <2>1, RemoveNodeTakes DEF Outcome
  <1>6. CASE avlClearCurrent \/ avlWalkOver
    BY <1>1, <1>6 DEF avlClearCurrent, avlWalkOver
  <1>7. CASE avlClose
    BY <1>7 DEF avlClose, Outcome
  <1>8. ASSUME NEW s \in Side, StepCurrent(s) PROVE Outcome(tree, S, tree')
    <2>1. CASE tree.current = Nil
      <3>1. tree' = Move(tree, Outermost(tree, tree.root, Other(s))) /\ Other(s) \in Side
        BY <1>8, <2>1, Sides DEF StepCurrent
      <3> QED BY <1>1, <3>1, CallsFind
    <2>2. CASE tree.current # Nil
      <3>1. tree' = Move(tree, Neighbour(tree, tree.current, s)) /\ tree.current \in S
        BY <1>0, <1>8, <2>2 DEF StepCurrent
      <3> QED BY <1>1, <3>1, CallsFind
    <2> QED BY <2>1, <2>2
  <1>9. ASSUME NEW s \in Side, NEW k \in Key, StepByKey(k, s) PROVE Outcome(tree, S, tree')
    <2>1. avl_find_node(tree, tree.root, k) = IF k \in S THEN k ELSE Nil
      BY CallsFind
    <2>2. tree' = Move(tree, IF k \notin S THEN Nil ELSE Neighbour(tree, k, s))
      BY <1>0, <1>9, <2>1 DEF StepByKey
    <2>3. k \in S => Neighbour(tree, k, s) \in S \cup {Nil}
      BY CallsFind
    <2> QED BY <1>1, <2>2, <2>3
  <1>10. ASSUME NEW k \in Key, avlInsert(k) PROVE Outcome(tree, S, tree')
    <2>1. PutIn(tree, S, k, tree')
      BY <1>10, InsertPutsIn DEF avlInsert, Grafted
    <2> QED BY <2>1 DEF Outcome
  <1>11. ASSUME NEW k \in Key, avlFind(k) PROVE Outcome(tree, S, tree')
    BY <1>2, <1>11 DEF avlFind, Outcome
  <1>12. ASSUME NEW k \in Key, avlUpdateData(k) PROVE Outcome(tree, S, tree')
    <2>1. CASE k \in S
      <3>1. tree' = [FindNode(k) EXCEPT !.data[k] = Fresh]
        BY <1>0, <1>2, <1>12, <2>1 DEF avlUpdateData
      <3>2. Updated(tree, S, k, tree')
        BY <2>1, <3>1, UpdateUpdates
      <3> QED BY <3>2 DEF Outcome
    <2>2. CASE k \notin S
      <3>1. tree' = FindNode(k)
        BY <1>2, <1>12, <2>2 DEF avlUpdateData
      <3> QED BY <1>2, <3>1 DEF Outcome
    <2> QED BY <2>1, <2>2
  <1>13. ASSUME NEW k \in Key, avlRemoveByKey(k) PROVE Outcome(tree, S, tree')
    <2>1. CASE k \in S
      <3> DEFINE f == FindNode(k)
      <3>1. Moves(tree, S, f) /\ Relabelled(tree, f) /\ f.current = k /\ f.data = tree.data
        BY <2>1, FindNodeIs
      <3>2. tree' = RemoveNode(f, k)
        BY <1>0, <1>13, <2>1, <3>1 DEF avlRemoveByKey
      <3> HIDE DEF f
      <3>3. PICK R : TakenOut(f, S, k, R, tree')
        BY <2>1, <3>1, <3>2, RemoveNodeTakes DEF Moves
      <3>4. TakenOut(tree, S, k, R, tree')
        <4>1. Leaves(tree, S, k, R)
          BY <3>1, <3>3 DEF TakenOut, Leaves, Relabelled
        <4>2. Carries(tree, S, k, R, tree')
          BY <3>1, <3>3 DEF TakenOut, Carries
        <4> QED BY <1>0, <3>1, <3>3, <4>1, <4>2 DEF TakenOut, Relabelled
      <3> QED BY <3>4 DEF Outcome
    <2>2. CASE k \notin S
      <3>1. tree' = FindNode(k)
        BY <1>2, <1>13, <2>2 DEF avlRemoveByKey
      <3> QED BY <1>2, <3>1 DEF Outcome
    <2> QED BY <2>1, <2>2
  <1>14. ASSUME NEW k \in Key, avlRemoveNode(k) PROVE Outcome(tree, S, tree')
    <2>1. avl_find_node(tree, tree.root, k) = IF k \in S THEN k ELSE Nil
      BY CallsFind
    <2>2. k \in S /\ tree' = RemoveNode(tree, k)
      BY <1>14, <2>1 DEF avlRemoveNode
    <2> QED BY <2>2, RemoveNodeTakes DEF Outcome
  <1> QED BY <1>3, <1>4, <1>5, <1>6, <1>7, <1>8, <1>9, <1>10, <1>11, <1>12, <1>13, <1>14 DEF Next

(***************************************************************************)
(* The shape of the tree                                                   *)
(***************************************************************************)

(* After every call the links lead from the root to the nodes of one branch, *)
TreeInv == \E S \in SUBSET Key : TreeOf(tree, S)

(* whatever keys are inserted, found, updated and removed, and whether or not keys are copied. *)
THEOREM TreeInvariant == Spec => []TreeInv
  <1>1. Init => TreeInv
    BY NewTreeIs DEF Init, TreeInv
  <1>2. TreeInv /\ [Next]_tree => TreeInv'
    <2>1. SUFFICES ASSUME TreeInv, Next PROVE \E R \in SUBSET Key : TreeOf(tree', R)
      BY DEF TreeInv
    <2>2. PICK S \in SUBSET Key : TreeOf(tree, S)
      BY <2>1 DEF TreeInv
    <2>3. Outcome(tree, S, tree')
      BY <2>1, <2>2, StepsDo
    <2>4. \E R : TreeOf(tree', R)
      <3>1. CASE tree' = avlNewTree
        BY <3>1, NewTreeIs
      <3> QED BY <2>3, <3>1 DEF Outcome, Moves, PutIn, Updated, TakenOut
    <2>5. PICK R : TreeOf(tree', R)
      BY <2>4
    <2>6. R \in SUBSET Key
      BY <2>5, TreeOfIs DEF InOrder
    <2> QED BY <2>5, <2>6
  <1> QED BY <1>1, <1>2, PTL DEF Spec

(* avlRealTreeHeight computes the height of a branch, level by level. *)
LEMMA HeightsAre ==
    ASSUME NEW t \in Tree, NEW x, NEW S, NEW h, Sub(t, x, S, h), h <= t.at_nodes
    PROVE  avlRealTreeHeight(t, x) = h
  <1> DEFINE F == Heights(t)
             N == t.at_nodes
             P == [n \in Nat |-> {f \in [Pointer -> Nat] :
                      \A y \in Pointer, R \in SUBSET Key, k \in Nat : Sub(t, y, R, k) /\ k <= n => f[y] = k}]
             f0 == [y \in Pointer |-> 0]
  <1>0. x \in Pointer /\ S \in SUBSET Key /\ h \in Nat /\ N \in Nat /\ Nil \notin Key
    BY SubKinds, TreeKinds, TreeAssumption
  <1>1. f0 \in P[0]
    OBVIOUS
  <1>2. ASSUME NEW n \in Nat, NEW f \in P[n] PROVE F[f] \in P[n + 1]
    <2>1. f \in [Pointer -> Nat] /\ \A y \in Pointer, R \in SUBSET Key, k \in Nat : Sub(t, y, R, k) /\ k <= n => f[y] = k
      BY <1>2
    <2>2. F[f] = [y \in Pointer |-> IF y = Nil THEN 0 ELSE 1 + Higher(f[t.kid["L"][y]], f[t.kid["R"][y]])]
      BY <2>1 DEF Heights
    <2> HIDE DEF F
    <2>3. ASSUME NEW y \in Pointer, y # Nil PROVE t.kid["L"][y] \in Pointer /\ t.kid["R"][y] \in Pointer /\ y \in Key
      BY <2>3, LeftRight, TreeKinds DEF Pointer
    <2>4. F[f] \in [Pointer -> Nat]
      <3>1. ASSUME NEW y \in Pointer, y # Nil PROVE 1 + Higher(f[t.kid["L"][y]], f[t.kid["R"][y]]) \in Nat
        <4>1. f[t.kid["L"][y]] \in Nat /\ f[t.kid["R"][y]] \in Nat
          BY <2>1, <2>3, <3>1
        <4>2. Higher(f[t.kid["L"][y]], f[t.kid["R"][y]]) \in Nat
          BY <4>1, HigherIs
        <4> QED BY <4>2
      <3> QED BY <2>2, <3>1
    <2>5. ASSUME NEW y \in Pointer, NEW R \in SUBSET Key, NEW k \in Nat, Sub(t, y, R, k), k <= n + 1
          PROVE  F[f][y] = k
      <3>1. CASE y = Nil
        BY <2>2, <2>5, <3>1, SubTop
      <3>2. CASE y # Nil
        <4>1. PICK A, B \in SUBSET Key, m, j \in Nat : Joins(t, "L", y, A, m, B, j) /\ k = 1 + Higher(m, j)
          BY <2>3, <2>5, <3>2, Split, LeftRight DEF MadeOf
        <4>2. Sub(t, t.kid["L"][y], A, m) /\ Sub(t, t.kid["R"][y], B, j)
          BY <4>1, LeftRight DEF Joins, Hangs
        <4>3. Higher(m, j) \in Nat /\ m <= Higher(m, j) /\ j <= Higher(m, j)
          BY <4>1, HigherIs
        <4>4. m <= n /\ j <= n
          BY <2>5, <4>1, <4>3
        <4>5. f[t.kid["L"][y]] = m /\ f[t.kid["R"][y]] = j
          BY <2>1, <2>3, <3>2, <4>1, <4>2, <4>4
        <4> QED BY <2>2, <3>2, <4>1, <4>5
      <3> QED BY <3>1, <3>2
    <2> QED BY <2>4, <2>5
  <1> HIDE DEF P, F, f0
  <1>3. Iterated(F, f0, N) \in P[N]
    BY <1>0, <1>1, <1>2, IteratedIn
  <1>4. Iterated(F, f0, N)[x] = h
    BY <1>0, <1>3 DEF P
  <1> QED BY <1>4 DEF avlRealTreeHeight, Deepest, F, f0

(* w lists the nodes S in their order. *)
Lists(w, S) ==
    /\ w \in Seq(Key) /\ ToSet(w) = S
    /\ \A i, j \in 1 .. Len(w) : i < j => Cmp(w[i], w[j]) < 0

(* Two such lists with a node between them make one. *)
LEMMA ListsJoined ==
    ASSUME NEW a, NEW A \in SUBSET Key, Lists(a, A), NEW b, NEW B \in SUBSET Key, Lists(b, B),
           NEW x \in Key, \A y \in A : OnSide("L", y, x), \A y \in B : OnSide("R", y, x)
    PROVE  Lists(a \o <<x>> \o b, A \cup {x} \cup B)
  <1> DEFINE w == a \o <<x>> \o b
             p == Len(a)
             q == Len(b)
  <1>0. a \in Seq(Key) /\ b \in Seq(Key) /\ p \in Nat /\ q \in Nat
    BY LenProperties DEF Lists
  <1>1. w \in Seq(Key) /\ Len(w) = p + 1 + q
    BY <1>0
  <1>2. ASSUME NEW i \in 1 .. p + 1 + q
        PROVE  w[i] = IF i <= p THEN a[i] ELSE IF i = p + 1 THEN x ELSE b[i - p - 1]
    BY <1>0
  <1> HIDE DEF w
  <1>3. /\ \A i \in 1 .. p : a[i] \in A
        /\ \A i \in 1 .. q : b[i] \in B
        /\ \A y \in A : \E i \in 1 .. p : a[i] = y
        /\ \A y \in B : \E i \in 1 .. q : b[i] = y
    BY <1>0 DEF Lists, ToSet
  <1>4. ToSet(w) = A \cup {x} \cup B
    <2>1. ToSet(w) = {w[i] : i \in 1 .. p + 1 + q}
      BY <1>1 DEF ToSet
    <2>2. ASSUME NEW i \in 1 .. p + 1 + q PROVE w[i] \in A \cup {x} \cup B
      <3>1. i > p + 1 => i - p - 1 \in 1 .. q
        BY <1>0
      <3> QED BY <1>0, <1>2, <1>3, <3>1
    <2>3. ASSUME NEW y \in A PROVE \E i \in 1 .. p + 1 + q : w[i] = y
      <3>1. PICK i \in 1 .. p : a[i] = y
        BY <1>3
      <3> QED BY <1>0, <1>2, <3>1
    <2>4. \E i \in 1 .. p + 1 + q : w[i] = x
      <3>1. p + 1 \in 1 .. p + 1 + q /\ ~(p + 1 <= p)
        BY <1>0
      <3> QED BY <1>2, <3>1
    <2>5. ASSUME NEW y \in B PROVE \E i \in 1 .. p + 1 + q : w[i] = y
      <3>1. PICK i \in 1 .. q : b[i] = y
        BY <1>3
      <3>2. i + p + 1 \in 1 .. p + 1 + q /\ ~(i + p + 1 <= p) /\ i + p + 1 # p + 1 /\ (i + p + 1) - p - 1 = i
        BY <1>0
      <3> QED BY <1>2, <3>1, <3>2
    <2> QED BY <2>1, <2>2, <2>3, <2>4, <2>5
  <1>5. ASSUME NEW y \in A, NEW z \in B PROVE Cmp(y, x) < 0 /\ Cmp(x, z) < 0 /\ Cmp(y, z) < 0
    <2>1. y \in Key /\ z \in Key /\ Cmp(y, x) < 0 /\ Cmp(x, z) < 0
      BY DEF OnSide
    <2> QED BY <2>1, CmpAssumption
  <1>6. (\A y \in A : Cmp(y, x) < 0) /\ (\A y \in B : Cmp(x, y) < 0)
    BY DEF OnSide
  <1>7. /\ \A i, j \in 1 .. p : i < j => Cmp(a[i], a[j]) < 0
        /\ \A i, j \in 1 .. q : i < j => Cmp(b[i], b[j]) < 0
    BY DEF Lists
  <1>8. ASSUME NEW i \in 1 .. p + 1 + q, NEW j \in 1 .. p + 1 + q, i < j PROVE Cmp(w[i], w[j]) < 0
    <2>1. CASE j <= p
      BY <1>0, <1>2, <1>7, <1>8, <2>1
    <2>2. CASE j = p + 1
      <3>1. w[j] = x /\ w[i] = a[i] /\ i \in 1 .. p
        BY <1>0, <1>2, <1>8, <2>2
      <3> QED BY <1>3, <1>6, <3>1
    <2>3. CASE j > p + 1
      <3> DEFINE k == j - p - 1
      <3>1. k \in 1 .. q /\ w[j] = b[k]
        BY <1>0, <1>2, <2>3
      <3>2. CASE i <= p
        <4>1. w[i] = a[i] /\ i \in 1 .. p
          BY <1>0, <1>2, <3>2
        <4> QED BY <1>3, <1>5, <3>1, <4>1
      <3>3. CASE i = p + 1
        <4>1. w[i] = x
          BY <1>0, <1>2, <3>3
        <4> QED BY <1>3, <1>6, <3>1, <4>1
      <3>4. CASE i > p + 1
        <4>1. w[i] = b[i - p - 1] /\ i - p - 1 \in 1 .. q /\ i - p - 1 < k
          BY <1>0, <1>2, <1>8, <3>4
        <4> QED BY <1>7, <3>1, <4>1
      <3> QED BY <1>0, <3>2, <3>3, <3>4
    <2> QED BY <1>0, <2>1, <2>2, <2>3
  <1> QED BY <1>1, <1>4, <1>8 DEF Lists, w

(* avl_visit_node lists the nodes of a branch, level by level. *)
LEMMA VisitsAre ==
    ASSUME NEW t \in Tree, NEW x, NEW S, NEW h, Sub(t, x, S, h), h <= t.at_nodes
    PROVE  Lists(avl_visit_node(t, x), S)
  <1> DEFINE F == Visits(t)
             N == t.at_nodes
             P == [n \in Nat |-> {f \in [Pointer -> Seq(Key)] :
                      \A y \in Pointer, R \in SUBSET Key, k \in Nat : Sub(t, y, R, k) /\ k <= n => Lists(f[y], R)}]
             f0 == [y \in Pointer |-> << >>]
  <1>0. x \in Pointer /\ S \in SUBSET Key /\ h \in Nat /\ N \in Nat /\ Nil \notin Key
    BY SubKinds, TreeKinds, TreeAssumption
  <1>a. Lists(<< >>, {}) /\ << >> \in Seq(Key)
    BY DEF Lists, ToSet
  <1>1. f0 \in P[0]
    <2>1. f0 \in [Pointer -> Seq(Key)]
      BY <1>a
    <2>2. ASSUME NEW y \in Pointer, NEW R \in SUBSET Key, NEW k \in Nat, Sub(t, y, R, k), k <= 0
          PROVE  Lists(f0[y], R)
      <3>1. R = {}
        BY <2>2, SubTop
      <3> QED BY <1>a, <3>1
    <2> HIDE DEF f0
    <2> QED BY <2>1, <2>2
  <1>2. ASSUME NEW n \in Nat, NEW f \in P[n] PROVE F[f] \in P[n + 1]
    <2>1. f \in [Pointer -> Seq(Key)]
          /\ \A y \in Pointer, R \in SUBSET Key, k \in Nat : Sub(t, y, R, k) /\ k <= n => Lists(f[y], R)
      BY <1>2
    <2>2. F[f] = [y \in Pointer |-> IF y = Nil THEN << >> ELSE f[t.kid["L"][y]] \o <<y>> \o f[t.kid["R"][y]]]
      BY <2>1 DEF Visits
    <2> HIDE DEF F
    <2>3. ASSUME NEW y \in Pointer, y # Nil PROVE t.kid["L"][y] \in Pointer /\ t.kid["R"][y] \in Pointer /\ y \in Key
      BY <2>3, LeftRight, TreeKinds DEF Pointer
    <2>4. F[f] \in [Pointer -> Seq(Key)]
      <3>1. ASSUME NEW y \in Pointer, y # Nil PROVE f[t.kid["L"][y]] \o <<y>> \o f[t.kid["R"][y]] \in Seq(Key)
        <4>1. f[t.kid["L"][y]] \in Seq(Key) /\ f[t.kid["R"][y]] \in Seq(Key) /\ <<y>> \in Seq(Key)
          BY <2>1, <2>3, <3>1
        <4> QED BY <4>1, ConcatProperties
      <3> QED BY <1>a, <2>2, <3>1
    <2>5. ASSUME NEW y \in Pointer, NEW R \in SUBSET Key, NEW k \in Nat, Sub(t, y, R, k), k <= n + 1
          PROVE  Lists(F[f][y], R)
      <3>1. CASE y = Nil
        <4>1. R = {} /\ F[f][y] = << >>
          BY <2>2, <2>5, <3>1, SubTop
        <4> QED BY <1>a, <4>1
      <3>2. CASE y # Nil
        <4>1. PICK A, B \in SUBSET Key, m, j \in Nat :
                  Joins(t, "L", y, A, m, B, j) /\ R = A \cup {y} \cup B /\ k = 1 + Higher(m, j)
          <5>1. y \in Key
            BY <2>3, <3>2
          <5>2. MadeOf(t, "L", y, R, k)
            BY <2>5, <5>1, Split, LeftRight
          <5> QED BY <5>2 DEF MadeOf
        <4>2. /\ Sub(t, t.kid["L"][y], A, m) /\ Sub(t, t.kid["R"][y], B, j)
              /\ (\A z \in A : OnSide("L", z, y)) /\ \A z \in B : OnSide("R", z, y)
          BY <4>1, LeftRight DEF Joins, Hangs, Fits
        <4>3. Higher(m, j) \in Nat /\ m <= Higher(m, j) /\ j <= Higher(m, j)
          BY <4>1, HigherIs
        <4>4. m <= n /\ j <= n
          BY <2>5, <4>1, <4>3
        <4>5. Lists(f[t.kid["L"][y]], A) /\ Lists(f[t.kid["R"][y]], B)
          BY <2>1, <2>3, <3>2, <4>1, <4>2, <4>4
        <4>6. Lists(f[t.kid["L"][y]] \o <<y>> \o f[t.kid["R"][y]], R)
          BY <2>3, <3>2, <4>1, <4>2, <4>5, ListsJoined
        <4> QED BY <2>2, <3>2, <4>6
      <3> QED BY <3>1, <3>2
    <2>6. P[n + 1] = {g \in [Pointer -> Seq(Key)] :
             \A y \in Pointer, R \in SUBSET Key, k \in Nat : Sub(t, y, R, k) /\ k <= n + 1 => Lists(g[y], R)}
      OBVIOUS
    <2> DEFINE G == F[f]
    <2>7. G \in [Pointer -> Seq(Key)] /\ \A y \in Pointer, R \in SUBSET Key, k \in Nat :
                                        Sub(t, y, R, k) /\ k <= n + 1 => Lists(G[y], R)
      BY <2>4, <2>5
    <2> HIDE DEF G, P
    <2>8. G \in P[n + 1]
      BY <2>6, <2>7
    <2> QED BY <2>8 DEF G
  <1> HIDE DEF P, F, f0
  <1>3. Iterated(F, f0, N) \in P[N]
    BY <1>0, <1>1, <1>2, IteratedIn
  <1>4. Lists(Iterated(F, f0, N)[x], S)
    BY <1>0, <1>3 DEF P
  <1> QED BY <1>4 DEF avl_visit_node, Deepest, F, f0

(* so that the tree is balanced as it says, its links agree and its count is right. *)
LEMMA ShapeIs == ASSUME TreeInv PROVE AvlShape
  <1>1. PICK S \in SUBSET Key : TreeOf(tree, S)
    BY DEF TreeInv
  <1>2. PICK h : InOrder(tree, S, h)
    BY <1>1, TreeOfIs
  <1>3. /\ tree \in Tree /\ h \in Nat /\ Sub(tree, tree.root, S, h) /\ h <= tree.at_nodes
        /\ tree.at_nodes = Cardinality(S) /\ tree.at_nodes \in Nat /\ Nil \notin Key
        /\ (tree.root # Nil => tree.parent[tree.root] = Nil)
    BY <1>2, TreeAssumption DEF InOrder, Rooted
  <1>4. ToSet(Nodes(tree)) = S
    BY <1>3, VisitsAre DEF Nodes, Lists
  <1>5. ASSUME NEW k \in S
        PROVE  /\ avl_check_node(tree, k)
               /\ tree.high[k] = avlRealTreeHeight(tree, tree.kid["R"][k]) - avlRealTreeHeight(tree, tree.kid["L"][k])
               /\ \A s \in Side : tree.kid[s][k] # Nil => tree.parent[tree.kid[s][k]] = k
    <2>0. k \in Key
      OBVIOUS
    <2>1. PICK Y \in SUBSET S, j \in Nat : Sub(tree, k, Y, j) /\ j <= h /\ MadeOf(tree, "L", k, Y, j)
      BY <1>3, SubAll
    <2>2. PICK A, B \in SUBSET Key, m, n \in Nat : Joins(tree, "L", k, A, m, B, n) /\ j = 1 + Higher(m, n)
      BY <2>1 DEF MadeOf
    <2>3. /\ Sub(tree, tree.kid["L"][k], A, m) /\ Sub(tree, tree.kid["R"][k], B, n)
          /\ Leans(tree.high[k], "L", m, n)
      BY <2>2, LeftRight DEF Joins, Hangs
    <2>4. Higher(m, n) \in Nat /\ m <= Higher(m, n) /\ n <= Higher(m, n)
      BY <2>2, HigherIs
    <2>5. m <= tree.at_nodes /\ n <= tree.at_nodes
      BY <1>3, <2>1, <2>2, <2>4
    <2>6. avlRealTreeHeight(tree, tree.kid["L"][k]) = m /\ avlRealTreeHeight(tree, tree.kid["R"][k]) = n
      BY <1>3, <2>3, <2>5, HeightsAre
    <2>7. \/ m = n /\ tree.high[k] = 0
          \/ m = n + 1 /\ tree.high[k] = -1
          \/ n = m + 1 /\ tree.high[k] = 1
      BY <2>3, LeftRight DEF Leans, HighTo, LeftHigh, RightHigh, EqualHigh
    <2>8. avl_check_node(tree, k)
      BY <2>2, <2>6, <2>7 DEF avl_check_node
    <2>9. tree.high[k] = n - m
      BY <2>2, <2>7
    <2>10. \A s \in Side : tree.kid[s][k] # Nil => tree.parent[tree.kid[s][k]] = k
      BY <1>3, SubKids
    <2> QED BY <2>6, <2>8, <2>9, <2>10
  <1> QED BY <1>3, <1>4, <1>5 DEF AvlShape

(* After any sequence of calls, with or without copied keys, the tree passes the check that
   the source carries with it. *)
THEOREM ShapeInvariant == Spec => []AvlShape
  BY TreeInvariant, ShapeIs, PTL

(***************************************************************************)
(* The map                                                                 *)
(***************************************************************************)

(* The keys that are found are those of the nodes. *)
LEMMA KeysAre == ASSUME NEW t, NEW S, TreeOf(t, S) PROVE Keys(t) = S
  <1>1. S \in SUBSET Key /\ Nil \notin Key
    BY TreeOfIs, TreeAssumption DEF InOrder
  <1>2. \A k \in Key : avl_find_node(t, t.root, k) = IF k \in S THEN k ELSE Nil
    BY CallsFind
  <1> QED BY <1>1, <1>2 DEF Keys

(* The predecessor of a node with two children. *)
LEMMA PrecedesBeneath ==
    ASSUME NEW t, NEW S, TreeOf(t, S), NEW k \in S, \A a \in Side : t.kid[a][k] # Nil
    PROVE  IsNext(S, "L", k, Neighbour(t, k, "L")) /\ \E y \in S : OnSide("R", y, k)
  <1>1. PICK h : InOrder(t, S, h)
    BY TreeOfIs
  <1>2. /\ t \in Tree /\ S \in SUBSET Key /\ IsFiniteSet(S) /\ t.at_nodes = Cardinality(S)
        /\ h \in Nat /\ Sub(t, t.root, S, h) /\ h <= t.at_nodes
    BY <1>1 DEF InOrder, Rooted
  <1>3. ASSUME NEW s \in Side PROVE IsNext(S, s, k, Neighbour(t, k, s))
    BY <1>2, NeighbourBeneath
  <1>4. PICK l \in Side, r \in Side : l = "L" /\ r = "R"
    BY LeftRight
  <1>5. IsNext(S, l, k, Neighbour(t, k, l)) /\ IsNext(S, r, k, Neighbour(t, k, r))
    BY <1>3
  <1> QED BY <1>4, <1>5 DEF IsNext

(* Only a removal inside loses the currency. *)
LEMMA LosesInside ==
    ASSUME TreeInv, Next, tree'.current = Freed, tree.current # Freed
    PROVE  \E k \in Keys(tree) :
              /\ \A s \in Side : tree.kid[s][k] # Nil
              /\ Keys(tree') = Keys(tree) \ {IF CopyKeys THEN Neighbour(tree, k, "L") ELSE k}
  <1>1. PICK S \in SUBSET Key : TreeOf(tree, S)
    BY DEF TreeInv
  <1>2. Outcome(tree, S, tree')
    BY <1>1, StepsDo
  <1>3. PICK k \in Key : \E R : TakenOut(tree, S, k, R, tree')
    BY <1>1, <1>2, NewTreeIs, TreeAssumption DEF Outcome, Moves, PutIn, Updated
  <1>4. PICK R : TakenOut(tree, S, k, R, tree')
    BY <1>3
  <1>5. /\ k \in S /\ TreeOf(tree', R) /\ Leaves(tree, S, k, R)
        /\ \A a \in Side : tree.kid[a][k] # Nil
    BY <1>4 DEF TakenOut
  <1>6. R = S \ {IF CopyKeys THEN Neighbour(tree, k, "L") ELSE k}
    <2>1. CASE CopyKeys
      <3>1. PICK z : R = S \ {z} /\ IsNext(S, "L", k, z)
        BY <1>5, <2>1 DEF Leaves
      <3>2. IsNext(S, "L", k, Neighbour(tree, k, "L"))
        BY <1>1, <1>5, PrecedesBeneath
      <3>3. z = Neighbour(tree, k, "L")
        BY <1>5, <3>1, <3>2, LeftRight, NextOnly
      <3> QED BY <2>1, <3>1, <3>3
    <2>2. CASE ~CopyKeys
      BY <1>5, <2>2 DEF Leaves
    <2> QED BY <2>1, <2>2
  <1>7. Keys(tree) = S /\ Keys(tree') = R
    BY <1>1, <1>5, KeysAre
  <1> QED BY <1>5, <1>6, <1>7

(* Of all calls only the removal of a node with two children leaves the currency freed: on
   that node, or on its predecessor when its key is not copied. *)
THEOREM CurrencyTheorem == Spec => CurrencyLostOnlyInside
  <1>1. TreeInv /\ [Next]_tree =>
            [tree'.current = Freed /\ tree.current # Freed
               => \E k \in Keys(tree) :
                    /\ \A s \in Side : tree.kid[s][k] # Nil
                    /\ Keys(tree') = Keys(tree) \ {IF CopyKeys THEN Neighbour(tree, k, "L") ELSE k}]_tree
    BY LosesInside
  <1> QED BY <1>1, TreeInvariant, PTL DEF Spec, CurrencyLostOnlyInside

(* Each call does to the map what its name says. *)
LEMMA StepsMap ==
    ASSUME NEW S, TreeOf(tree, S), Next
    PROVE  Map!Step
  <1> DEFINE m == Contents
  <1>0. /\ S \in SUBSET Key /\ Nil \notin Key /\ Freed \notin Key /\ Keys(tree) = S /\ Contents = [k \in S |-> tree.data[k]]
    BY TreeOfIs, KeysAre, TreeAssumption DEF InOrder, Contents
  <1>1. ASSUME NEW R, TreeOf(tree', R) PROVE Contents' = [k \in R |-> tree'.data[k]]
    BY <1>1, KeysAre DEF Contents
  <1>2. Outcome(tree, S, tree')
    BY StepsDo
  <1>3. CASE Moves(tree, S, tree')
    <2>1. Contents' = Contents /\ tree'.current \in S \cup {Nil}
      BY <1>0, <1>1, <1>3 DEF Moves
    <2>2. CASE tree'.current = Nil
      BY <2>1, <2>2 DEF Map!Step, Map!Clear
    <2>3. CASE tree'.current \in S
      <3>1. Map!Find(tree'.current)
        BY <1>0, <2>1, <2>3 DEF Map!Find, Map!Found
      <3> QED BY <1>0, <2>3, <3>1 DEF Map!Step
    <2> QED BY <2>1, <2>2, <2>3
  <1>4. ASSUME NEW k \in Key, PutIn(tree, S, k, tree') PROVE Map!Step
    <2>1. /\ k \notin S /\ Contents' = [x \in S \cup {k} |-> tree'.data[x]] /\ tree'.current = k
          /\ tree'.data = [tree.data EXCEPT ![k] = k] /\ tree.data \in [Key -> Key \cup {Nil, Fresh}]
      BY <1>1, <1>4, TreeKinds DEF PutIn, TreeOf
    <2>2. Contents' = [x \in S \cup {k} |-> IF x = k THEN k ELSE Contents[x]]
      BY <1>0, <2>1
    <2>3. Map!Insert(k)
      BY <1>0, <2>1, <2>2 DEF Map!Insert
    <2> QED BY <2>3 DEF Map!Step
  <1>5. ASSUME NEW k \in Key, Updated(tree, S, k, tree') PROVE Map!Step
    <2>1. /\ k \in S /\ Contents' = [x \in S |-> tree'.data[x]] /\ tree'.current = k
          /\ tree'.data = [tree.data EXCEPT ![k] = Fresh] /\ tree.data \in [Key -> Key \cup {Nil, Fresh}]
      BY <1>1, <1>5, TreeKinds DEF Updated, TreeOf
    <2>2. Contents' = [x \in S |-> IF x = k THEN Fresh ELSE Contents[x]]
      BY <1>0, <2>1
    <2>3. Map!Update(k)
      BY <1>0, <2>1, <2>2 DEF Map!Update, Map!Found
    <2> QED BY <2>3 DEF Map!Step
  <1>6. ASSUME NEW k \in Key, NEW R, TakenOut(tree, S, k, R, tree') PROVE Map!Step
    <2>1. /\ k \in S /\ R \in SUBSET S /\ Contents' = [x \in R |-> tree'.data[x]] /\ Leaves(tree, S, k, R)
          /\ tree'.current \in {Nil, Freed, tree.current} \ {k} /\ Carries(tree, S, k, R, tree')
      BY <1>1, <1>6 DEF TakenOut
    <2>2. CASE R = S \ {k}
      <3>1. Contents' = [x \in S \ {k} |-> Contents[x]]
        BY <1>0, <2>1, <2>2 DEF Carries
      <3>2. Map!Remove(k)
        BY <1>0, <2>1, <3>1 DEF Map!Remove
      <3> QED BY <3>2 DEF Map!Step
    <2>3. CASE R # S \ {k}
      <3>1. CopyKeys /\ \A a \in Side : tree.kid[a][k] # Nil
        BY <2>1, <2>3 DEF Leaves
      <3>2. PICK z \in S \ {k} : R = S \ {z} /\ IsNext(S, "L", k, z)
        BY <2>1, <2>3 DEF Leaves
      <3>3. PICK y \in S : OnSide("R", y, k)
        BY <2>1, <3>1, PrecedesBeneath
      <3>4. /\ \A x \in S : Map!Before(x, k) <=> OnSide("L", x, k)
            /\ \A x \in S : Map!Before(x, z) <=> OnSide("L", x, z)
            /\ Map!Before(k, y)
        BY <3>3 DEF Map!Before, OnSide
      <3>5. z \in Map!Preceding(k) /\ y \in Map!Following(k)
        BY <1>0, <3>2, <3>4 DEF Map!Preceding, Map!Following, IsNext
      <3>6. \A x \in Map!Preceding(k) \ {z} : Map!Before(x, z)
        BY <1>0, <3>2, <3>4 DEF Map!Preceding, IsNext
      <3>7. Contents' = [x \in S \ {z} |-> IF x = k THEN Contents[z] ELSE Contents[x]]
        BY <1>0, <2>1, <3>2 DEF Carries
      <3>8. tree'.current = Freed
        BY <1>6, <3>1, <3>2 DEF TakenOut
      <3>9. Map!Displace(k)
        BY <1>0, <2>1, <3>1, <3>5, <3>6, <3>7, <3>8 DEF Map!Displace
      <3> QED BY <3>9 DEF Map!Step
    <2> QED BY <2>2, <2>3
  <1>7. CASE tree' = avlNewTree
    <2>1. Contents' = [k \in {} |-> Nil] /\ tree'.current = Nil
      BY <1>1, <1>7, NewTreeIs
    <2>2. Map!Close
      BY <2>1 DEF Map!Close, Map!Init
    <2> QED BY <2>2 DEF Map!Step
  <1> QED BY <1>2, <1>3, <1>4, <1>5, <1>6, <1>7 DEF Outcome

(* The tree is an ordered map with a currency; with keys that stay, where they are not copied
   with their data. *)
THEOREM MapImplemented == Spec => ImplementsMap
  <1>1. Init => Map!Init
    <2>1. SUFFICES ASSUME Init PROVE Contents = [k \in {} |-> Nil] /\ tree.current = Nil
      BY DEF Map!Init
    <2>2. TreeOf(tree, {}) /\ tree.current = Nil
      BY <2>1, NewTreeIs DEF Init
    <2>3. Keys(tree) = {}
      BY <2>2, KeysAre
    <2> QED BY <2>2, <2>3 DEF Contents
  <1>2. TreeInv /\ [Next]_tree => [Map!Step]_(Map!vars)
    <2>1. CASE UNCHANGED tree
      BY <2>1 DEF Map!vars, Contents
    <2>2. ASSUME TreeInv, Next PROVE Map!Step
      BY <2>2, StepsMap DEF TreeInv
    <2> QED BY <2>1, <2>2
  <1> QED BY <1>1, <1>2, TreeInvariant, PTL DEF Spec, ImplementsMap, Map!Spec

(***************************************************************************)
(* Walks                                                                   *)
(***************************************************************************)

(* v lists the nodes S on their way to side s. *)
ListsTo(v, S, s) ==
    /\ v \in Seq(Key) /\ ToSet(v) = S
    /\ \A i, j \in 1 .. Len(v) : i < j => OnSide(s, v[j], v[i])

(* A list in order is one on the way to the right, and its reverse to the left. *)
LEMMA ListsBothWays ==
    ASSUME NEW w, NEW S, Lists(w, S)
    PROVE  ListsTo(w, S, "R") /\ ListsTo(Reverse(w), S, "L")
  <1> DEFINE n == Len(w)  v == Reverse(w)
  <1>0. /\ w \in Seq(Key) /\ n \in Nat /\ ToSet(w) = S
        /\ \A i, j \in 1 .. n : i < j => Cmp(w[i], w[j]) < 0
    BY LenProperties DEF Lists
  <1>1. ListsTo(w, S, "R")
    BY <1>0 DEF ListsTo, OnSide
  <1>2. v = [i \in 1 .. n |-> w[(n - i) + 1]]
    BY DEF Reverse
  <1>3. \A i \in 1 .. n : (n - i) + 1 \in 1 .. n /\ w[(n - i) + 1] \in Key
    BY <1>0
  <1>4. v \in Seq(Key) /\ Len(v) = n /\ \A i \in 1 .. n : v[i] = w[(n - i) + 1]
    <2>1. v \in [1 .. n -> Key]
      BY <1>2, <1>3
    <2>2. v \in Seq(Key)
      BY <1>0, <2>1, SeqDef
    <2>3. Len(v) = n
      BY <1>0, <2>1, <2>2, LenProperties
    <2> QED BY <1>2, <2>2, <2>3
  <1> HIDE DEF v
  <1>5. ToSet(v) = S
    <2>1. DOMAIN v = 1 .. n /\ DOMAIN w = 1 .. n
      BY <1>0, <1>4
    <2>2. ToSet(v) = {v[i] : i \in 1 .. n} /\ S = {w[i] : i \in 1 .. n}
      BY <1>0, <2>1 DEF ToSet
    <2>3. \A i \in 1 .. n : v[(n - i) + 1] = w[i] /\ (n - i) + 1 \in 1 .. n
      <3>1. \A i \in 1 .. n : (n - ((n - i) + 1)) + 1 = i
        BY <1>0
      <3> QED BY <1>3, <1>4, <3>1
    <2>4. ASSUME NEW x \in ToSet(v) PROVE x \in S
      BY <1>3, <1>4, <2>2
    <2>5. ASSUME NEW x \in S PROVE x \in ToSet(v)
      <3>1. PICK i \in 1 .. n : x = w[i]
        BY <2>2
      <3>2. v[(n - i) + 1] = x /\ (n - i) + 1 \in 1 .. n
        BY <2>3, <3>1
      <3> QED BY <2>2, <3>2
    <2> QED BY <2>4, <2>5
  <1>6. ASSUME NEW i \in 1 .. n, NEW j \in 1 .. n, i < j PROVE OnSide("L", v[j], v[i])
    <2>1. (n - j) + 1 < (n - i) + 1
      BY <1>0, <1>6
    <2> QED BY <1>0, <1>3, <1>4, <2>1 DEF OnSide
  <1>7. ListsTo(v, S, "L")
    BY <1>4, <1>5, <1>6 DEF ListsTo
  <1> QED BY <1>1, <1>7 DEF v

(* A list has as many members as there are nodes. *)
LEMMA ListLength ==
    ASSUME NEW S \in SUBSET Key, NEW s \in Side, NEW v, ListsTo(v, S, s)
    PROVE  Len(v) = Cardinality(S)
  <1> DEFINE n == Len(v)
  <1>0. /\ v \in Seq(Key) /\ n \in Nat /\ ToSet(v) = S
        /\ \A i, j \in 1 .. n : i < j => OnSide(s, v[j], v[i])
    BY LenProperties DEF ListsTo
  <1>1. DOMAIN v = 1 .. n /\ v = [i \in 1 .. n |-> v[i]] /\ S = {v[i] : i \in 1 .. n}
    BY <1>0 DEF ToSet
  <1>2. v \in [1 .. n -> S]
    BY <1>1
  <1>3. ASSUME NEW i \in 1 .. n, NEW j \in 1 .. n, v[i] = v[j] PROVE i = j
    <2>1. v[i] \in Key /\ ~OnSide(s, v[i], v[i])
      BY <1>1, Order
    <2> QED BY <1>0, <1>3, <2>1
  <1>4. v \in Injection(1 .. n, S)
    BY <1>1, <1>2, <1>3 DEF Injection, IsInjective
  <1>5. v \in Surjection(1 .. n, S)
    BY <1>1, <1>2 DEF Surjection
  <1>6. ExistsBijection(1 .. n, S)
    BY <1>4, <1>5 DEF ExistsBijection, Bijection
  <1> QED BY <1>0, <1>6, FS_CountingElements

(* The end of the nodes is the first in the list, *)
LEMMA EndIsFirst ==
    ASSUME NEW t, NEW S \in SUBSET Key, NEW s \in Side, NEW v, ListsTo(v, S, s), NEW z, IsEnd(t, S, Other(s), z)
    PROVE  Len(v) >= 1 /\ z = v[1]
  <1>0. /\ v \in Seq(Key) /\ Len(v) \in Nat /\ S = {v[i] : i \in 1 .. Len(v)}
        /\ \A i, j \in 1 .. Len(v) : i < j => OnSide(s, v[j], v[i])
    BY LenProperties DEF ListsTo, ToSet
  <1>1. z \in S /\ \A y \in S \ {z} : OnSide(s, y, z)
    BY Sides DEF IsEnd
  <1>2. PICK i \in 1 .. Len(v) : v[i] = z
    BY <1>0, <1>1
  <1>3. 1 \in 1 .. Len(v)
    BY <1>0, <1>2
  <1>4. ASSUME i # 1 PROVE FALSE
    <2>1. OnSide(s, z, v[1]) /\ v[1] \in S /\ z \in Key /\ v[1] \in Key
      BY <1>0, <1>1, <1>2, <1>3, <1>4
    <2>2. v[1] # z
      BY <2>1, Order
    <2>3. OnSide(s, v[1], z)
      BY <1>1, <2>1, <2>2
    <2> QED BY <2>1, <2>3, Order
  <1> QED BY <1>2, <1>3, <1>4

(* and the neighbour of a node is the next in it. *)
LEMMA NeighbourIsNext ==
    ASSUME NEW S \in SUBSET Key, NEW s \in Side, NEW v, ListsTo(v, S, s), NEW i \in 1 .. Len(v),
           NEW z, IsNeighbour(S, s, v[i], z)
    PROVE  z = IF i = Len(v) THEN Nil ELSE v[i + 1]
  <1>0. /\ v \in Seq(Key) /\ Len(v) \in Nat /\ S = {v[k] : k \in 1 .. Len(v)}
        /\ \A k, j \in 1 .. Len(v) : k < j => OnSide(s, v[j], v[k])
    BY LenProperties DEF ListsTo, ToSet
  <1>1. \A k, j \in 1 .. Len(v) : OnSide(s, v[j], v[k]) => k < j
    <2>1. SUFFICES ASSUME NEW k \in 1 .. Len(v), NEW j \in 1 .. Len(v), OnSide(s, v[j], v[k]), ~(k < j) PROVE FALSE
      OBVIOUS
    <2>2. v[j] \in Key /\ v[k] \in Key
      BY <1>0
    <2>3. ~OnSide(s, v[k], v[j]) /\ v[j] # v[k]
      BY <2>1, <2>2, Order
    <2>4. j < k
      BY <1>0, <2>1, <2>3
    <2> QED BY <1>0, <2>3, <2>4
  <1>2. CASE i = Len(v)
    <2>1. \A y \in S : ~OnSide(s, y, v[i])
      BY <1>0, <1>1, <1>2
    <2> QED BY <1>2, <2>1 DEF IsNeighbour
  <1>3. CASE i # Len(v)
    <2>1. i + 1 \in 1 .. Len(v) /\ i < i + 1
      BY <1>0, <1>3
    <2>2. OnSide(s, v[i + 1], v[i]) /\ v[i + 1] \in S
      BY <1>0, <2>1
    <2>3. z \in S /\ OnSide(s, z, v[i]) /\ \A y \in S \ {z} : OnSide(s, y, v[i]) => OnSide(s, y, z)
      BY <2>2 DEF IsNeighbour, IsNext
    <2>4. PICK j \in 1 .. Len(v) : z = v[j]
      BY <1>0, <2>3
    <2>5. i < j
      BY <1>1, <2>3, <2>4
    <2>6. ASSUME j # i + 1 PROVE FALSE
      <3>1. i + 1 < j
        BY <1>0, <2>5, <2>6
      <3>2. OnSide(s, z, v[i + 1]) /\ v[i + 1] # z
        BY <1>0, <1>1, <2>1, <2>4, <3>1
      <3>3. OnSide(s, v[i + 1], z)
        BY <2>2, <2>3, <3>2
      <3>4. j < i + 1
        BY <1>1, <2>1, <2>4, <3>3
      <3> QED BY <1>0, <3>1, <3>4
    <2> QED BY <1>3, <2>4, <2>6
  <1> QED BY <1>2, <1>3

(* A walk by steps goes along the list. *)
LEMMA WalkGoes ==
    ASSUME NEW t, NEW S, TreeOf(t, S), NEW s \in Side, NEW v, ListsTo(v, S, s)
    PROVE  WalkFrom(t, Outermost(t, t.root, Other(s)), s) = v
  <1> DEFINE n == Len(v)
             N == t.at_nodes
             e == Outermost(t, t.root, Other(s))
             F == Further(t, s)
             P == [i \in Nat |-> {u \in Seq(Key) : /\ Len(u) >= 1 /\ Len(u) <= n /\ (Len(u) = n \/ Len(u) = i + 1)
                                                   /\ \A k \in 1 .. Len(u) : u[k] = v[k]}]
  <1>0. /\ S \in SUBSET Key /\ Other(s) \in Side /\ Other(Other(s)) = s /\ N = Cardinality(S) /\ N \in Nat
        /\ v \in Seq(Key) /\ n \in Nat /\ ToSet(v) = S /\ Nil \notin Key /\ (t.root = Nil => S = {}) /\ t \in Tree
    BY TreeOfIs, Sides, LenProperties, TreeAssumption DEF InOrder, ListsTo
  <1>1. n = N
    BY <1>0, ListLength
  <1>2. CASE S = {}
    <2>1. n = 0
      BY <1>0, <1>1, <1>2, FS_EmptySet
    <2>2. v = << >>
      BY <1>0, <2>1
    <2>3. e = Nil
      BY <1>0, <1>2, CallsFind
    <2> QED BY <2>2, <2>3 DEF WalkFrom
  <1>3. CASE S # {}
    <2>1. IsEnd(t, S, Other(s), e)
      BY <1>0, <1>3, CallsFind
    <2>2. n >= 1 /\ e = v[1] /\ e \in Key /\ e # Nil
      <3>1. n >= 1 /\ e = v[1]
        BY <1>0, <2>1, EndIsFirst
      <3> QED BY <1>0, <3>1
    <2> HIDE DEF e
    <2>3. <<e>> \in P[0]
      <3>1. <<e>> \in Seq(Key) /\ Len(<<e>>) = 1 /\ <<e>>[1] = e
        BY <2>2
      <3> QED BY <1>0, <2>2, <3>1
    <2>4. ASSUME NEW i \in Nat, NEW u \in P[i] PROVE F[u] \in P[i + 1]
      <3>1. /\ u \in Seq(Key) /\ Len(u) >= 1 /\ Len(u) <= n /\ (Len(u) = n \/ Len(u) = i + 1)
            /\ (\A k \in 1 .. Len(u) : u[k] = v[k]) /\ Len(u) \in Nat
        BY <2>4, LenProperties
      <3> DEFINE j == Len(u)
                 z == Neighbour(t, u[j], s)
      <3>2. F[u] = IF z = Nil THEN u ELSE Append(u, z)
        BY <3>1 DEF Further
      <3>3. u[j] = v[j] /\ v[j] \in S /\ j \in 1 .. n
        <4>1. j \in 1 .. j /\ j \in 1 .. n
          BY <1>0, <3>1
        <4> QED BY <1>0, <3>1, <4>1 DEF ToSet
      <3>4. IsNeighbour(S, s, v[j], z)
        BY <3>3, CallsFind
      <3> HIDE DEF z, F
      <3>5. z = IF j = n THEN Nil ELSE v[j + 1]
        <4>1. S \in SUBSET Key /\ j \in 1 .. Len(v)
          BY <1>0, <3>3
        <4> HIDE DEF j, P
        <4> QED BY <4>1, <3>4, NeighbourIsNext
      <3>6. CASE j = n
        <4>1. F[u] = u
          BY <3>2, <3>5, <3>6
        <4> QED BY <3>1, <3>6, <4>1
      <3>7. CASE j # n
        <4>1. j + 1 \in 1 .. n /\ z = v[j + 1] /\ z \in Key /\ j = i + 1
          BY <1>0, <3>1, <3>3, <3>5, <3>7
        <4>2. F[u] = Append(u, z)
          BY <1>0, <3>2, <4>1
        <4> DEFINE a == Append(u, z)
        <4>3. a \in Seq(Key) /\ Len(a) = j + 1 /\ (\A k \in 1 .. j : a[k] = u[k]) /\ a[j + 1] = z
          BY <3>1, <4>1, AppendProperties
        <4> HIDE DEF a
        <4>4. \A k \in 1 .. j + 1 : a[k] = v[k]
          BY <1>0, <3>1, <4>1, <4>3
        <4>5. a \in P[i + 1]
          BY <1>0, <3>1, <4>1, <4>3, <4>4
        <4> QED BY <4>2, <4>5 DEF a
      <3> QED BY <3>6, <3>7
    <2> HIDE DEF P, F
    <2>5. Iterated(F, <<e>>, N) \in P[N]
      BY <1>0, <2>3, <2>4, IteratedIn
    <2> DEFINE u == Iterated(F, <<e>>, N)
    <2>6. u \in Seq(Key) /\ Len(u) <= n /\ (Len(u) = n \/ Len(u) = N + 1) /\ \A k \in 1 .. Len(u) : u[k] = v[k]
      BY <1>0, <2>5 DEF P
    <2>7. WalkFrom(t, e, s) = u
      BY <2>2 DEF WalkFrom, Deepest, F
    <2> HIDE DEF u
    <2>8. Len(u) = n
      BY <1>0, <1>1, <2>6
    <2>9. u = v
      BY <1>0, <2>6, <2>8, SeqEqual
    <2> QED BY <2>7, <2>9 DEF e
  <1> QED BY <1>2, <1>3

(* The searches and the walks agree about what is in the tree. *)
LEMMA WalksAre == ASSUME TreeInv PROVE WalksAgree
  <1>1. PICK S \in SUBSET Key : TreeOf(tree, S)
    BY DEF TreeInv
  <1>2. PICK h : InOrder(tree, S, h)
    BY <1>1, TreeOfIs
  <1>3. Lists(Nodes(tree), S)
    BY <1>2, VisitsAre DEF Nodes, InOrder
  <1>4. ListsTo(Nodes(tree), S, "R") /\ ListsTo(Reverse(Nodes(tree)), S, "L")
    BY <1>3, ListsBothWays
  <1>5. WalkFrom(tree, Outermost(tree, tree.root, "L"), "R") = Nodes(tree)
    <2>1. PICK s \in Side : s = "R" /\ Other(s) = "L"
      BY LeftRight
    <2> QED BY <1>1, <1>4, <2>1, WalkGoes
  <1>6. WalkFrom(tree, Outermost(tree, tree.root, "R"), "L") = Reverse(Nodes(tree))
    <2>1. PICK s \in Side : s = "L" /\ Other(s) = "R"
      BY LeftRight
    <2> QED BY <1>1, <1>4, <2>1, WalkGoes
  <1>7. \A k \in Key : avl_find_node(tree, tree.root, k) = IF k \in ToSet(Nodes(tree)) THEN k ELSE Nil
    BY <1>1, <1>3, CallsFind DEF Lists
  <1> QED BY <1>5, <1>6, <1>7 DEF WalksAgree

(* After any sequence of calls, searches and walks by steps meet what the recursive walk meets. *)
THEOREM WalksInvariant == Spec => []WalksAgree
  BY TreeInvariant, WalksAre, PTL
=============================================================================
