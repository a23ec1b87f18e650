-------------------------- MODULE ContainerProofs --------------------------
(***************************************************************************)
(* The ring of dlist.c and the heap of heap.c, for every pool of nodes,    *)
(* every data and every increment, and the hash table of a JSON object,    *)
(* for every set of keys, every hash and every size from three slots on.   *)
(***************************************************************************)
EXTENDS DList, Heap, LinkHash, JsonObjects, FiniteSetTheorems, WellFoundedInduction, TLAPS

(***************************************************************************)
(* The ring                                                                *)
(*                                                                         *)
(* RingIntact says what a walk finds.  The invariant says instead that     *)
(* every set closed under next that holds the caller's node holds all of   *)
(* them, which a step of the links can be followed through without         *)
(* induction along the ring.                                               *)
(***************************************************************************)

(* Each link undoes the other. *)
Doubly(D, f, b) == \A n \in D : b[f[n]] = n /\ f[b[n]] = n

Rings(D, f, b) == f \in [D -> D] /\ b \in [D -> D] /\ Doubly(D, f, b)

(* What LinkBefore makes of the two links, and what dl_delete does. *)
NextWith(f, b, n, r) == [Extend(f, n, r) EXCEPT ![b[r]] = n]
PrevWith(b, n, r) == [Extend(b, n, b[r]) EXCEPT ![r] = n]
NextWithout(f, b, n) == Drop([f EXCEPT ![b[n]] = f[n]], n)
PrevWithout(f, b, n) == Drop([b EXCEPT ![f[n]] = b[n]], n)

(* Whatever r leads to along f is everything: there is no second ring beside it. *)
OneRing(D, f, r) == \A S \in SUBSET D : r \in S /\ (\A m \in S : f[m] \in S) => S = D

(* The links are between nodes in use. *)
LinksOK == /\ Used \subseteq Node
           /\ next \in [Used -> Used]
           /\ prev \in [Used -> Used]
           /\ dlist \in Node \cup {NULL}
           /\ dangling \in BOOLEAN

(* The pointer of the caller, unless it is lost, leads to every node in use. *)
ReachesAll == ~dangling => IF dlist = NULL THEN Used = {}
                           ELSE dlist \in Used /\ OneRing(Used, next, dlist)

RingInv == LinksOK /\ Doubly(Used, next, prev) /\ ReachesAll

(* A node alone is a ring. *)
LEMMA NewRing ==
    ASSUME NEW n, NEW f, f = [m \in {n} |-> n]
    PROVE  f \in [{n} -> {n}] /\ Doubly({n}, f, f) /\ OneRing({n}, f, n)
  BY DEF Doubly, OneRing

(* Linking a new node before the node r leaves one ring, which both lead to. *)
LEMMA Inserted ==
    ASSUME NEW D, NEW f, NEW b, Rings(D, f, b), NEW r \in D, OneRing(D, f, r), NEW n, n \notin D
    PROVE  /\ Rings(D \cup {n}, NextWith(f, b, n, r), PrevWith(b, n, r))
           /\ OneRing(D \cup {n}, NextWith(f, b, n, r), r)
           /\ OneRing(D \cup {n}, NextWith(f, b, n, r), n)
  <1> DEFINE f2 == NextWith(f, b, n, r)  b2 == PrevWith(b, n, r)
  <1>0. f \in [D -> D] /\ b \in [D -> D] /\ Doubly(D, f, b)
    BY DEF Rings
  <1>1. /\ DOMAIN f = D /\ DOMAIN b = D /\ b[r] \in D /\ f[b[r]] = r
    BY <1>0 DEF Doubly
  <1>2. f2 = [m \in D \cup {n} |-> IF m = b[r] THEN n ELSE IF m = n THEN r ELSE f[m]]
    BY <1>0, <1>1 DEF Extend, NextWith
  <1>3. b2 = [m \in D \cup {n} |-> IF m = r THEN n ELSE IF m = n THEN b[r] ELSE b[m]]
    BY <1>0, <1>1 DEF Extend, PrevWith
  <1> HIDE DEF f2, b2
  <1>4. f2 \in [D \cup {n} -> D \cup {n}]
    BY <1>0, <1>1, <1>2
  <1>5. b2 \in [D \cup {n} -> D \cup {n}]
    BY <1>0, <1>1, <1>3
  <1>6. Doubly(D \cup {n}, f2, b2)
    <2> SUFFICES ASSUME NEW m \in D \cup {n} PROVE b2[f2[m]] = m /\ f2[b2[m]] = m
      BY DEF Doubly
    <2>1. CASE m = n
      BY <2>1, <1>1, <1>2, <1>3
    <2>2. CASE m \in D
      <3>1. b2[f2[m]] = m
        <4>1. CASE m = b[r]
          BY <4>1, <1>1, <1>2, <1>3
        <4>2. CASE m # b[r]
          <5>1. f2[m] = f[m] /\ f[m] \in D /\ b[f[m]] = m
            BY <2>2, <4>2, <1>0, <1>2 DEF Doubly
          <5>2. f[m] # r
            BY <5>1, <4>2
          <5> QED BY <5>1, <5>2, <1>3
        <4> QED BY <4>1, <4>2
      <3>2. f2[b2[m]] = m
        <4>1. CASE m = r
          BY <4>1, <1>1, <1>2, <1>3
        <4>2. CASE m # r
          <5>1. b2[m] = b[m] /\ b[m] \in D /\ f[b[m]] = m
            BY <2>2, <4>2, <1>0, <1>3 DEF Doubly
          <5>2. b[m] # b[r]
            BY <5>1, <1>1, <4>2
          <5> QED BY <5>1, <5>2, <1>2
        <4> QED BY <4>1, <4>2
      <3> QED BY <3>1, <3>2
    <2> QED BY <2>1, <2>2
  <1>7. OneRing(D \cup {n}, f2, r)
    <2> SUFFICES ASSUME NEW S \in SUBSET (D \cup {n}), r \in S, \A m \in S : f2[m] \in S
                 PROVE  S = D \cup {n}
      BY DEF OneRing
    <2>1. \A m \in S \ {n} : f[m] \in S \ {n}
      <3> SUFFICES ASSUME NEW m \in S \ {n} PROVE f[m] \in S \ {n}
        OBVIOUS
      <3>1. m \in D /\ f[m] \in D
        BY <1>0
      <3>2. CASE m = b[r]
        BY <3>1, <3>2, <1>1
      <3>3. CASE m # b[r]
        BY <3>1, <3>3, <1>2
      <3> QED BY <3>2, <3>3
    <2>2. S \ {n} = D
      BY <2>1 DEF OneRing
    <2>3. f2[b[r]] = n /\ b[r] \in S
      BY <2>2, <1>1, <1>2
    <2> QED BY <2>2, <2>3
  <1>8. OneRing(D \cup {n}, f2, n)
    <2>1. f2[n] = r
      BY <1>1, <1>2
    <2> QED BY <2>1, <1>7 DEF OneRing
  <1> QED BY <1>4, <1>5, <1>6, <1>7, <1>8 DEF Rings, f2, b2

(* Unlinking a node leaves what a ring from any other node was a ring. *)
LEMMA Removed ==
    ASSUME NEW D, NEW f, NEW b, Rings(D, f, b), NEW n \in D
    PROVE  /\ Rings(D \ {n}, NextWithout(f, b, n), PrevWithout(f, b, n))
           /\ \A r \in D \ {n} : OneRing(D, f, r) => OneRing(D \ {n}, NextWithout(f, b, n), r)
  <1> DEFINE f2 == NextWithout(f, b, n)  b2 == PrevWithout(f, b, n)
  <1>0. f \in [D -> D] /\ b \in [D -> D] /\ Doubly(D, f, b)
    BY DEF Rings
  <1>1. f2 = [m \in D \ {n} |-> IF m = b[n] THEN f[n] ELSE f[m]]
    BY <1>0 DEF Drop, NextWithout
  <1>2. b2 = [m \in D \ {n} |-> IF m = f[n] THEN b[n] ELSE b[m]]
    BY <1>0 DEF Drop, PrevWithout
  <1> HIDE DEF f2, b2
  <1>3. \A m \in D : /\ f[m] \in D /\ b[m] \in D /\ b[f[m]] = m /\ f[b[m]] = m
    BY <1>0 DEF Doubly
  <1>4. f2 \in [D \ {n} -> D \ {n}]
    <2>1. \A m \in D \ {n} : f[m] = n => m = b[n]
      BY <1>3
    <2>2. \A m \in D \ {n} : m = b[n] => f[n] # n
      BY <1>3
    <2>3. \A m \in D \ {n} : (IF m = b[n] THEN f[n] ELSE f[m]) \in D \ {n}
      BY <1>3, <2>1, <2>2
    <2> QED BY <1>1, <2>3
  <1>5. b2 \in [D \ {n} -> D \ {n}]
    <2>1. \A m \in D \ {n} : b[m] = n => m = f[n]
      BY <1>3
    <2>2. \A m \in D \ {n} : m = f[n] => b[n] # n
      BY <1>3
    <2>3. \A m \in D \ {n} : (IF m = f[n] THEN b[n] ELSE b[m]) \in D \ {n}
      BY <1>3, <2>1, <2>2
    <2> QED BY <1>2, <2>3
  <1>6. Doubly(D \ {n}, f2, b2)
    <2> SUFFICES ASSUME NEW m \in D \ {n} PROVE b2[f2[m]] = m /\ f2[b2[m]] = m
      BY DEF Doubly
    <2>0. f2[m] \in D \ {n} /\ b2[m] \in D \ {n}
      BY <1>4, <1>5
    <2>1. b2[f2[m]] = m
      <3>1. CASE m = b[n]
        <4>1. f2[m] = f[n]
          BY <3>1, <1>1
        <4> QED BY <4>1, <3>1, <2>0, <1>2
      <3>2. CASE m # b[n]
        <4>1. f2[m] = f[m]
          BY <3>2, <1>1
        <4>2. f[m] # f[n] /\ b[f[m]] = m /\ f[m] \in D \ {n}
          BY <4>1, <2>0, <1>3
        <4>3. b2[f[m]] = b[f[m]]
          BY <4>2, <1>2
        <4> QED BY <4>1, <4>2, <4>3
      <3> QED BY <3>1, <3>2
    <2>2. f2[b2[m]] = m
      <3>1. CASE m = f[n]
        <4>1. b2[m] = b[n]
          BY <3>1, <1>2
        <4> QED BY <4>1, <3>1, <2>0, <1>1
      <3>2. CASE m # f[n]
        <4>1. b2[m] = b[m]
          BY <3>2, <1>2
        <4>2. b[m] # b[n] /\ f[b[m]] = m /\ b[m] \in D \ {n}
          BY <4>1, <2>0, <1>3
        <4>3. f2[b[m]] = f[b[m]]
          BY <4>2, <1>1
        <4> QED BY <4>1, <4>2, <4>3
      <3> QED BY <3>1, <3>2
    <2> QED BY <2>1, <2>2
  <1>7. ASSUME NEW r \in D \ {n}, OneRing(D, f, r) PROVE OneRing(D \ {n}, f2, r)
    <2> SUFFICES ASSUME NEW S \in SUBSET (D \ {n}), r \in S, \A m \in S : f2[m] \in S
                 PROVE  S = D \ {n}
      BY DEF OneRing
    <2> DEFINE W == IF b[n] \in S THEN S \cup {n} ELSE S
    <2>1. W \in SUBSET D /\ r \in W
      OBVIOUS
    <2>2. ASSUME NEW m \in W PROVE f[m] \in W
      <3>1. CASE m = n
        <4>1. b[n] \in S
          BY <3>1
        <4>2. f2[b[n]] \in S
          BY <4>1
        <4>3. f2[b[n]] = f[n]
          BY <4>1, <1>1
        <4> QED BY <4>2, <4>3, <3>1
      <3>2. CASE m # n /\ m = b[n]
        <4>1. m \in S
          BY <3>2
        <4> QED BY <4>1, <3>2, <1>3
      <3>3. CASE m # n /\ m # b[n]
        <4>1. m \in S
          BY <3>3
        <4>2. f2[m] \in S
          BY <4>1
        <4>3. f2[m] = f[m]
          BY <4>1, <3>3, <1>1
        <4>4. f[m] \in S
          BY <4>2, <4>3
        <4> QED BY <4>4
      <3> QED BY <3>1, <3>2, <3>3
    <2>3. W = D
      BY <2>1, <2>2, <1>7 DEF OneRing
    <2> QED BY <2>3
  <1> QED BY <1>4, <1>5, <1>6, <1>7 DEF Rings, f2, b2

(* The invariant holds of the empty list, *)
LEMMA InitRing == dl_init => RingInv
  BY DEF dl_init, RingInv, LinksOK, Doubly, ReachesAll, Used, Nothing

(* of what dl_prepend and dl_append make of a list, *)
LEMMA LinkBeforeRingInv ==
    ASSUME RingInv, NEW n \in Node, NEW d, n \notin Used, ~dangling, LinkBefore(n, d),
           UNCHANGED dangling,
           dlist' = n \/ dlist' = IF dlist = NULL THEN n ELSE dlist
    PROVE  RingInv'
  <1> USE NodeAssumption
  <1>1. Used' = Used \cup {n}
    BY DEF LinkBefore, Extend, Used
  <1>2. dlist' \in Node /\ dangling' \in BOOLEAN /\ Used' \subseteq Node /\ ~dangling' /\ dlist' # NULL
    BY <1>1 DEF RingInv, LinksOK, ReachesAll
  <1>3. next \in [Used -> Used] /\ prev \in [Used -> Used] /\ Doubly(Used, next, prev)
    BY DEF RingInv, LinksOK
  <1>4. CASE dlist = NULL
    <2>1. Used = {} /\ Used' = {n} /\ dlist' = n
      BY <1>1, <1>4 DEF RingInv, ReachesAll
    <2>2. next' = [m \in {n} |-> n] /\ prev' = [m \in {n} |-> n]
      <3>1. DOMAIN next = {} /\ DOMAIN prev = {}
        BY <2>1, <1>3
      <3> QED BY <3>1, <1>4 DEF LinkBefore, Extend
    <2>3. /\ next' \in [{n} -> {n}] /\ prev' \in [{n} -> {n}]
          /\ Doubly({n}, next', prev') /\ OneRing({n}, next', n)
      BY <2>2, NewRing
    <2> QED BY <2>1, <2>3, <1>2 DEF RingInv, LinksOK, ReachesAll, Used, Doubly, OneRing
  <1>5. CASE dlist # NULL
    <2>1. dlist \in Used /\ OneRing(Used, next, dlist)
      BY <1>5 DEF RingInv, ReachesAll
    <2>2. /\ next' = [Extend(next, n, dlist) EXCEPT ![prev[dlist]] = n]
          /\ prev' = [Extend(prev, n, prev[dlist]) EXCEPT ![dlist] = n]
      BY <1>5 DEF LinkBefore
    <2>3. /\ next' \in [Used \cup {n} -> Used \cup {n}] /\ prev' \in [Used \cup {n} -> Used \cup {n}]
          /\ Doubly(Used \cup {n}, next', prev')
          /\ OneRing(Used \cup {n}, next', dlist) /\ OneRing(Used \cup {n}, next', n)
      <3>1. Rings(Used, next, prev)
        BY <1>3 DEF Rings
      <3>2. /\ Rings(Used \cup {n}, NextWith(next, prev, n, dlist), PrevWith(prev, n, dlist))
            /\ OneRing(Used \cup {n}, NextWith(next, prev, n, dlist), dlist)
            /\ OneRing(Used \cup {n}, NextWith(next, prev, n, dlist), n)
        BY <3>1, <2>1, Inserted
      <3>3. next' = NextWith(next, prev, n, dlist) /\ prev' = PrevWith(prev, n, dlist)
        BY <2>2 DEF NextWith, PrevWith
      <3> QED BY <3>2, <3>3 DEF Rings
    <2>4. dlist' = n \/ dlist' = dlist
      BY <1>5
    <2>5. LinksOK'
      BY <1>1, <1>2, <2>3 DEF LinksOK
    <2>6. Doubly(Used, next, prev)'
      BY <1>1, <2>3 DEF Doubly
    <2>7. dlist' \in Used' /\ OneRing(Used', next', dlist')
      BY <1>1, <2>1, <2>3, <2>4
    <2>8. ReachesAll'
      BY <1>2, <2>7 DEF ReachesAll, OneRing
    <2> QED BY <2>5, <2>6, <2>8 DEF RingInv
  <1> QED BY <1>4, <1>5

(* of what dl_delete makes of it, *)
LEMMA DeleteRingInv ==
    ASSUME RingInv, NEW d, dl_delete(d)
    PROVE  RingInv'
  <1>1. PICK n \in Used :
            /\ dangling' = (n = dlist)
            /\ next' = Drop([next EXCEPT ![prev[n]] = next[n]], n)
            /\ prev' = Drop([prev EXCEPT ![next[n]] = prev[n]], n)
            /\ data' = Drop(data, n)
    BY DEF dl_delete, FirstWith, Holding
  <1>2. Used' = Used \ {n}
    BY <1>1 DEF Used, Drop
  <1>3. next \in [Used -> Used] /\ prev \in [Used -> Used] /\ Doubly(Used, next, prev)
    BY DEF RingInv, LinksOK
  <1>4. /\ next' \in [Used \ {n} -> Used \ {n}] /\ prev' \in [Used \ {n} -> Used \ {n}]
        /\ Doubly(Used \ {n}, next', prev')
        /\ \A r \in Used \ {n} : OneRing(Used, next, r) => OneRing(Used \ {n}, next', r)
    <2>1. Rings(Used, next, prev)
      BY <1>3 DEF Rings
    <2>2. /\ Rings(Used \ {n}, NextWithout(next, prev, n), PrevWithout(next, prev, n))
          /\ \A r \in Used \ {n} :
                OneRing(Used, next, r) => OneRing(Used \ {n}, NextWithout(next, prev, n), r)
      BY <2>1, Removed
    <2>3. next' = NextWithout(next, prev, n) /\ prev' = PrevWithout(next, prev, n)
      BY <1>1 DEF NextWithout, PrevWithout
    <2> QED BY <2>2, <2>3 DEF Rings
  <1>5. dlist' = dlist /\ dlist # NULL /\ dlist \in Used /\ OneRing(Used, next, dlist)
    BY DEF dl_delete, RingInv, ReachesAll
  <1>6. LinksOK'
    BY <1>1, <1>2, <1>4, <1>5 DEF RingInv, LinksOK
  <1>7. Doubly(Used, next, prev)'
    BY <1>2, <1>4 DEF Doubly
  <1>8. ReachesAll'
    <2>1. ~dangling' => dlist' \in Used' /\ OneRing(Used', next', dlist')
      BY <1>1, <1>2, <1>4, <1>5
    <2> QED BY <2>1, <1>5 DEF ReachesAll, OneRing
  <1> QED BY <1>6, <1>7, <1>8 DEF RingInv

(* and so of every step. *)
LEMMA NextRingInv == RingInv /\ [DListNext]_dlistVars => RingInv'
  <1> SUFFICES ASSUME RingInv, [DListNext]_dlistVars PROVE RingInv'
    OBVIOUS
  <1>1. CASE dl_free
    BY <1>1 DEF dl_free, RingInv, LinksOK, Doubly, ReachesAll, Used, Nothing
  <1>2. ASSUME NEW d \in Datum, dl_delete(d) PROVE RingInv'
    BY <1>2, DeleteRingInv
  <1>3. ASSUME NEW d \in Datum, NEW n \in Node, dl_prepend(n, d) PROVE RingInv'
    BY <1>3, LinkBeforeRingInv DEF dl_prepend
  <1>4. ASSUME NEW d \in Datum, NEW n \in Node, dl_append(n, d) PROVE RingInv'
    BY <1>4, LinkBeforeRingInv DEF dl_append
  <1>5. CASE UNCHANGED dlistVars
    BY <1>5 DEF dlistVars, RingInv, LinksOK, Doubly, ReachesAll, OneRing, Used
  <1> QED BY <1>1, <1>2, <1>3, <1>4, <1>5 DEF DListNext

(* The invariant holds of every state of the list. *)
THEOREM DListInvariant == DListSpec => []RingInv
  <1>1. dl_init => RingInv
    BY InitRing
  <1>2. RingInv /\ [DListNext]_dlistVars => RingInv'
    BY NextRingInv
  <1> QED BY <1>1, <1>2, PTL DEF DListSpec

(* The nodes in use form one ring in both directions, which the pointer of the
   caller leads to while it names a node in use (dlist.c). *)
THEOREM RingStaysIntact == DListSpec => []RingIntact
  <1>1. RingInv => RingIntact
    <2> SUFFICES ASSUME RingInv PROVE RingIntact
      OBVIOUS
    <2>1. \A n \in Used : next[n] \in Used /\ prev[n] \in Used /\ prev[next[n]] = n
      BY DEF RingInv, LinksOK, Doubly
    <2>2. ASSUME dlist # NULL, ~dangling PROVE dlist \in Used /\ Reached({}) = Used
      <3>1. dlist \in Used /\ OneRing(Used, next, dlist)
        BY <2>2 DEF RingInv, ReachesAll
      <3>2. \A S \in SUBSET Used : dlist \in S /\ (\A m \in S \ {} : next[m] \in S) => S = Used
        BY <3>1 DEF OneRing
      <3> QED BY <3>1, <3>2 DEF Reached
    <2> QED BY <2>1, <2>2 DEF RingIntact
  <1> QED BY <1>1, DListInvariant, PTL
-----------------------------------------------------------------------------
(***************************************************************************)
(* Repeated steps                                                          *)
(***************************************************************************)

(* Induction over the natural numbers for a set: the least number outside it would
   have a predecessor inside. *)
LEMMA NatInduct ==
    ASSUME NEW T, 0 \in T, \A n \in Nat : n \in T => n + 1 \in T
    PROVE  \A n \in Nat : n \in T
  <1> SUFFICES ASSUME Nat \ T # {} PROVE FALSE
    OBVIOUS
  <1> DEFINE R == OpToRel(<, Nat)
  <1>1. IsWellFoundedOn(R, Nat)
    BY NatLessThanWellFounded
  <1>2. PICK n \in Nat \ T : \A m \in Nat \ T : <<m, n>> \notin R
    <2>1. Nat \ T \subseteq Nat
      OBVIOUS
    <2> HIDE DEF R
    <2> QED BY <1>1, <2>1, WFMin
  <1>3. n # 0
    OBVIOUS
  <1>4. n - 1 \in Nat /\ (n - 1) + 1 = n /\ n - 1 < n
    BY <1>3
  <1>5. n - 1 \notin T
    BY <1>4
  <1>6. <<n - 1, n>> \in R
    BY <1>4 DEF OpToRel
  <1> QED BY <1>2, <1>4, <1>5, <1>6

(* f[i] is F applied i times to x. *)
Runs(F, x, k, f) == f = [i \in 0 .. k |-> IF i = 0 THEN x ELSE F[f[i - 1]]]

(* The recursive function that Iterated chooses exists. *)
LEMMA RunExists == ASSUME NEW F, NEW x, NEW k \in Nat PROVE \E f : Runs(F, x, k, f)
  <1> DEFINE T == {n \in Nat : \E f : Runs(F, x, n, f)}
  <1>1. 0 \in T
    <2>1. Runs(F, x, 0, [i \in 0 .. 0 |-> x])
      BY DEF Runs
    <2> QED BY <2>1
  <1>2. ASSUME NEW n \in Nat, n \in T PROVE n + 1 \in T
    <2>1. PICK f : Runs(F, x, n, f)
      BY <1>2
    <2> DEFINE g == [i \in 0 .. n + 1 |-> IF i = n + 1 THEN F[f[n]] ELSE f[i]]
    <2>2. \A i \in 0 .. n : g[i] = f[i]
      OBVIOUS
    <2>3. ASSUME NEW i \in 0 .. n + 1
          PROVE  g[i] = IF i = 0 THEN x ELSE F[g[i - 1]]
      <3>1. CASE i = n + 1
        <4>1. i - 1 = n /\ n \in 0 .. n /\ i # 0
          BY <3>1
        <4> QED BY <4>1, <3>1, <2>2
      <3>2. CASE i \in 0 .. n
        <4>1. f[i] = IF i = 0 THEN x ELSE F[f[i - 1]]
          BY <2>1, <3>2 DEF Runs
        <4>2. i # 0 => i - 1 \in 0 .. n
          BY <3>2
        <4>3. i # 0 => g[i - 1] = f[i - 1]
          BY <4>2, <2>2
        <4> HIDE DEF g
        <4> QED BY <4>1, <4>3, <3>2, <2>2
      <3> QED BY <3>1, <3>2
    <2>4. Runs(F, x, n + 1, g)
      <3>1. g = [i \in 0 .. n + 1 |-> g[i]]
        OBVIOUS
      <3> HIDE DEF g
      <3> QED BY <3>1, <2>3 DEF Runs
    <2> QED BY <2>4
  <1> HIDE DEF T
  <1>3. k \in T
    BY <1>1, <1>2, NatInduct
  <1> QED BY <1>3 DEF T

(* A family of sets that F leads along for k steps: each P[n] into P[n + 1]. *)
LEMMA IteratedUpTo ==
    ASSUME NEW F, NEW x, NEW P, x \in P[0], NEW k \in Nat,
           \A n \in Nat : n < k => \A s \in P[n] : F[s] \in P[n + 1]
    PROVE  Iterated(F, x, k) \in P[k]
  <1> DEFINE f == CHOOSE f : Runs(F, x, k, f)
  <1>1. Iterated(F, x, k) = f[k]
    BY DEF Iterated, Runs
  <1>2. Runs(F, x, k, f)
    BY RunExists
  <1>3. \A i \in 0 .. k : f[i] = IF i = 0 THEN x ELSE F[f[i - 1]]
    <2> HIDE DEF f
    <2> QED BY <1>2 DEF Runs
  <1> HIDE DEF f
  <1> DEFINE T == {n \in Nat : n <= k => f[n] \in P[n]}
  <1>4. 0 \in T
    BY <1>3
  <1>5. ASSUME NEW n \in Nat, n \in T PROVE n + 1 \in T
    <2> SUFFICES ASSUME n + 1 <= k PROVE f[n + 1] \in P[n + 1]
      OBVIOUS
    <2>1. f[n] \in P[n]
      BY <1>5
    <2>2. n + 1 \in 0 .. k /\ n + 1 # 0 /\ (n + 1) - 1 = n
      OBVIOUS
    <2>3. f[n + 1] = F[f[n]]
      BY <1>3, <2>2
    <2>4. n < k
      OBVIOUS
    <2> QED BY <2>1, <2>3, <2>4
  <1> HIDE DEF T
  <1>6. k \in T
    BY <1>4, <1>5, NatInduct
  <1> QED BY <1>1, <1>6 DEF T

(* The same for any number of steps. *)
LEMMA IteratedIn ==
    ASSUME NEW F, NEW x, NEW P, x \in P[0],
           \A n \in Nat : \A s \in P[n] : F[s] \in P[n + 1],
           NEW k \in Nat
    PROVE  Iterated(F, x, k) \in P[k]
  BY IteratedUpTo

-----------------------------------------------------------------------------
(***************************************************************************)
(* The heap                                                                *)
(***************************************************************************)

(* The element above another one comes before it. *)
LEMMA ParentBelow ==
    ASSUME NEW i \in Nat \ {0}
    PROVE  Parent(i) \in 0 .. i - 1
  BY DEF Parent

(* A swap exchanges two elements and moves on to the second. *)
LEMMA SwapKinds ==
    ASSUME NEW n \in Nat, NEW s \in Sifting(n), NEW i \in 0 .. n - 1, i # s.at
    PROVE  /\ Swapped(s, i) \in Sifting(n)
           /\ Swapped(s, i).at = i
           /\ Swapped(s, i).a[i] = s.a[s.at] /\ Swapped(s, i).a[s.at] = s.a[i]
           /\ \A j \in 0 .. n - 1 : j # i /\ j # s.at => Swapped(s, i).a[j] = s.a[j]
  BY DEF Swapped, Sifting

(* Ordered everywhere but between the element that moves and the one above it. *)
UpOrder(s, n) ==
    /\ \A i \in 1 .. n - 1 : i # s.at => s.a[i] <= s.a[Parent(i)]
    /\ \A i \in 1 .. n - 1 : Parent(i) = s.at /\ s.at # 0 => s.a[i] <= s.a[Parent(s.at)]

(* After k steps the element is in its place, or has come up by k elements at least. *)
Rising(n, e) ==
    [k \in Nat |-> {s \in Sifting(n) : UpOrder(s, n) /\ (InPlace(s) \/ s.at <= e - k)}]

(* Ordered everywhere but between the element that moves and those below it. *)
DownOrder(s, n) ==
    /\ \A i \in 1 .. n - 1 : Parent(i) # s.at => s.a[i] <= s.a[Parent(i)]
    /\ \A i \in 1 .. n - 1 : Parent(i) = s.at /\ s.at # 0 => s.a[i] <= s.a[Parent(s.at)]

(* After k steps the element is in its place, or has come down to k at least. *)
Sinking(n) ==
    [k \in Nat |-> {s \in Sifting(n) : DownOrder(s, n) /\ (Below(s, n) = s.at \/ s.at >= k)}]

(* No element is greater than the one above it. *)
IsHeap(a, n) == \A i \in 1 .. n - 1 : a[i] <= a[Parent(i)]

(* What a sift works on: the elements are numbers, and each has one above it. *)
LEMMA SiftingKinds ==
    ASSUME NEW n \in Nat, NEW s \in Sifting(n)
    PROVE  /\ s.at \in 0 .. n - 1
           /\ \A i \in 0 .. n - 1 : s.a[i] \in Int
           /\ \A i \in 1 .. n - 1 : Parent(i) \in 0 .. n - 1 /\ Parent(i) < i
  <1>1. \A i \in 1 .. n - 1 : i \in Nat \ {0} /\ i \in Int
    OBVIOUS
  <1>2. \A i \in 1 .. n - 1 : Parent(i) \in 0 .. n - 1 /\ Parent(i) < i
    BY <1>1, ParentBelow
  <1> QED BY <1>2, HeapAssumption DEF Sifting

(* A step of _siftup keeps the order and goes up. *)
LEMMA UpStep ==
    ASSUME NEW n \in Nat, NEW e \in Nat, NEW k \in Nat, NEW s \in Rising(n, e)[k]
    PROVE  Up(n)[s] \in Rising(n, e)[k + 1]
  <1>1. /\ s \in Sifting(n) /\ UpOrder(s, n) /\ (InPlace(s) \/ s.at <= e - k)
    BY DEF Rising
  <1>2. CASE InPlace(s)
    BY <1>1, <1>2 DEF Up, Rising
  <1>3. CASE ~InPlace(s)
    <2> DEFINE p == Parent(s.at)  r == Swapped(s, p)
    <2>1. s.at \in 1 .. n - 1 /\ s.a[p] < s.a[s.at]
      BY <1>1, <1>3, SiftingKinds DEF InPlace
    <2>2. p \in 0 .. n - 1 /\ p < s.at /\ p # s.at
      BY <1>1, <2>1, SiftingKinds
    <2>3. /\ r \in Sifting(n) /\ r.at = p
          /\ r.a[p] = s.a[s.at] /\ r.a[s.at] = s.a[p]
          /\ \A j \in 0 .. n - 1 : j # p /\ j # s.at => r.a[j] = s.a[j]
      BY <1>1, <2>2, SwapKinds
    <2>4. Up(n)[s] = r
      BY <1>1, <1>3 DEF Up
    <2>k. /\ \A i \in 0 .. n - 1 : s.a[i] \in Int /\ r.a[i] \in Int
          /\ \A i \in 1 .. n - 1 : Parent(i) \in 0 .. n - 1 /\ Parent(i) < i /\ i \in 0 .. n - 1
      BY <1>1, <2>3, SiftingKinds
    <2>f. p = Parent(s.at)
      OBVIOUS
    <2> HIDE DEF r, p
    <2>5. ASSUME NEW i \in 1 .. n - 1, i # p PROVE r.a[i] <= r.a[Parent(i)]
      <3>1. CASE i = s.at
        BY <3>1, <2>1, <2>3, <2>k, <2>f, <2>2
      <3>2. CASE i # s.at /\ Parent(i) = s.at
        <4>1. s.at # 0 /\ s.a[i] <= s.a[p]
          BY <3>2, <1>1, <2>1, <2>f DEF UpOrder
        <4>2. r.a[i] = s.a[i] /\ r.a[Parent(i)] = s.a[p]
          BY <3>2, <2>3, <2>k, <2>5
        <4> QED BY <4>1, <4>2
      <3>3. CASE i # s.at /\ Parent(i) = p
        <4>1. s.a[i] <= s.a[p]
          BY <3>3, <1>1 DEF UpOrder
        <4>2. r.a[i] = s.a[i] /\ r.a[Parent(i)] = s.a[s.at]
          BY <3>3, <2>3, <2>k, <2>5
        <4> QED BY <4>1, <4>2, <2>1, <2>k, <2>2
      <3>4. CASE i # s.at /\ Parent(i) # p /\ Parent(i) # s.at
        <4>1. s.a[i] <= s.a[Parent(i)]
          BY <3>4, <1>1 DEF UpOrder
        <4>2. r.a[i] = s.a[i] /\ r.a[Parent(i)] = s.a[Parent(i)]
          BY <3>4, <2>3, <2>k, <2>5
        <4> QED BY <4>1, <4>2
      <3> QED BY <3>1, <3>2, <3>3, <3>4
    <2>6. ASSUME NEW i \in 1 .. n - 1, Parent(i) = p, p # 0 PROVE r.a[i] <= r.a[Parent(p)]
      <3>1. p \in 1 .. n - 1 /\ Parent(p) \in 0 .. n - 1 /\ Parent(p) < p
        BY <2>2, <2>6, <2>k
      <3>2. r.a[Parent(p)] = s.a[Parent(p)]
        BY <3>1, <2>2, <2>3
      <3>3. s.a[p] <= s.a[Parent(p)]
        BY <3>1, <2>2, <1>1 DEF UpOrder
      <3>4. r.a[i] <= s.a[p]
        <4>1. CASE i = s.at
          BY <4>1, <2>3, <2>k, <2>2
        <4>2. CASE i # s.at
          <5>1. i # p
            BY <2>6, <2>k
          <5>2. r.a[i] = s.a[i] /\ s.a[i] <= s.a[p]
            BY <4>2, <5>1, <2>3, <2>6, <2>k, <1>1 DEF UpOrder
          <5> QED BY <5>2
        <4> QED BY <4>1, <4>2
      <3> QED BY <3>1, <3>2, <3>3, <3>4, <2>k, <2>2
    <2>7. UpOrder(r, n)
      BY <2>3, <2>5, <2>6 DEF UpOrder
    <2>8. r.at <= e - (k + 1)
      BY <1>1, <1>3, <2>2, <2>3, SiftingKinds
    <2>9. r \in Rising(n, e)[k + 1]
      BY <2>3, <2>7, <2>8 DEF Rising
    <2> QED BY <2>4, <2>9
  <1> QED BY <1>2, <1>3

(* _siftup of a leaf that alone may be out of order makes a heap. *)
LEMMA SiftUp ==
    ASSUME NEW n \in Nat, NEW e \in 0 .. n - 1, NEW a \in [0 .. n - 1 -> Value],
           \A i \in 1 .. n - 1 : i # e => a[i] <= a[Parent(i)],
           \A i \in 1 .. n - 1 : Parent(i) # e
    PROVE  siftup(a, n, e) \in [0 .. n - 1 -> Value] /\ IsHeap(siftup(a, n, e), n)
  <1> DEFINE x == [a |-> a, at |-> e]  y == Iterated(Up(n), x, e)
  <1>0. e \in Nat
    OBVIOUS
  <1>1. x \in Rising(n, e)[0]
    <2>1. x \in Sifting(n) /\ x.at <= e - 0
      BY DEF Sifting
    <2>2. UpOrder(x, n)
      BY DEF UpOrder
    <2> QED BY <2>1, <2>2 DEF Rising
  <1>2. \A k \in Nat : \A s \in Rising(n, e)[k] : Up(n)[s] \in Rising(n, e)[k + 1]
    BY <1>0, UpStep
  <1> HIDE DEF x
  <1>3. y \in Rising(n, e)[e]
    BY <1>0, <1>1, <1>2, IteratedIn
  <1> HIDE DEF y
  <1>4. y \in Sifting(n) /\ UpOrder(y, n) /\ (InPlace(y) \/ y.at <= e - e)
    BY <1>0, <1>3 DEF Rising
  <1>5. InPlace(y)
    BY <1>0, <1>4, SiftingKinds DEF InPlace
  <1>6. IsHeap(y.a, n)
    BY <1>4, <1>5, SiftingKinds DEF IsHeap, UpOrder, InPlace
  <1>7. siftup(a, n, e) = y.a
    BY DEF siftup, y, x
  <1> QED BY <1>4, <1>6, <1>7 DEF Sifting

(* An element goes down to the greatest of its children, which is greater than it. *)
LEMMA BelowIsChild ==
    ASSUME NEW n \in Nat, NEW s \in Sifting(n), Below(s, n) # s.at
    PROVE  /\ Below(s, n) \in 1 .. n - 1
           /\ Parent(Below(s, n)) = s.at
           /\ s.a[s.at] < s.a[Below(s, n)]
           /\ \A i \in 1 .. n - 1 : Parent(i) = s.at => s.a[i] <= s.a[Below(s, n)]
  <1>1. /\ s.at \in 0 .. n - 1 /\ s.at \in Nat /\ \A i \in 0 .. n - 1 : s.a[i] \in Int
    BY SiftingKinds
  <1> DEFINE left == 2 * s.at + 1  c == BiggerChild(s.a, n, left)
  <1>2. left < n /\ left \in 1 .. n - 1 /\ Below(s, n) = c /\ ~(s.a[s.at] >= s.a[c])
    BY <1>1 DEF Below
  <1>3. ASSUME NEW i \in 1 .. n - 1, Parent(i) = s.at PROVE i = left \/ i = left + 1
    BY <1>1, <1>3 DEF Parent
  <1>4. Parent(left) = s.at /\ Parent(left + 1) = s.at
    BY <1>1 DEF Parent
  <1>5. CASE left + 1 < n /\ s.a[left] <= s.a[left + 1]
    <2>1. c = left + 1
      BY <1>5 DEF BiggerChild
    <2> HIDE DEF c
    <2>2. c \in 1 .. n - 1
      BY <1>2, <1>5, <2>1
    <2>3. s.a[c] \in Int /\ s.a[s.at] \in Int /\ s.a[left] \in Int
      BY <1>1, <1>2, <2>2
    <2> QED BY <1>2, <1>3, <1>4, <1>5, <2>1, <2>2, <2>3
  <1>6. CASE ~(left + 1 < n /\ s.a[left] <= s.a[left + 1])
    <2>1. c = left
      BY <1>6 DEF BiggerChild
    <2> HIDE DEF c
    <2>2. s.a[c] \in Int /\ s.a[s.at] \in Int
      BY <1>1, <1>2, <2>1
    <2>3. left + 1 \in 1 .. n - 1 => s.a[left + 1] <= s.a[left]
      BY <1>1, <1>2, <1>6
    <2> QED BY <1>2, <1>3, <1>4, <2>1, <2>2, <2>3
  <1> QED BY <1>5, <1>6

(* A step of _siftdown keeps the order and goes down. *)
LEMMA DownStep ==
    ASSUME NEW n \in Nat, NEW k \in Nat, NEW s \in Sinking(n)[k]
    PROVE  Down(n)[s] \in Sinking(n)[k + 1]
  <1>1. /\ s \in Sifting(n) /\ DownOrder(s, n) /\ (Below(s, n) = s.at \/ s.at >= k)
    BY DEF Sinking
  <1>2. CASE Below(s, n) = s.at
    BY <1>1, <1>2 DEF Down, Sinking
  <1>3. CASE Below(s, n) # s.at
    <2> DEFINE c == Below(s, n)  r == Swapped(s, c)
    <2>1. /\ c \in 1 .. n - 1 /\ Parent(c) = s.at /\ s.a[s.at] < s.a[c] /\ c # s.at
          /\ \A i \in 1 .. n - 1 : Parent(i) = s.at => s.a[i] <= s.a[c]
      BY <1>1, <1>3, BelowIsChild
    <2>2. s.at \in 0 .. n - 1 /\ s.at < c
      BY <1>1, <2>1, SiftingKinds
    <2>3. /\ r \in Sifting(n) /\ r.at = c
          /\ r.a[c] = s.a[s.at] /\ r.a[s.at] = s.a[c]
          /\ \A j \in 0 .. n - 1 : j # c /\ j # s.at => r.a[j] = s.a[j]
      BY <1>1, <2>1, SwapKinds
    <2>4. Down(n)[s] = r
      BY <1>1, <1>3 DEF Down
    <2>5. /\ \A i \in 0 .. n - 1 : s.a[i] \in Int /\ r.a[i] \in Int
          /\ \A i \in 1 .. n - 1 : Parent(i) \in 0 .. n - 1 /\ Parent(i) < i /\ i \in 0 .. n - 1
      BY <1>1, <2>3, SiftingKinds
    <2> HIDE DEF r, c
    <2>6. ASSUME NEW i \in 1 .. n - 1, Parent(i) # c PROVE r.a[i] <= r.a[Parent(i)]
      <3>1. CASE i = s.at
        <4>1. s.a[c] <= s.a[Parent(s.at)]
          BY <3>1, <1>1, <2>1 DEF DownOrder
        <4>2. r.a[i] = s.a[c] /\ r.a[Parent(i)] = s.a[Parent(s.at)]
          BY <3>1, <2>3, <2>5, <2>6
        <4> QED BY <4>1, <4>2
      <3>2. CASE i # s.at /\ Parent(i) = s.at
        <4>1. r.a[Parent(i)] = s.a[c]
          BY <3>2, <2>3
        <4>2. r.a[i] <= s.a[c]
          <5>1. CASE i = c
            BY <5>1, <2>1, <2>2, <2>3, <2>5
          <5>2. CASE i # c
            <6>1. r.a[i] = s.a[i]
              BY <5>2, <3>2, <2>3, <2>5
            <6> QED BY <6>1, <3>2, <2>1
          <5> QED BY <5>1, <5>2
        <4> QED BY <4>1, <4>2
      <3>3. CASE i # s.at /\ Parent(i) # s.at
        <4>1. s.a[i] <= s.a[Parent(i)]
          BY <3>3, <1>1 DEF DownOrder
        <4>2. i # c
          BY <3>3, <2>1
        <4>3. r.a[i] = s.a[i] /\ r.a[Parent(i)] = s.a[Parent(i)]
          BY <3>3, <4>2, <2>3, <2>5, <2>6
        <4> QED BY <4>1, <4>3
      <3> QED BY <3>1, <3>2, <3>3
    <2>7. ASSUME NEW i \in 1 .. n - 1, Parent(i) = c PROVE r.a[i] <= r.a[Parent(c)]
      <3>1. i # c /\ i # s.at
        BY <2>7, <2>2, <2>5
      <3>2. s.a[i] <= s.a[c]
        BY <2>7, <2>1, <1>1 DEF DownOrder
      <3>3. r.a[i] = s.a[i] /\ r.a[Parent(c)] = s.a[c]
        BY <3>1, <2>1, <2>3, <2>5
      <3> QED BY <3>2, <3>3
    <2>8. DownOrder(r, n)
      BY <2>3, <2>6, <2>7 DEF DownOrder
    <2>9. r.at >= k + 1
      BY <1>1, <1>3, <2>1, <2>2, <2>3
    <2>10. r \in Sinking(n)[k + 1]
      BY <2>3, <2>8, <2>9 DEF Sinking
    <2> QED BY <2>4, <2>10
  <1> QED BY <1>2, <1>3

(* _siftdown of an element that may be too small for its place makes a heap. *)
LEMMA SiftDown ==
    ASSUME NEW n \in Nat, NEW e \in 0 .. n - 1, NEW a \in [0 .. n - 1 -> Value],
           \A i \in 1 .. n - 1 : Parent(i) # e => a[i] <= a[Parent(i)],
           \A i \in 1 .. n - 1 : Parent(i) = e /\ e # 0 => a[i] <= a[Parent(e)]
    PROVE  IsHeap(siftdown(a, n, e), n)
  <1> DEFINE x == [a |-> a, at |-> e]  y == Iterated(Down(n), x, n)
  <1>1. x \in Sinking(n)[0]
    <2>1. x \in Sifting(n) /\ x.at >= 0
      BY DEF Sifting
    <2>2. DownOrder(x, n)
      BY DEF DownOrder
    <2> QED BY <2>1, <2>2 DEF Sinking
  <1>2. \A k \in Nat : \A s \in Sinking(n)[k] : Down(n)[s] \in Sinking(n)[k + 1]
    BY DownStep
  <1> HIDE DEF x
  <1>3. y \in Sinking(n)[n]
    BY <1>1, <1>2, IteratedIn
  <1> HIDE DEF y
  <1>4. y \in Sifting(n) /\ DownOrder(y, n) /\ (Below(y, n) = y.at \/ y.at >= n)
    BY <1>3 DEF Sinking
  <1>5. Below(y, n) = y.at /\ y.at \in 0 .. n - 1 /\ \A i \in 0 .. n - 1 : y.a[i] \in Int
    BY <1>4, SiftingKinds
  <1>6. ASSUME NEW i \in 1 .. n - 1, Parent(i) = y.at PROVE y.a[i] <= y.a[Parent(i)]
    <2> DEFINE left == 2 * y.at + 1  c == BiggerChild(y.a, n, left)
    <2>0. y.at \in Nat /\ i \in Nat \ {0} /\ Parent(i) = (i - 1) \div 2
      BY <1>5 DEF Parent
    <2>1. i = left \/ i = left + 1
      <3>1. (i - 1) \div 2 = y.at
        BY <2>0, <1>6
      <3> QED BY <3>1, <2>0
    <2>2. left < n /\ left \in 0 .. n - 1
      <3>1. left \in Nat /\ (i = left \/ i = left + 1)
        BY <2>0, <2>1
      <3>2. i \in Nat /\ i <= n - 1 /\ n \in Nat
        BY <2>0
      <3> HIDE DEF left
      <3> QED BY <3>1, <3>2
    <2>3. c \in {left, left + 1} /\ c # y.at
      BY <1>5 DEF BiggerChild
    <2>4. y.a[y.at] >= y.a[c]
      BY <1>5, <2>2, <2>3 DEF Below
    <2>5. y.a[i] <= y.a[c]
      <3>1. y.a[left] \in Int /\ (left + 1 < n => y.a[left + 1] \in Int)
        BY <1>5, <2>0, <2>2
      <3>2. CASE left + 1 < n /\ y.a[left] <= y.a[left + 1]
        BY <2>1, <3>1, <3>2 DEF BiggerChild
      <3>3. CASE ~(left + 1 < n /\ y.a[left] <= y.a[left + 1])
        <4>1. c = left
          BY <3>3 DEF BiggerChild
        <4> HIDE DEF c, left
        <4>2. i = left + 1 => y.a[left + 1] <= y.a[left]
          BY <2>0, <2>2, <3>1, <3>3
        <4>3. y.a[left] <= y.a[left]
          BY <3>1
        <4> QED BY <2>1, <4>1, <4>2, <4>3
      <3> QED BY <3>2, <3>3
    <2>6. c \in 0 .. n - 1
      BY <1>5, <2>2 DEF BiggerChild
    <2> HIDE DEF c, left
    <2> QED BY <2>4, <2>5, <2>6, <1>5, <1>6
  <1>7. IsHeap(y.a, n)
    BY <1>4, <1>6 DEF IsHeap, DownOrder
  <1>8. siftdown(a, n, e) = y.a
    BY DEF siftdown, y, x
  <1> QED BY <1>7, <1>8

(* Whatever the order of the array, a sift keeps it an array of n elements. *)
LEMMA SiftDownKinds ==
    ASSUME NEW n \in Nat, NEW e \in 0 .. n - 1, NEW a \in [0 .. n - 1 -> Value]
    PROVE  siftdown(a, n, e) \in [0 .. n - 1 -> Value]
  <1> DEFINE x == [a |-> a, at |-> e]  P == [k \in Nat |-> Sifting(n)]
  <1>1. x \in P[0]
    BY DEF Sifting
  <1>2. ASSUME NEW k \in Nat, NEW s \in P[k] PROVE Down(n)[s] \in P[k + 1]
    <2>1. s \in Sifting(n)
      OBVIOUS
    <2>2. CASE Below(s, n) = s.at
      BY <2>1, <2>2 DEF Down
    <2>3. CASE Below(s, n) # s.at
      <3>1. Below(s, n) \in 0 .. n - 1
        BY <2>1, <2>3, BelowIsChild
      <3>2. Swapped(s, Below(s, n)) \in Sifting(n)
        BY <2>1, <2>3, <3>1, SwapKinds
      <3> QED BY <2>1, <2>3, <3>2 DEF Down
    <2> QED BY <2>2, <2>3
  <1> HIDE DEF P, x
  <1>3. Iterated(Down(n), x, n) \in P[n]
    BY <1>1, <1>2, IteratedIn
  <1>4. Iterated(Down(n), x, n) \in Sifting(n)
    BY <1>3 DEF P
  <1> QED BY <1>4 DEF Sifting, siftdown, x

(* The same for _siftup. *)
LEMMA SiftUpKinds ==
    ASSUME NEW n \in Nat, NEW e \in 0 .. n - 1, NEW a \in [0 .. n - 1 -> Value]
    PROVE  siftup(a, n, e) \in [0 .. n - 1 -> Value]
  <1> DEFINE x == [a |-> a, at |-> e]  P == [k \in Nat |-> Sifting(n)]
  <1>0. e \in Nat
    OBVIOUS
  <1>1. x \in P[0]
    BY DEF Sifting
  <1>2. ASSUME NEW k \in Nat, NEW s \in P[k] PROVE Up(n)[s] \in P[k + 1]
    <2>1. s \in Sifting(n)
      OBVIOUS
    <2>2. CASE InPlace(s)
      BY <2>1, <2>2 DEF Up
    <2>3. CASE ~InPlace(s)
      <3>1. s.at \in 1 .. n - 1
        BY <2>1, <2>3, SiftingKinds DEF InPlace
      <3>2. Parent(s.at) \in 0 .. n - 1 /\ Parent(s.at) # s.at
        BY <2>1, <3>1, SiftingKinds
      <3>3. Swapped(s, Parent(s.at)) \in Sifting(n)
        BY <2>1, <3>2, SwapKinds
      <3> QED BY <2>1, <2>3, <3>3 DEF Up
    <2> QED BY <2>2, <2>3
  <1> HIDE DEF P, x
  <1>3. Iterated(Up(n), x, e) \in P[e]
    BY <1>0, <1>1, <1>2, IteratedIn
  <1>4. Iterated(Up(n), x, e) \in Sifting(n)
    BY <1>0, <1>3 DEF P
  <1> QED BY <1>4 DEF Sifting, siftup, x

(* In a heap an element is not less than any of those it is above. *)
LEMMA AboveIsGreater ==
    ASSUME NEW n \in Nat, NEW a \in [0 .. n - 1 -> Value], IsHeap(a, n),
           NEW i, NEW j \in 0 .. n - 1, Above(i, j)
    PROVE  a[i] >= a[j]
  <1> DEFINE S == {x \in 0 .. j : a[x] >= a[j]}
  <1>0. \A x \in 0 .. n - 1 : a[x] \in Int
    BY HeapAssumption
  <1>1. j \in S /\ S \in SUBSET (0 .. j)
    BY <1>0
  <1>2. ASSUME NEW x \in S \ {0} PROVE Parent(x) \in S
    <2>1. x \in 1 .. n - 1 /\ x \in Nat \ {0}
      OBVIOUS
    <2>2. Parent(x) \in 0 .. x - 1
      BY <2>1, ParentBelow
    <2>3. Parent(x) \in 0 .. j /\ Parent(x) \in 0 .. n - 1 /\ x \in 0 .. n - 1
      BY <2>1, <2>2
    <2>4. a[x] <= a[Parent(x)]
      BY <2>1 DEF IsHeap
    <2> QED BY <1>0, <2>3, <2>4
  <1>3. i \in S
    BY <1>1, <1>2 DEF Above
  <1> QED BY <1>3

-----------------------------------------------------------------------------
(* The inductive invariant: the array has its elements and room for them, and is a heap
   unless a deletion went sideways. *)
HeapInv ==
    /\ nextelement \in Nat
    /\ heapsize \in Nat
    /\ sideways \in BOOLEAN
    /\ array \in [0 .. nextelement - 1 -> Value]
    /\ nextelement <= heapsize
    /\ ~sideways => IsHeap(array, nextelement)

(* It holds of an empty heap, *)
LEMMA InitHeap == hp_init => HeapInv
  <1> SUFFICES ASSUME hp_init PROVE HeapInv
    OBVIOUS
  <1>1. nextelement = 0 /\ 0 .. nextelement - 1 = {} /\ 1 .. nextelement - 1 = {}
    BY DEF hp_init
  <1>2. array \in [{} -> Value]
    BY DEF hp_init
  <1>3. array \in [0 .. nextelement - 1 -> Value]
    BY <1>1, <1>2
  <1>4. heapsize = HEAPINCREMENT /\ sideways \in BOOLEAN
    BY DEF hp_init
  <1>5. heapsize \in Nat /\ 0 <= heapsize
    BY <1>4, HeapAssumption
  <1> QED BY <1>1, <1>3, <1>4, <1>5 DEF HeapInv, IsHeap

(* an addition keeps it, because the new leaf is above nothing, *)
LEMMA AddKeepsHeap ==
    ASSUME HeapInv, NEW v \in Value, hp_add(v)
    PROVE  HeapInv'
  <1> DEFINE n == nextelement + 1
             a == [i \in 0 .. nextelement |-> IF i = nextelement THEN v ELSE array[i]]
  <1>0. nextelement \in Nat /\ array \in [0 .. nextelement - 1 -> Value]
    BY DEF HeapInv
  <1>1. /\ n \in Nat /\ nextelement \in 0 .. n - 1 /\ n - 1 = nextelement
    BY <1>0
  <1>2. a \in [0 .. nextelement -> Value]
    BY <1>0
  <1>3. a \in [0 .. n - 1 -> Value]
    BY <1>1, <1>2
  <1>4. nextelement' = n /\ array' = siftup(a, n, nextelement) /\ sideways' = sideways
    BY DEF hp_add
  <1>5. nextelement' <= heapsize' /\ heapsize' \in Nat
    BY <1>0, HeapAssumption DEF hp_add, HeapInv
  <1>6. \A i \in 1 .. n - 1 : i # nextelement =>
            i \in 1 .. nextelement - 1 /\ a[i] = array[i] /\ a[Parent(i)] = array[Parent(i)]
    <2> SUFFICES ASSUME NEW i \in 1 .. n - 1, i # nextelement
                 PROVE  i \in 1 .. nextelement - 1 /\ a[i] = array[i] /\ a[Parent(i)] = array[Parent(i)]
      OBVIOUS
    <2>1. i \in 1 .. nextelement - 1 /\ i \in Nat \ {0}
      BY <1>0
    <2>2. Parent(i) \in 0 .. nextelement - 1
      BY <1>0, <2>1, ParentBelow
    <2> QED BY <1>0, <2>1, <2>2
  <1>7. \A i \in 1 .. n - 1 : Parent(i) # nextelement
    BY <1>0, ParentBelow
  <1> HIDE DEF a, n
  <1>8. array' \in [0 .. n - 1 -> Value]
    BY <1>1, <1>3, <1>4, SiftUpKinds
  <1>9. ASSUME ~sideways PROVE IsHeap(array', n)
    <2>1. \A i \in 1 .. n - 1 : i # nextelement => a[i] <= a[Parent(i)]
      BY <1>6, <1>9 DEF HeapInv, IsHeap
    <2> QED BY <1>1, <1>3, <1>4, <1>7, <2>1, SiftUp
  <1> QED BY <1>1, <1>4, <1>5, <1>8, <1>9 DEF HeapInv, IsHeap

(* and so does a deletion: the last element is not greater than what it was below, and
   what took its new place was not less than what is below there. *)
LEMMA DeleteKeepsHeap ==
    ASSUME HeapInv, NEW e \in Nat, hp_delete(e)
    PROVE  HeapInv'
  <1> DEFINE n == nextelement - 1
             rest == [i \in 0 .. n - 1 |-> array[i]]
             b == [rest EXCEPT ![e] = array[n]]
  <1>0. nextelement \in Nat /\ array \in [0 .. nextelement - 1 -> Value] /\ e < nextelement
    BY DEF HeapInv, hp_delete
  <1>1. n \in Nat /\ e \in 0 .. n /\ nextelement - 1 = n /\ n \in 0 .. nextelement - 1
    BY <1>0
  <1>2. /\ nextelement' = n /\ heapsize' = heapsize
        /\ array' = IF e = n THEN rest ELSE siftdown(b, n, e)
        /\ sideways' = (sideways \/ ~Above(e, n))
    BY DEF hp_delete
  <1>3. nextelement' <= heapsize' /\ heapsize' \in Nat
    BY <1>0, <1>2 DEF HeapInv
  <1>4. \A i \in 0 .. n - 1 : i \in 0 .. nextelement - 1
    BY <1>0
  <1>5. rest \in [0 .. n - 1 -> Value]
    BY <1>0, <1>4
  <1>6. array[n] \in Value /\ array[e] \in Value
    BY <1>0, <1>1
  <1>7. b \in [0 .. n - 1 -> Value]
    BY <1>5, <1>6
  <1>8. sideways' \in BOOLEAN /\ (~sideways' => ~sideways /\ Above(e, n))
    BY <1>2 DEF HeapInv
  <1>9. \A i \in 0 .. n - 1 : rest[i] = array[i] /\ b[i] = IF i = e THEN array[n] ELSE array[i]
    BY <1>5
  <1>10. \A i \in 1 .. n - 1 : /\ i \in 0 .. n - 1 /\ Parent(i) \in 0 .. n - 1 /\ Parent(i) < i
                               /\ i \in 1 .. nextelement - 1
    BY <1>1, ParentBelow
  <1> HIDE DEF b, rest
  <1>11. CASE e = n
    <2>1. array' = rest
      BY <1>2, <1>11
    <2>2. ~sideways => IsHeap(array', n)
      BY <2>1, <1>9, <1>10 DEF HeapInv, IsHeap
    <2> HIDE DEF n
    <2> QED BY <1>1, <1>2, <1>3, <1>5, <1>8, <2>1, <2>2 DEF HeapInv, IsHeap
  <1>12. CASE e # n
    <2>1. array' = siftdown(b, n, e) /\ e \in 0 .. n - 1
      BY <1>0, <1>1, <1>2, <1>12
    <2>2. array' \in [0 .. n - 1 -> Value]
      BY <1>1, <1>7, <2>1, SiftDownKinds
    <2>3. ASSUME ~sideways, Above(e, n) PROVE IsHeap(array', n)
      <3>1. \A i \in 1 .. n - 1 : array[i] <= array[Parent(i)]
        BY <2>3, <1>10 DEF HeapInv, IsHeap
      <3>2. array[e] >= array[n]
        BY <1>0, <1>1, <2>3, AboveIsGreater DEF HeapInv
      <3>3. \A i \in 0 .. n : array[i] \in Int
        BY <1>0, HeapAssumption
      <3>4. ASSUME NEW i \in 1 .. n - 1, Parent(i) # e PROVE b[i] <= b[Parent(i)]
        <4>1. CASE i = e
          <5>1. b[i] = array[n] /\ b[Parent(i)] = array[Parent(i)] /\ array[i] <= array[Parent(i)]
            BY <4>1, <3>1, <3>4, <1>9, <1>10
          <5>2. array[n] \in Int /\ array[i] \in Int /\ array[Parent(i)] \in Int
            BY <3>3, <1>1, <1>10
          <5> QED BY <5>1, <5>2, <3>2, <4>1
        <4>2. CASE i # e
          BY <4>2, <3>1, <3>4, <1>9, <1>10
        <4> QED BY <4>1, <4>2
      <3>5. ASSUME NEW i \in 1 .. n - 1, Parent(i) = e, e # 0 PROVE b[i] <= b[Parent(e)]
        <4>1. e \in 1 .. n - 1 /\ i # e
          BY <2>1, <3>5, <1>10
        <4>2. b[i] = array[i] /\ b[Parent(e)] = array[Parent(e)]
          BY <4>1, <1>9, <1>10
        <4>3. array[i] <= array[e] /\ array[e] <= array[Parent(e)]
          BY <3>1, <3>5, <4>1
        <4>4. array[i] \in Int /\ array[e] \in Int /\ array[Parent(e)] \in Int
          BY <3>3, <4>1, <1>1, <1>10
        <4> QED BY <4>2, <4>3, <4>4
      <3> HIDE DEF n
      <3> QED BY <1>1, <1>7, <2>1, <3>4, <3>5, SiftDown
    <2> HIDE DEF n
    <2> QED BY <1>1, <1>2, <1>3, <1>8, <2>2, <2>3 DEF HeapInv, IsHeap
  <1> QED BY <1>11, <1>12

(* The invariant holds of every state of the heap. *)
THEOREM HeapInvariant == HeapSpec => []HeapInv
  <1>1. hp_init => HeapInv
    BY InitHeap
  <1>2. HeapInv /\ [HeapNext]_heapVars => HeapInv'
    <2> SUFFICES ASSUME HeapInv, [HeapNext]_heapVars PROVE HeapInv'
      OBVIOUS
    <2>1. CASE UNCHANGED heapVars
      BY <2>1 DEF heapVars, HeapInv, IsHeap
    <2>2. ASSUME NEW v \in Value, hp_add(v) PROVE HeapInv'
      BY <2>2, AddKeepsHeap
    <2>3. ASSUME NEW i \in 0 .. MaxElements - 1, hp_delete(i) PROVE HeapInv'
      BY <2>3, DeleteKeepsHeap
    <2> QED BY <2>1, <2>2, <2>3 DEF HeapNext
  <1> QED BY <1>1, <1>2, PTL DEF HeapSpec

(* The array is in heap order, and never outgrows its allocation, after every addition
   and every deletion of an element above the last one (heap.c:26). *)
THEOREM HeapIsOrdered == HeapSpec => []HeapOrder
  <1>1. HeapInv => HeapOrder
    BY DEF HeapInv, HeapOrder, IsHeap
  <1> QED BY <1>1, HeapInvariant, PTL
-----------------------------------------------------------------------------
(***************************************************************************)
(* The hash table                                                          *)
(***************************************************************************)

(* The slots s hold the keys o and are linked in that order, in both directions; no other
   slot holds a key. *)
Listed(tb, s, o) ==
    /\ s \in [1 .. Len(o) -> Slot(tb.size)]
    /\ \A i \in 1 .. Len(o) : tb.k[s[i]] = o[i]
    /\ \A n \in Slot(tb.size) : tb.k[n] \in FieldName => \E i \in 1 .. Len(o) : s[i] = n
    /\ tb.head = IF Len(o) = 0 THEN NoEntry ELSE s[1]
    /\ tb.tail = IF Len(o) = 0 THEN NoEntry ELSE s[Len(o)]
    /\ \A i \in 1 .. Len(o) : tb.next[s[i]] = IF i = Len(o) THEN NoEntry ELSE s[i + 1]
    /\ \A i \in 1 .. Len(o) : tb.prev[s[i]] = IF i = 1 THEN NoEntry ELSE s[i - 1]

(* Nothing that was never used lies on the way to a key. *)
OnTheWay(tb, k, i) == \A j \in 0 .. i - 1 : tb.k[Probe(tb, k, j)] # EMPTY
Findable(tb) ==
    \A n \in Slot(tb.size) : tb.k[n] \in FieldName =>
        \E i \in Slot(tb.size) : Probe(tb, tb.k[n], i) = n /\ OnTheWay(tb, tb.k[n], i)

Distinct(o) == \A i, j \in 1 .. Len(o) : o[i] = o[j] => i = j

TableInv(tb, o) ==
    /\ tb.size \in Nat /\ tb.size >= 3 /\ tb \in HashTable(tb.size)
    /\ o \in Seq(FieldName) /\ Distinct(o)
    /\ tb.count = Len(o) /\ Len(o) < tb.size
    /\ Findable(tb)
    /\ \E s \in [1 .. Len(o) -> Slot(tb.size)] : Listed(tb, s, o)

(* d is what o holds after its first p keys, and entry n holds the first of them. *)
StillDue(tb, o, p, n, d) ==
    /\ d \in Seq(FieldName) /\ Len(d) = Len(o) - p
    /\ \A i \in 1 .. Len(d) : d[i] = o[p + i]
    /\ IF p = Len(o) THEN n = NoEntry ELSE n \in Slot(tb.size) /\ tb.k[n] = o[p + 1]

(* The iterator has passed the first p keys. *)
Passed(p) == StillDue(table, order, p, iter, due)
IterInv == iterState = "valid" => \E p \in 0 .. Len(order) : Passed(p)

HashInv == TableInv(table, order) /\ IterInv
-----------------------------------------------------------------------------
(***************************************************************************)
(* Probing                                                                 *)
(***************************************************************************)

(* A finite set of natural numbers has a least element. *)
LEMMA LeastExists ==
    ASSUME NEW T \in SUBSET Nat, T # {}
    PROVE  \E i \in T : \A j \in T : i <= j
  <1> DEFINE R == OpToRel(<, Nat)
  <1>1. IsWellFoundedOn(R, Nat)
    BY NatLessThanWellFounded
  <1>2. PICK i \in T : \A j \in T : <<j, i>> \notin R
    <2> HIDE DEF R
    <2> QED BY <1>1, WFMin
  <1>3. \A j \in T : ~(j < i)
    BY <1>2 DEF OpToRel
  <1>4. \A j \in T : i \in Nat /\ j \in Nat
    OBVIOUS
  <1>5. \A j \in T : i <= j
    BY <1>3, <1>4
  <1> QED BY <1>5

(* A probe is a slot, and every slot is probed. *)
LEMMA ProbeRange ==
    ASSUME NEW h \in Nat, NEW N \in Nat, N > 0
    PROVE  /\ \A i \in Slot(N) : (h + i) % N \in Slot(N)
           /\ \A m \in Slot(N) : \E i \in Slot(N) : (h + i) % N = m
  <1> DEFINE r == h % N  q == h \div N
  <1>1. r \in 0 .. N - 1 /\ q \in Nat /\ h = N * q + r
    OBVIOUS
  <1> HIDE DEF r, q
  <1>2. ASSUME NEW i \in Slot(N) PROVE (h + i) % N = IF r + i < N THEN r + i ELSE r + i - N
    <2>1. i \in 0 .. N - 1
      BY DEF Slot
    <2>2. CASE r + i < N
      <3>1. h + i = N * q + (r + i) /\ r + i \in 0 .. N - 1
        BY <1>1, <2>1, <2>2
      <3> QED BY <3>1, <1>1, <2>2
    <2>3. CASE ~(r + i < N)
      <3> DEFINE u == q + 1  x == r + i - N
      <3>1. h + i = N * u + x /\ x \in 0 .. N - 1 /\ u \in Nat
        BY <1>1, <2>1, <2>3
      <3> HIDE DEF u
      <3>2. (N * u + x) % N = x
        BY <3>1
      <3> QED BY <3>1, <3>2, <2>3
    <2> QED BY <2>2, <2>3
  <1>3. ASSUME NEW i \in Slot(N) PROVE (h + i) % N \in Slot(N)
    BY <1>1, <1>2 DEF Slot
  <1>4. ASSUME NEW m \in Slot(N) PROVE \E i \in Slot(N) : (h + i) % N = m
    <2>1. CASE m >= r
      <3>1. m - r \in Slot(N) /\ r + (m - r) < N
        BY <2>1, <1>1 DEF Slot
      <3>2. r + (m - r) = m
        BY <1>1 DEF Slot
      <3> QED BY <3>1, <3>2, <1>2
    <2>2. CASE m < r
      <3>1. m - r + N \in Slot(N) /\ ~(r + (m - r + N) < N)
        BY <2>2, <1>1 DEF Slot
      <3>2. r + (m - r + N) - N = m
        BY <1>1 DEF Slot
      <3> QED BY <3>1, <3>2, <1>2
    <2>3. m >= r \/ m < r
      BY <1>1 DEF Slot
    <2> QED BY <2>1, <2>2, <2>3
  <1> QED BY <1>3, <1>4

(* A slot exactly at the first probe that comes to one of the keys, or no such slot. *)
LEMMA FirstSlotIs ==
    ASSUME NEW tb, NEW N \in Nat, tb.size = N, N > 0, NEW k \in FieldName, NEW keys
    PROVE  \/ /\ FirstSlot(tb, k, keys) = NoEntry
              /\ \A m \in Slot(N) : tb.k[m] \notin keys
           \/ /\ FirstSlot(tb, k, keys) \in Slot(N)
              /\ tb.k[FirstSlot(tb, k, keys)] \in keys
              /\ \E i \in Slot(N) : /\ Probe(tb, k, i) = FirstSlot(tb, k, keys)
                                    /\ \A j \in 0 .. i - 1 : tb.k[Probe(tb, k, j)] \notin keys
  <1> DEFINE hits == Hits(tb, k, keys)
             i == CHOOSE i \in hits : \A j \in hits : i <= j
  <1>0. hash_fn[k] \in Nat
    BY HashAssumption
  <1>1. /\ \A j \in Slot(N) : Probe(tb, k, j) \in Slot(N)
        /\ \A m \in Slot(N) : \E j \in Slot(N) : Probe(tb, k, j) = m
    BY <1>0, ProbeRange DEF Probe
  <1>2. \A j \in Slot(N) : j \in hits <=> tb.k[Probe(tb, k, j)] \in keys
    BY DEF Hits
  <1>3. CASE hits = {}
    <2>1. FirstSlot(tb, k, keys) = NoEntry
      BY <1>3 DEF FirstSlot
    <2> HIDE DEF hits
    <2>2. ASSUME NEW m \in Slot(N) PROVE tb.k[m] \notin keys
      BY <1>1, <1>2, <1>3
    <2> QED BY <2>1, <2>2
  <1>4. CASE hits # {}
    <2>1. hits \in SUBSET Slot(N) /\ hits \in SUBSET Nat
      BY DEF Hits, Slot
    <2>2. FirstSlot(tb, k, keys) = Probe(tb, k, i)
      BY <1>4 DEF FirstSlot
    <2>3. \E x \in hits : \A j \in hits : x <= j
      <3> HIDE DEF hits
      <3> QED BY <2>1, <1>4, LeastExists
    <2>4. i \in hits /\ \A j \in hits : i <= j
      <3> HIDE DEF hits
      <3> QED BY <2>3
    <2> HIDE DEF hits, i
    <2>5. i \in Slot(N) /\ tb.k[Probe(tb, k, i)] \in keys
      BY <2>1, <2>4, <1>2
    <2>6. ASSUME NEW j \in 0 .. i - 1 PROVE tb.k[Probe(tb, k, j)] \notin keys
      <3>1. j \in Slot(N) /\ ~(i <= j)
        BY <2>5 DEF Slot
      <3> QED BY <3>1, <2>4, <1>2
    <2>7. Probe(tb, k, i) \in Slot(N)
      BY <2>5, <1>1
    <2> QED BY <2>2, <2>5, <2>6, <2>7
  <1> QED BY <1>3, <1>4
-----------------------------------------------------------------------------
(***************************************************************************)
(* Looking up                                                              *)
(***************************************************************************)

(* The keys in the slots are those of the sequence, each in one slot. *)
LEMMA KeysInSlots ==
    ASSUME NEW tb, NEW o, TableInv(tb, o)
    PROVE  /\ \A n \in Slot(tb.size) : tb.k[n] \in FieldName => Holds(o, tb.k[n])
           /\ \A k : Holds(o, k) => k \in FieldName /\ \E n \in Slot(tb.size) : tb.k[n] = k
           /\ \A m, n \in Slot(tb.size) : tb.k[m] = tb.k[n] /\ tb.k[m] \in FieldName => m = n
  <1>1. PICK s \in [1 .. Len(o) -> Slot(tb.size)] : Listed(tb, s, o)
    BY DEF TableInv
  <1>2. /\ \A i \in 1 .. Len(o) : tb.k[s[i]] = o[i] /\ s[i] \in Slot(tb.size)
        /\ \A n \in Slot(tb.size) : tb.k[n] \in FieldName => \E i \in 1 .. Len(o) : s[i] = n
    BY <1>1 DEF Listed
  <1>3. /\ \A i, j \in 1 .. Len(o) : o[i] = o[j] => i = j
        /\ o \in Seq(FieldName)
    BY DEF TableInv, Distinct
  <1>4. ASSUME NEW n \in Slot(tb.size), tb.k[n] \in FieldName PROVE Holds(o, tb.k[n])
    <2>1. PICK i \in 1 .. Len(o) : s[i] = n
      BY <1>2, <1>4
    <2> QED BY <2>1, <1>2 DEF Holds
  <1>5. ASSUME NEW k, Holds(o, k) PROVE k \in FieldName /\ \E n \in Slot(tb.size) : tb.k[n] = k
    <2>1. PICK i \in 1 .. Len(o) : o[i] = k
      BY <1>5 DEF Holds
    <2>2. o[i] \in FieldName
      BY <1>3
    <2> QED BY <2>1, <2>2, <1>2
  <1>6. ASSUME NEW m \in Slot(tb.size), NEW n \in Slot(tb.size), tb.k[m] = tb.k[n], tb.k[m] \in FieldName
        PROVE  m = n
    <2>1. PICK i \in 1 .. Len(o) : s[i] = m
      BY <1>2, <1>6
    <2>2. PICK j \in 1 .. Len(o) : s[j] = n
      BY <1>2, <1>6
    <2>3. o[i] = o[j]
      BY <2>1, <2>2, <1>2, <1>6
    <2> QED BY <2>1, <2>2, <2>3, <1>3
  <1> QED BY <1>4, <1>5, <1>6

(* A key is found, in its slot, exactly when it is there, whatever was deleted on the
   way to it. *)
LEMMA LookupFinds ==
    ASSUME NEW tb, NEW o, TableInv(tb, o), NEW k \in FieldName
    PROVE  /\ ~Holds(o, k) => lh_table_lookup_entry(tb, k) = NoEntry
           /\ \A n \in Slot(tb.size) : tb.k[n] = k => lh_table_lookup_entry(tb, k) = n
           /\ Holds(o, k) => /\ lh_table_lookup_entry(tb, k) \in Slot(tb.size)
                             /\ lh_table_lookup_entry(tb, k) # NoEntry
                             /\ tb.k[lh_table_lookup_entry(tb, k)] = k
  <1> DEFINE N == tb.size  keys == {k, EMPTY}  f == FirstSlot(tb, k, keys)
  <1>1. N \in Nat /\ N > 0 /\ k # EMPTY
    BY HashAssumption DEF TableInv
  <1>2. lh_table_lookup_entry(tb, k) = IF f = NoEntry \/ tb.k[f] # k THEN NoEntry ELSE f
    BY DEF lh_table_lookup_entry
  <1>3. \/ f = NoEntry /\ \A m \in Slot(N) : tb.k[m] \notin keys
        \/ /\ f \in Slot(N) /\ tb.k[f] \in keys
           /\ \E i \in Slot(N) : Probe(tb, k, i) = f /\ \A j \in 0 .. i - 1 : tb.k[Probe(tb, k, j)] \notin keys
    <2> HIDE DEF keys
    <2> QED BY <1>1, FirstSlotIs
  <1>4. \A m \in Slot(N) : m # NoEntry
    BY <1>1, HashAssumption DEF Slot
  <1>5. ASSUME ~Holds(o, k) PROVE lh_table_lookup_entry(tb, k) = NoEntry
    <2>1. \A m \in Slot(N) : tb.k[m] # k
      BY <1>5, KeysInSlots
    <2> HIDE DEF f
    <2> QED BY <2>1, <1>2, <1>3
  <1>6. ASSUME NEW n \in Slot(N), tb.k[n] = k PROVE lh_table_lookup_entry(tb, k) = n
    <2>1. PICK i \in Slot(N) : Probe(tb, k, i) = n /\ \A j \in 0 .. i - 1 : tb.k[Probe(tb, k, j)] # EMPTY
      BY <1>6 DEF TableInv, Findable, OnTheWay
    <2> HIDE DEF f
    <2>2. f \in Slot(N) /\ tb.k[f] \in {k, EMPTY}
      BY <1>3, <1>6
    <2>3. PICK x \in Slot(N) : Probe(tb, k, x) = f /\ \A j \in 0 .. x - 1 : tb.k[Probe(tb, k, j)] \notin {k, EMPTY}
      BY <1>3, <1>4, <2>2
    <2>4. tb.k[f] # EMPTY
      <3> SUFFICES ASSUME tb.k[f] = EMPTY PROVE FALSE
        OBVIOUS
      <3>1. ~(i < x)
        <4> SUFFICES ASSUME i < x PROVE FALSE
          OBVIOUS
        <4>1. i \in 0 .. x - 1
          BY <1>1 DEF Slot
        <4> QED BY <4>1, <2>1, <2>3, <1>6
      <3>2. ~(x < i)
        <4> SUFFICES ASSUME x < i PROVE FALSE
          OBVIOUS
        <4>1. x \in 0 .. i - 1
          BY <1>1 DEF Slot
        <4> QED BY <4>1, <2>1, <2>3
      <3>3. x = i
        BY <3>1, <3>2, <1>1 DEF Slot
      <3> QED BY <3>3, <2>1, <2>3, <1>1, <1>6
    <2>5. tb.k[f] = k
      BY <2>2, <2>4
    <2>6. f = n
      BY <2>2, <2>5, <1>6, KeysInSlots
    <2> QED BY <2>5, <2>6, <1>2, <1>4
  <1>7. ASSUME Holds(o, k)
        PROVE  /\ lh_table_lookup_entry(tb, k) \in Slot(N)
               /\ lh_table_lookup_entry(tb, k) # NoEntry
               /\ tb.k[lh_table_lookup_entry(tb, k)] = k
    <2>1. PICK n \in Slot(N) : tb.k[n] = k
      BY <1>7, KeysInSlots
    <2> QED BY <2>1, <1>4, <1>6
  <1> QED BY <1>5, <1>6, <1>7

(* A table that is not full has a slot for another entry. *)
LEMMA FreeSlotExists ==
    ASSUME NEW tb, NEW o, TableInv(tb, o)
    PROVE  \E m \in Slot(tb.size) : tb.k[m] \in {EMPTY, FREED}
  <1> DEFINE N == tb.size
  <1>1. /\ N \in Nat /\ N > 0 /\ tb.k \in [Slot(N) -> FieldName \cup {EMPTY, FREED}]
        /\ Len(o) \in Nat /\ Len(o) < N
    BY DEF TableInv, HashTable
  <1> SUFFICES ASSUME \A m \in Slot(N) : tb.k[m] \in FieldName PROVE FALSE
    BY <1>1
  <1>2. PICK s \in [1 .. Len(o) -> Slot(N)] : Listed(tb, s, o)
    BY DEF TableInv
  <1>3. \A n \in Slot(N) : \E i \in 1 .. Len(o) : s[i] = n
    BY <1>2 DEF Listed
  <1> DEFINE f == [n \in Slot(N) |-> CHOOSE i \in 1 .. Len(o) : s[i] = n]
  <1>4. \A n \in Slot(N) : f[n] \in 1 .. Len(o) /\ s[f[n]] = n
    BY <1>3
  <1>5. f \in [Slot(N) -> 1 .. Len(o)]
    BY <1>4
  <1>6. /\ IsFiniteSet(Slot(N)) /\ IsFiniteSet(1 .. Len(o))
        /\ Cardinality(1 .. Len(o)) < Cardinality(Slot(N))
    <2>0. N - 1 \in Int /\ Len(o) \in Int /\ 0 \in Int /\ 1 \in Int
      BY <1>1
    <2>1. IsFiniteSet(0 .. N - 1) /\ Cardinality(0 .. N - 1) = N
      <3>1. IsFiniteSet(0 .. N - 1) /\ Cardinality(0 .. N - 1) = IF 0 > N - 1 THEN 0 ELSE N - 1 - 0 + 1
        BY <2>0, FS_Interval
      <3>2. (IF 0 > N - 1 THEN 0 ELSE N - 1 - 0 + 1) = N
        BY <1>1
      <3> QED BY <3>1, <3>2
    <2>2. IsFiniteSet(1 .. Len(o)) /\ Cardinality(1 .. Len(o)) = Len(o)
      <3>1. IsFiniteSet(1 .. Len(o)) /\ Cardinality(1 .. Len(o)) = IF 1 > Len(o) THEN 0 ELSE Len(o) - 1 + 1
        BY <2>0, FS_Interval
      <3>2. (IF 1 > Len(o) THEN 0 ELSE Len(o) - 1 + 1) = Len(o)
        BY <1>1
      <3> QED BY <3>1, <3>2
    <2> QED BY <2>1, <2>2, <1>1 DEF Slot
  <1> HIDE DEF f
  <1>7. \E x, y \in Slot(N) : x # y /\ f[x] = f[y]
    BY <1>5, <1>6, FS_PigeonHole
  <1> QED BY <1>4, <1>7
-----------------------------------------------------------------------------
(***************************************************************************)
(* Inserting                                                               *)
(***************************************************************************)

(* What the fields of a table become when k goes to slot n. *)
WithEntry(tb, new, k, n) ==
    /\ new \in HashTable(tb.size) /\ new.size = tb.size /\ new.count = tb.count + 1 /\ new.tail = n
    /\ new.head = IF tb.head = NoEntry THEN n ELSE tb.head
    /\ \A m \in Slot(tb.size) :
          /\ new.k[m] = IF m = n THEN k ELSE tb.k[m]
          /\ new.next[m] = IF m = n THEN NoEntry ELSE IF m = tb.tail THEN n ELSE tb.next[m]
          /\ new.prev[m] = IF m = n THEN tb.tail ELSE tb.prev[m]

(* Insert changes these fields of the table and leaves the others. *)
LEMMA InsertFields ==
    ASSUME NEW tb, tb.size \in Nat, tb \in HashTable(tb.size), NEW k \in FieldName, NEW v \in Val \cup {NoEntry},
           FirstSlot(tb, k, {EMPTY, FREED}) \in Slot(tb.size)
    PROVE  WithEntry(tb, Insert(tb, k, v), k, FirstSlot(tb, k, {EMPTY, FREED}))
  <1> DEFINE N == tb.size  n == FirstSlot(tb, k, {EMPTY, FREED})
  <1> DEFINE nk == [tb.k EXCEPT ![n] = k]  nv == [tb.v EXCEPT ![n] = v]  np == [tb.prev EXCEPT ![n] = tb.tail]
             nn == [m \in Slot(N) |-> IF m = n THEN NoEntry ELSE IF m = tb.tail THEN n ELSE tb.next[m]]
             nh == IF tb.head = NoEntry THEN n ELSE tb.head
             new == Insert(tb, k, v)
  <1>1. /\ n \in Slot(N) /\ tb.count \in Nat /\ tb.head \in Link(N) /\ tb.tail \in Link(N)
        /\ tb.k \in [Slot(N) -> FieldName \cup {EMPTY, FREED}] /\ tb.v \in [Slot(N) -> Val \cup {NoEntry}]
        /\ tb.next \in [Slot(N) -> Link(N)] /\ tb.prev \in [Slot(N) -> Link(N)]
        /\ DOMAIN tb = {"size", "count", "head", "tail", "k", "v", "next", "prev"}
    BY DEF HashTable
  <1>2. /\ new.size = N /\ new.count = tb.count + 1 /\ new.tail = n /\ new.head = nh
        /\ new.k = nk /\ new.v = nv /\ new.prev = np
    <2> HIDE DEF n
    <2> QED BY <1>1 DEF Insert, n
  <1>3. new.next = nn
    <2>1. new.next = [m \in 0 .. tb.size - 1 |-> IF m = n THEN NoEntry ELSE IF m = tb.tail THEN n ELSE tb.next[m]]
      BY <1>1 DEF Insert
    <2> QED BY <2>1, <1>1 DEF Slot
  <1>4. /\ nk \in [Slot(N) -> FieldName \cup {EMPTY, FREED}] /\ nv \in [Slot(N) -> Val \cup {NoEntry}]
        /\ nn \in [Slot(N) -> Link(N)] /\ np \in [Slot(N) -> Link(N)]
        /\ nh \in Link(N) /\ n \in Link(N)
    BY <1>1 DEF Link
  <1>5. \A m \in Slot(N) : /\ nk[m] = IF m = n THEN k ELSE tb.k[m]
                           /\ nn[m] = IF m = n THEN NoEntry ELSE IF m = tb.tail THEN n ELSE tb.next[m]
                           /\ np[m] = IF m = n THEN tb.tail ELSE tb.prev[m]
    BY <1>1
  <1>6. /\ DOMAIN new = {"size", "count", "head", "tail", "k", "v", "next", "prev"}
        /\ new = [x \in DOMAIN new |-> new[x]]
    <2> HIDE DEF n
    <2>1. DOMAIN new = DOMAIN tb
      BY DEF Insert
    <2>2. new = [x \in DOMAIN new |-> new[x]]
      BY DEF Insert
    <2> QED BY <2>1, <2>2, <1>1
  <1> HIDE DEF n, N, nk, nv, np, nn, nh, new
  <1>7. new \in HashTable(N)
    <2>1. new = [size |-> new.size, count |-> new.count, head |-> new.head, tail |-> new.tail,
                 k |-> new.k, v |-> new.v, next |-> new.next, prev |-> new.prev]
      BY <1>6
    <2>2. /\ new.size \in {N} /\ new.count \in Nat /\ new.head \in Link(N) /\ new.tail \in Link(N)
          /\ new.k \in [Slot(N) -> FieldName \cup {EMPTY, FREED}] /\ new.v \in [Slot(N) -> Val \cup {NoEntry}]
          /\ new.next \in [Slot(N) -> Link(N)] /\ new.prev \in [Slot(N) -> Link(N)]
      BY <1>1, <1>2, <1>3, <1>4
    <2> QED BY <2>1, <2>2 DEF HashTable
  <1>8. WithEntry(tb, new, k, n)
    BY <1>2, <1>3, <1>5, <1>7 DEF WithEntry, nh, N
  <1> QED BY <1>8 DEF new, n

(* What Append does, element by element. *)
LEMMA Appended ==
    ASSUME NEW S, NEW o \in Seq(S), NEW k \in S
    PROVE  /\ Append(o, k) \in Seq(S) /\ Len(Append(o, k)) = Len(o) + 1 /\ Len(o) \in Nat
           /\ \A i \in 1 .. Len(o) : Append(o, k)[i] = o[i]
           /\ Append(o, k)[Len(o) + 1] = k
  OBVIOUS

(* An entry with a new key goes to the end of the list and is found where it went. *)
LEMMA InsertKeeps ==
    ASSUME NEW tb, NEW o, TableInv(tb, o), NEW k \in FieldName, ~Holds(o, k), NEW v \in Val \cup {NoEntry},
           Len(o) + 1 < tb.size
    PROVE  /\ TableInv(Insert(tb, k, v), Append(o, k)) /\ Insert(tb, k, v).size = tb.size
           /\ \A m \in Slot(tb.size) : tb.k[m] \in FieldName => Insert(tb, k, v).k[m] = tb.k[m]
  <1> DEFINE N == tb.size  n == FirstSlot(tb, k, {EMPTY, FREED})  new == Insert(tb, k, v)
             L == Len(o)  oo == Append(o, k)
  <1>1. /\ N \in Nat /\ N >= 3 /\ tb \in HashTable(N) /\ o \in Seq(FieldName) /\ Distinct(o)
        /\ tb.count = L /\ Findable(tb)
    BY DEF TableInv
  <1>2. /\ n \in Slot(N) /\ tb.k[n] \in {EMPTY, FREED}
        /\ \E i \in Slot(N) : Probe(tb, k, i) = n /\ \A j \in 0 .. i - 1 : tb.k[Probe(tb, k, j)] \notin {EMPTY, FREED}
    <2>1. N > 0
      BY <1>1
    <2> HIDE DEF N
    <2>2. ~(\A m \in Slot(N) : tb.k[m] \notin {EMPTY, FREED})
      BY FreeSlotExists DEF N
    <2> QED BY <1>1, <2>1, <2>2, FirstSlotIs DEF N
  <1>3. WithEntry(tb, new, k, n)
    <2>1. tb.size \in Nat /\ tb \in HashTable(tb.size) /\ n \in Slot(tb.size)
      BY <1>1, <1>2
    <2> QED BY <2>1, InsertFields
  <1>4. /\ new \in HashTable(N) /\ new.size = N /\ new.count = L + 1 /\ new.tail = n
        /\ new.head = IF tb.head = NoEntry THEN n ELSE tb.head
        /\ \A m \in Slot(N) :
              /\ new.k[m] = IF m = n THEN k ELSE tb.k[m]
              /\ new.next[m] = IF m = n THEN NoEntry ELSE IF m = tb.tail THEN n ELSE tb.next[m]
              /\ new.prev[m] = IF m = n THEN tb.tail ELSE tb.prev[m]
    <2> HIDE DEF n, new
    <2> QED BY <1>1, <1>3 DEF WithEntry
  <1>5. /\ oo \in Seq(FieldName) /\ Len(oo) = L + 1 /\ L \in Nat
        /\ \A i \in 1 .. L : oo[i] = o[i]
        /\ oo[L + 1] = k
    BY <1>1, Appended
  <1>6. tb.k[n] \notin FieldName /\ EMPTY \notin FieldName
    BY <1>2, HashAssumption
  <1>7. \A m \in Slot(N) : m # NoEntry
    BY <1>1, HashAssumption DEF Slot
  <1>8. PICK s \in [1 .. L -> Slot(N)] : Listed(tb, s, o)
    BY DEF TableInv
  <1> HIDE DEF n, new, oo, L, N
  <1>9. /\ \A i \in 1 .. L : s[i] \in Slot(N) /\ tb.k[s[i]] = o[i] /\ o[i] \in FieldName
        /\ \A m \in Slot(N) : tb.k[m] \in FieldName => \E i \in 1 .. L : s[i] = m
        /\ tb.head = IF L = 0 THEN NoEntry ELSE s[1]
        /\ tb.tail = IF L = 0 THEN NoEntry ELSE s[L]
        /\ \A i \in 1 .. L : tb.next[s[i]] = IF i = L THEN NoEntry ELSE s[i + 1]
        /\ \A i \in 1 .. L : tb.prev[s[i]] = IF i = 1 THEN NoEntry ELSE s[i - 1]
    <2>1. \A i \in 1 .. L : s[i] \in Slot(N) /\ o[i] \in FieldName
      BY <1>1 DEF L, N
    <2>2. \A i \in 1 .. L : tb.k[s[i]] = o[i]
      BY <1>8 DEF Listed, L, N
    <2>3. \A m \in Slot(N) : tb.k[m] \in FieldName => \E i \in 1 .. L : s[i] = m
      BY <1>8 DEF Listed, L, N
    <2>4. tb.head = IF L = 0 THEN NoEntry ELSE s[1]
      BY <1>8 DEF Listed, L, N
    <2>5. tb.tail = IF L = 0 THEN NoEntry ELSE s[L]
      BY <1>8 DEF Listed, L, N
    <2>6. \A i \in 1 .. L : tb.next[s[i]] = IF i = L THEN NoEntry ELSE s[i + 1]
      BY <1>8 DEF Listed, L, N
    <2>7. \A i \in 1 .. L : tb.prev[s[i]] = IF i = 1 THEN NoEntry ELSE s[i - 1]
      BY <1>8 DEF Listed, L, N
    <2> QED BY <2>1, <2>2, <2>3, <2>4, <2>5, <2>6, <2>7
  <1>10. \A i \in 1 .. L : s[i] # n
    BY <1>6, <1>9
  <1>11. \A i, j \in 1 .. L : o[i] = o[j] => i = j
    BY <1>1 DEF Distinct, L
  <1>12. Distinct(oo)
    <2>1. \A i \in 1 .. L : o[i] # k
      BY DEF Holds, L
    <2>2. ASSUME NEW i \in 1 .. L + 1, NEW j \in 1 .. L + 1, oo[i] = oo[j] PROVE i = j
      <3>1. CASE i \in 1 .. L /\ j \in 1 .. L
        BY <3>1, <2>2, <1>5, <1>11
      <3>2. CASE i = L + 1 /\ j \in 1 .. L
        BY <3>2, <2>1, <2>2, <1>5
      <3>3. CASE j = L + 1 /\ i \in 1 .. L
        BY <3>3, <2>1, <2>2, <1>5
      <3>4. CASE i = L + 1 /\ j = L + 1
        BY <3>4
      <3> QED BY <3>1, <3>2, <3>3, <3>4, <1>5
    <2> QED BY <2>2, <1>5 DEF Distinct
  <1>13. Findable(new)
    <2>1. ASSUME NEW x \in FieldName, NEW i \in Slot(N)
          PROVE  Probe(new, x, i) = Probe(tb, x, i) /\ Probe(tb, x, i) \in Slot(N)
      <3>1. Probe(new, x, i) = Probe(tb, x, i)
        BY <1>4 DEF Probe, N
      <3>2. hash_fn[x] \in Nat /\ N > 0
        BY <1>1, HashAssumption
      <3>3. Probe(tb, x, i) \in Slot(N)
        BY <3>2, <1>1, ProbeRange DEF Probe, N
      <3> QED BY <3>1, <3>3
    <2>2. ASSUME NEW x \in FieldName, NEW i \in Slot(N), OnTheWay(tb, x, i) PROVE OnTheWay(new, x, i)
      <3> SUFFICES ASSUME NEW j \in 0 .. i - 1 PROVE new.k[Probe(new, x, j)] # EMPTY
        BY DEF OnTheWay
      <3>1. j \in Slot(N)
        BY <1>1 DEF Slot
      <3>2. tb.k[Probe(tb, x, j)] # EMPTY
        BY <2>2 DEF OnTheWay
      <3>3. Probe(new, x, j) = Probe(tb, x, j) /\ Probe(tb, x, j) \in Slot(N)
        BY <3>1, <2>1
      <3>4. new.k[Probe(tb, x, j)] = IF Probe(tb, x, j) = n THEN k ELSE tb.k[Probe(tb, x, j)]
        BY <3>3, <1>4
      <3> QED BY <3>2, <3>3, <3>4, <1>6
    <2>3. ASSUME NEW m \in Slot(N), new.k[m] \in FieldName
          PROVE  \E i \in Slot(N) : Probe(new, new.k[m], i) = m /\ OnTheWay(new, new.k[m], i)
      <3>1. CASE m = n
        <4>1. PICK i \in Slot(N) : Probe(tb, k, i) = n /\ \A j \in 0 .. i - 1 : tb.k[Probe(tb, k, j)] # EMPTY
          BY <1>2
        <4>2. OnTheWay(new, k, i)
          BY <4>1, <2>2 DEF OnTheWay
        <4>3. new.k[m] = k
          BY <3>1, <1>4
        <4> QED BY <4>1, <4>2, <4>3, <3>1, <2>1
      <3>2. CASE m # n
        <4>1. new.k[m] = tb.k[m]
          BY <3>2, <1>4
        <4>2. PICK i \in Slot(N) : Probe(tb, tb.k[m], i) = m /\ OnTheWay(tb, tb.k[m], i)
          BY <4>1, <2>3, <1>1 DEF Findable, N
        <4> QED BY <4>1, <4>2, <2>1, <2>2, <2>3
      <3> QED BY <3>1, <3>2
    <2> QED BY <2>3, <1>4 DEF Findable
  <1> DEFINE ss == [i \in 1 .. L + 1 |-> IF i = L + 1 THEN n ELSE s[i]]
  <1>14. ss \in [1 .. L + 1 -> Slot(N)] /\ ss[L + 1] = n /\ \A i \in 1 .. L : ss[i] = s[i]
    BY <1>2, <1>5, <1>9
  <1> HIDE DEF ss
  <1>15. Listed(new, ss, oo)
    <2>1. ASSUME NEW i \in 1 .. L + 1
          PROVE  /\ new.k[ss[i]] = oo[i]
                 /\ new.next[ss[i]] = IF i = L + 1 THEN NoEntry ELSE ss[i + 1]
                 /\ new.prev[ss[i]] = IF i = 1 THEN NoEntry ELSE ss[i - 1]
      <3>1. CASE i = L + 1
        <4>1. new.k[n] = k /\ new.next[n] = NoEntry /\ new.prev[n] = tb.tail
          BY <1>2, <1>4
        <4>2. tb.tail = IF i = 1 THEN NoEntry ELSE ss[i - 1]
          BY <3>1, <1>5, <1>9, <1>14
        <4> QED BY <4>1, <4>2, <3>1, <1>5, <1>14
      <3>2. CASE i \in 1 .. L
        <4>1. s[i] \in Slot(N) /\ s[i] # n /\ ss[i] = s[i]
          BY <3>2, <1>9, <1>10, <1>14
        <4>2. new.k[s[i]] = oo[i]
          BY <3>2, <4>1, <1>4, <1>5, <1>9
        <4>3. new.prev[s[i]] = IF i = 1 THEN NoEntry ELSE ss[i - 1]
          <5>1. new.prev[s[i]] = IF i = 1 THEN NoEntry ELSE s[i - 1]
            BY <3>2, <4>1, <1>4, <1>9
          <5>2. i # 1 => i - 1 \in 1 .. L
            BY <3>2, <1>5
          <5> QED BY <5>1, <5>2, <1>14
        <4>4. new.next[s[i]] = IF i = L + 1 THEN NoEntry ELSE ss[i + 1]
          <5>1. i # L + 1
            BY <3>2, <1>5
          <5>2. CASE i = L
            <6>1. s[i] = tb.tail
              BY <5>2, <3>2, <1>5, <1>9
            <6> QED BY <6>1, <5>1, <5>2, <4>1, <1>4, <1>14
          <5>3. CASE i # L
            <6>1. i + 1 \in 1 .. L /\ L \in 1 .. L
              BY <5>3, <3>2, <1>5
            <6>2. s[i] # s[L]
              BY <5>3, <3>2, <6>1, <1>9, <1>11
            <6>3. s[i] # tb.tail
              BY <6>2, <6>1, <1>9, <1>5
            <6> QED BY <6>1, <6>3, <5>1, <5>3, <3>2, <4>1, <1>4, <1>9, <1>14
          <5> QED BY <5>2, <5>3
        <4> QED BY <4>1, <4>2, <4>3, <4>4
      <3> QED BY <3>1, <3>2, <1>5
    <2>2. ASSUME NEW m \in Slot(N), new.k[m] \in FieldName PROVE \E i \in 1 .. L + 1 : ss[i] = m
      <3>1. CASE m = n
        BY <3>1, <1>5, <1>14
      <3>2. CASE m # n
        <4>1. PICK i \in 1 .. L : s[i] = m
          BY <3>2, <2>2, <1>4, <1>9
        <4> QED BY <4>1, <1>5, <1>14
      <3> QED BY <3>1, <3>2
    <2>3. new.head = ss[1] /\ new.tail = ss[L + 1] /\ L + 1 # 0
      <3>1. CASE L = 0
        BY <3>1, <1>4, <1>9, <1>14
      <3>2. CASE L # 0
        <4>1. 1 \in 1 .. L
          BY <3>2, <1>5
        <4>2. new.head = s[1]
          BY <4>1, <3>2, <1>4, <1>7, <1>9
        <4>3. ss[1] = s[1] /\ L + 1 # 0
          BY <4>1, <1>5, <1>14
        <4>4. new.tail = ss[L + 1]
          BY <1>4, <1>14
        <4> QED BY <4>2, <4>3, <4>4
      <3> QED BY <3>1, <3>2
    <2>4. Len(oo) = L + 1 /\ new.size = N
      BY <1>4, <1>5
    <2>5. ss \in [1 .. Len(oo) -> Slot(new.size)]
      BY <2>4, <1>14
    <2>6. /\ \A i \in 1 .. Len(oo) : new.k[ss[i]] = oo[i]
          /\ \A i \in 1 .. Len(oo) : new.next[ss[i]] = IF i = Len(oo) THEN NoEntry ELSE ss[i + 1]
          /\ \A i \in 1 .. Len(oo) : new.prev[ss[i]] = IF i = 1 THEN NoEntry ELSE ss[i - 1]
      BY <2>1, <2>4
    <2>7. \A m \in Slot(new.size) : new.k[m] \in FieldName => \E i \in 1 .. Len(oo) : ss[i] = m
      BY <2>2, <2>4
    <2>8. /\ new.head = IF Len(oo) = 0 THEN NoEntry ELSE ss[1]
          /\ new.tail = IF Len(oo) = 0 THEN NoEntry ELSE ss[Len(oo)]
      BY <2>3, <2>4
    <2> QED BY <2>5, <2>6, <2>7, <2>8 DEF Listed
  <1>16. L + 1 < N
    BY DEF L, N
  <1>17. \E u \in [1 .. Len(oo) -> Slot(new.size)] : Listed(new, u, oo)
    BY <1>4, <1>5, <1>14, <1>15
  <1>18. TableInv(new, oo)
    BY <1>1, <1>4, <1>5, <1>12, <1>13, <1>16, <1>17 DEF TableInv
  <1>19. \A m \in Slot(N) : tb.k[m] \in FieldName => new.k[m] = tb.k[m]
    BY <1>4, <1>6
  <1> QED BY <1>4, <1>18, <1>19 DEF new, oo, N
-----------------------------------------------------------------------------
(***************************************************************************)
(* Deleting                                                                *)
(***************************************************************************)

(* What the fields of a table become when slot n is freed. *)
FreedAt(tb, new, n) ==
    /\ new \in HashTable(tb.size) /\ new.size = tb.size /\ new.count = tb.count - 1
    /\ new.head = IF tb.head = n THEN tb.next[n] ELSE tb.head
    /\ new.tail = IF tb.tail = n THEN tb.prev[n] ELSE tb.tail
    /\ \A m \in Slot(tb.size) :
          /\ new.k[m] = IF m = n THEN FREED ELSE tb.k[m]
          /\ new.next[m] = IF m = n THEN NoEntry ELSE IF m = tb.prev[n] THEN tb.next[n] ELSE tb.next[m]
          /\ new.prev[m] = IF m = n THEN NoEntry ELSE IF m = tb.next[n] THEN tb.prev[n] ELSE tb.prev[m]

(* lh_table_delete_entry changes these fields and leaves the others. *)
LEMMA DeleteFields ==
    ASSUME NEW tb, tb.size \in Nat, tb \in HashTable(tb.size), tb.count > 0, NEW n \in Slot(tb.size)
    PROVE  FreedAt(tb, lh_table_delete_entry(tb, n), n)
  <1> DEFINE N == tb.size
             nk == [tb.k EXCEPT ![n] = FREED]  nv == [tb.v EXCEPT ![n] = NoEntry]
             nn == [m \in Slot(N) |-> IF m = n THEN NoEntry ELSE IF m = tb.prev[n] THEN tb.next[n] ELSE tb.next[m]]
             np == [m \in Slot(N) |-> IF m = n THEN NoEntry ELSE IF m = tb.next[n] THEN tb.prev[n] ELSE tb.prev[m]]
             nh == IF tb.head = n THEN tb.next[n] ELSE tb.head
             nt == IF tb.tail = n THEN tb.prev[n] ELSE tb.tail
             new == lh_table_delete_entry(tb, n)
  <1>1. /\ tb.count \in Nat /\ tb.head \in Link(N) /\ tb.tail \in Link(N)
        /\ tb.k \in [Slot(N) -> FieldName \cup {EMPTY, FREED}] /\ tb.v \in [Slot(N) -> Val \cup {NoEntry}]
        /\ tb.next \in [Slot(N) -> Link(N)] /\ tb.prev \in [Slot(N) -> Link(N)]
        /\ DOMAIN tb = {"size", "count", "head", "tail", "k", "v", "next", "prev"}
    BY DEF HashTable
  <1>2. /\ new.size = N /\ new.count = tb.count - 1 /\ new.head = nh /\ new.tail = nt
        /\ new.k = nk /\ new.v = nv
    BY <1>1 DEF lh_table_delete_entry
  <1>3. new.next = nn /\ new.prev = np
    <2>1. new.next = [m \in 0 .. tb.size - 1 |-> IF m = n THEN NoEntry ELSE IF m = tb.prev[n] THEN tb.next[n] ELSE tb.next[m]]
      BY <1>1 DEF lh_table_delete_entry
    <2>2. new.prev = [m \in 0 .. tb.size - 1 |-> IF m = n THEN NoEntry ELSE IF m = tb.next[n] THEN tb.prev[n] ELSE tb.prev[m]]
      BY <1>1 DEF lh_table_delete_entry
    <2> QED BY <2>1, <2>2 DEF Slot
  <1>4. /\ nk \in [Slot(N) -> FieldName \cup {EMPTY, FREED}] /\ nv \in [Slot(N) -> Val \cup {NoEntry}]
        /\ nn \in [Slot(N) -> Link(N)] /\ np \in [Slot(N) -> Link(N)]
        /\ nh \in Link(N) /\ nt \in Link(N) /\ tb.count - 1 \in Nat
    BY <1>1 DEF Link
  <1>5. \A m \in Slot(N) :
           /\ nk[m] = IF m = n THEN FREED ELSE tb.k[m]
           /\ nn[m] = IF m = n THEN NoEntry ELSE IF m = tb.prev[n] THEN tb.next[n] ELSE tb.next[m]
           /\ np[m] = IF m = n THEN NoEntry ELSE IF m = tb.next[n] THEN tb.prev[n] ELSE tb.prev[m]
    BY <1>1
  <1>6. /\ DOMAIN new = {"size", "count", "head", "tail", "k", "v", "next", "prev"}
        /\ new = [x \in DOMAIN new |-> new[x]]
    BY <1>1 DEF lh_table_delete_entry
  <1> HIDE DEF N, nk, nv, np, nn, nh, nt, new
  <1>7. new \in HashTable(N)
    <2>1. new = [size |-> new.size, count |-> new.count, head |-> new.head, tail |-> new.tail,
                 k |-> new.k, v |-> new.v, next |-> new.next, prev |-> new.prev]
      BY <1>6
    <2>2. /\ new.size \in {N} /\ new.count \in Nat /\ new.head \in Link(N) /\ new.tail \in Link(N)
          /\ new.k \in [Slot(N) -> FieldName \cup {EMPTY, FREED}] /\ new.v \in [Slot(N) -> Val \cup {NoEntry}]
          /\ new.next \in [Slot(N) -> Link(N)] /\ new.prev \in [Slot(N) -> Link(N)]
      BY <1>2, <1>3, <1>4
    <2> QED BY <2>1, <2>2 DEF HashTable
  <1>8. FreedAt(tb, new, n)
    BY <1>2, <1>3, <1>5, <1>7 DEF FreedAt, nh, nt, N
  <1> QED BY <1>8 DEF new

(* The sequence without the key at place p. *)
Skip(p, i) == IF i < p THEN i ELSE i + 1

(* Without takes away exactly place p of a sequence without duplicates. *)
LEMMA WithoutIs ==
    ASSUME NEW o \in Seq(FieldName), Distinct(o), NEW p \in 1 .. Len(o)
    PROVE  /\ Without(o, o[p]) \in Seq(FieldName)
           /\ Len(Without(o, o[p])) = Len(o) - 1
           /\ Len(o) \in Nat
           /\ \A i \in 1 .. Len(o) - 1 : Skip(p, i) \in 1 .. Len(o) /\ Without(o, o[p])[i] = o[Skip(p, i)]
  <1> DEFINE at == CHOOSE i \in 1 .. Len(o) : o[i] = o[p]
             w == [i \in 1 .. Len(o) - 1 |-> IF i < p THEN o[i] ELSE o[i + 1]]
  <1>1. at = p
    <2>1. at \in 1 .. Len(o) /\ o[at] = o[p]
      OBVIOUS
    <2> HIDE DEF at
    <2> QED BY <2>1 DEF Distinct
  <1>2. Without(o, o[p]) = [i \in 1 .. Len(o) - 1 |-> IF i < at THEN o[i] ELSE o[i + 1]]
    BY DEF Without, Holds
  <1>3. Without(o, o[p]) = w
    BY <1>1, <1>2
  <1>4. Len(o) \in Nat /\ \A i \in 1 .. Len(o) : o[i] \in FieldName
    OBVIOUS
  <1>5. \A i \in 1 .. Len(o) - 1 : Skip(p, i) \in 1 .. Len(o) /\ w[i] = o[Skip(p, i)]
    BY <1>4 DEF Skip
  <1>6. w \in Seq(FieldName) /\ Len(w) = Len(o) - 1
    <2>1. Len(o) - 1 \in Nat
      BY <1>4
    <2>2. w \in [1 .. Len(o) - 1 -> FieldName]
      BY <1>4
    <2> HIDE DEF w
    <2> QED BY <2>1, <2>2
  <1> HIDE DEF w
  <1> QED BY <1>3, <1>4, <1>5, <1>6

(* It leaves a sequence alone that does not hold the key. *)
LEMMA WithoutOther ==
    ASSUME NEW o, NEW k, ~Holds(o, k)
    PROVE  Without(o, k) = o
  BY DEF Without

(* A deleted entry leaves the list, and every other key is still found. *)
LEMMA DeleteKeeps ==
    ASSUME NEW tb, NEW o, TableInv(tb, o), NEW n \in Slot(tb.size), tb.k[n] \in FieldName
    PROVE  /\ TableInv(lh_table_delete_entry(tb, n), Without(o, tb.k[n]))
           /\ lh_table_delete_entry(tb, n).size = tb.size
           /\ \A m \in Slot(tb.size) : m # n => lh_table_delete_entry(tb, n).k[m] = tb.k[m]
  <1> DEFINE N == tb.size  k == tb.k[n]  new == lh_table_delete_entry(tb, n)
             L == Len(o)  w == Without(o, k)
  <1>1. /\ N \in Nat /\ N >= 3 /\ tb \in HashTable(N) /\ o \in Seq(FieldName) /\ Distinct(o)
        /\ tb.count = L /\ L < N /\ L \in Nat /\ Findable(tb)
    BY DEF TableInv
  <1>2. PICK s \in [1 .. L -> Slot(N)] : Listed(tb, s, o)
    BY DEF TableInv
  <1>3. /\ \A i \in 1 .. L : s[i] \in Slot(N) /\ tb.k[s[i]] = o[i] /\ o[i] \in FieldName
        /\ \A m \in Slot(N) : tb.k[m] \in FieldName => \E i \in 1 .. L : s[i] = m
        /\ tb.head = IF L = 0 THEN NoEntry ELSE s[1]
        /\ tb.tail = IF L = 0 THEN NoEntry ELSE s[L]
        /\ \A i \in 1 .. L : tb.next[s[i]] = IF i = L THEN NoEntry ELSE s[i + 1]
        /\ \A i \in 1 .. L : tb.prev[s[i]] = IF i = 1 THEN NoEntry ELSE s[i - 1]
    <2>1. \A i \in 1 .. L : s[i] \in Slot(N) /\ o[i] \in FieldName
      BY <1>1
    <2>2. \A i \in 1 .. L : tb.k[s[i]] = o[i]
      BY <1>2 DEF Listed
    <2>3. \A m \in Slot(N) : tb.k[m] \in FieldName => \E i \in 1 .. L : s[i] = m
      BY <1>2 DEF Listed
    <2>4. tb.head = IF L = 0 THEN NoEntry ELSE s[1]
      BY <1>2 DEF Listed
    <2>5. tb.tail = IF L = 0 THEN NoEntry ELSE s[L]
      BY <1>2 DEF Listed
    <2>6. \A i \in 1 .. L : tb.next[s[i]] = IF i = L THEN NoEntry ELSE s[i + 1]
      BY <1>2 DEF Listed
    <2>7. \A i \in 1 .. L : tb.prev[s[i]] = IF i = 1 THEN NoEntry ELSE s[i - 1]
      BY <1>2 DEF Listed
    <2> QED BY <2>1, <2>2, <2>3, <2>4, <2>5, <2>6, <2>7
  <1>4. \A i, j \in 1 .. L : s[i] = s[j] => i = j
    <2>1. \A i, j \in 1 .. L : o[i] = o[j] => i = j
      BY <1>1 DEF Distinct
    <2> QED BY <2>1, <1>3
  <1>5. PICK p \in 1 .. L : s[p] = n
    BY <1>3
  <1>6. k = o[p] /\ L > 0 /\ p \in 1 .. L
    BY <1>3, <1>5
  <1>7. FreedAt(tb, new, n)
    <2>1. tb.count > 0 /\ tb.size \in Nat /\ tb \in HashTable(tb.size)
      BY <1>1, <1>6
    <2> QED BY <2>1, DeleteFields
  <1>8. /\ w \in Seq(FieldName) /\ Len(w) = L - 1
        /\ \A i \in 1 .. L - 1 : Skip(p, i) \in 1 .. L /\ w[i] = o[Skip(p, i)]
    BY <1>1, <1>6, WithoutIs
  <1> HIDE DEF N, k, new, L, w
  <1>9. /\ new \in HashTable(N) /\ new.size = N /\ new.count = L - 1
        /\ new.head = IF tb.head = n THEN tb.next[n] ELSE tb.head
        /\ new.tail = IF tb.tail = n THEN tb.prev[n] ELSE tb.tail
        /\ \A m \in Slot(N) :
              /\ new.k[m] = IF m = n THEN FREED ELSE tb.k[m]
              /\ new.next[m] = IF m = n THEN NoEntry ELSE IF m = tb.prev[n] THEN tb.next[n] ELSE tb.next[m]
              /\ new.prev[m] = IF m = n THEN NoEntry ELSE IF m = tb.next[n] THEN tb.prev[n] ELSE tb.prev[m]
    BY <1>1, <1>7 DEF FreedAt, N
  <1>10. /\ \A i \in 1 .. L - 1 : Skip(p, i) # p
         /\ \A i, j \in 1 .. L - 1 : Skip(p, i) = Skip(p, j) => i = j
         /\ \A j \in 1 .. L : j # p => \E i \in 1 .. L - 1 : Skip(p, i) = j
    <2>1. /\ \A i \in 1 .. L - 1 : Skip(p, i) # p
          /\ \A i, j \in 1 .. L - 1 : Skip(p, i) = Skip(p, j) => i = j
      BY <1>1 DEF Skip
    <2>2. ASSUME NEW j \in 1 .. L, j # p PROVE \E i \in 1 .. L - 1 : Skip(p, i) = j
      <3>1. CASE j < p
        <4>1. j \in 1 .. L - 1 /\ Skip(p, j) = j
          BY <3>1, <1>1 DEF Skip
        <4> QED BY <4>1
      <3>2. CASE ~(j < p)
        <4>1. j - 1 \in 1 .. L - 1 /\ Skip(p, j - 1) = j
          BY <3>2, <2>2, <1>1 DEF Skip
        <4> QED BY <4>1
      <3> QED BY <3>1, <3>2
    <2> QED BY <2>1, <2>2
  <1>11. Distinct(w)
    <2>1. ASSUME NEW i \in 1 .. L - 1, NEW j \in 1 .. L - 1, w[i] = w[j] PROVE i = j
      <3>1. o[Skip(p, i)] = o[Skip(p, j)] /\ Skip(p, i) \in 1 .. L /\ Skip(p, j) \in 1 .. L
        BY <2>1, <1>8
      <3>2. Skip(p, i) = Skip(p, j)
        BY <3>1, <1>1 DEF Distinct, L
      <3> QED BY <3>2, <1>10
    <2> QED BY <2>1, <1>8 DEF Distinct
  <1>12. Findable(new)
    <2>1. \A x, i : Probe(new, x, i) = Probe(tb, x, i)
      BY <1>9 DEF Probe, N
    <2>2. ASSUME NEW x \in FieldName, NEW i \in Slot(N), OnTheWay(tb, x, i) PROVE OnTheWay(new, x, i)
      <3> SUFFICES ASSUME NEW j \in 0 .. i - 1 PROVE new.k[Probe(new, x, j)] # EMPTY
        BY DEF OnTheWay
      <3>1. j \in Slot(N) /\ N > 0 /\ hash_fn[x] \in Nat
        BY <1>1, HashAssumption DEF Slot
      <3>2. tb.k[Probe(tb, x, j)] # EMPTY
        BY <2>2 DEF OnTheWay
      <3>3. Probe(tb, x, j) \in Slot(N)
        BY <3>1, <1>1, ProbeRange DEF Probe, N
      <3> QED BY <3>2, <3>3, <2>1, <1>9, HashAssumption
    <2>3. ASSUME NEW m \in Slot(N), new.k[m] \in FieldName
          PROVE  \E i \in Slot(N) : Probe(new, new.k[m], i) = m /\ OnTheWay(new, new.k[m], i)
      <3>1. new.k[m] = tb.k[m]
        BY <2>3, <1>9, HashAssumption
      <3>2. PICK i \in Slot(N) : Probe(tb, tb.k[m], i) = m /\ OnTheWay(tb, tb.k[m], i)
        BY <3>1, <2>3, <1>1 DEF Findable, N
      <3> QED BY <3>1, <3>2, <2>1, <2>2, <2>3
    <2> QED BY <2>3, <1>9 DEF Findable
  <1> DEFINE ss == [i \in 1 .. L - 1 |-> s[Skip(p, i)]]
  <1>13. ss \in [1 .. L - 1 -> Slot(N)] /\ \A i \in 1 .. L - 1 : ss[i] = s[Skip(p, i)]
    BY <1>3, <1>8
  <1> HIDE DEF ss
  <1>14. Listed(new, ss, w)
    <2>1. ASSUME NEW i \in 1 .. L - 1
          PROVE  /\ new.k[ss[i]] = w[i]
                 /\ new.next[ss[i]] = IF i = L - 1 THEN NoEntry ELSE ss[i + 1]
                 /\ new.prev[ss[i]] = IF i = 1 THEN NoEntry ELSE ss[i - 1]
      <3> DEFINE a == Skip(p, i)
      <3>1. a \in 1 .. L /\ a # p /\ ss[i] = s[a] /\ s[a] # n /\ s[a] \in Slot(N)
        BY <1>3, <1>4, <1>5, <1>8, <1>10, <1>13
      <3>2. new.k[s[a]] = w[i]
        BY <3>1, <1>3, <1>8, <1>9
      <3>3. a = IF i < p THEN i ELSE i + 1
        BY DEF Skip
      <3> HIDE DEF a
      <3>4. new.next[s[a]] = IF i = L - 1 THEN NoEntry ELSE ss[i + 1]
        <4>1. CASE a = p - 1
          <5>1. s[a] = tb.prev[n] /\ tb.next[n] = IF p = L THEN NoEntry ELSE s[p + 1]
            BY <4>1, <3>1, <1>1, <1>3, <1>5
          <5>2. new.next[s[a]] = tb.next[n]
            BY <5>1, <3>1, <1>9
          <5>3. i = p - 1
            BY <4>1, <3>3, <1>1
          <5>4. p # L => ss[i + 1] = s[p + 1]
            BY <5>3, <1>1, <1>13 DEF Skip
          <5> QED BY <5>1, <5>2, <5>3, <5>4, <1>1
        <4>2. CASE a # p - 1
          <5>1. s[a] # tb.prev[n]
            <6>1. CASE p = 1
              <7>1. tb.prev[n] = NoEntry
                BY <6>1, <1>3, <1>5
              <7>2. s[a] \in Nat
                BY <3>1, <1>1 DEF Slot
              <7> QED BY <7>1, <7>2, HashAssumption
            <6>2. CASE p # 1
              <7>1. p - 1 \in 1 .. L /\ tb.prev[n] = s[p - 1]
                BY <6>2, <1>1, <1>3, <1>5
              <7> QED BY <7>1, <4>2, <3>1, <1>4
            <6> QED BY <6>1, <6>2
          <5>2. new.next[s[a]] = IF a = L THEN NoEntry ELSE s[a + 1]
            BY <5>1, <3>1, <1>3, <1>9
          <5>3. (a = L) <=> (i = L - 1)
            BY <4>2, <3>1, <3>3, <1>1
          <5>4. i # L - 1 => ss[i + 1] = s[a + 1]
            BY <4>2, <3>1, <3>3, <1>1, <1>13 DEF Skip
          <5> QED BY <5>2, <5>3, <5>4
        <4> QED BY <4>1, <4>2
      <3>5. new.prev[s[a]] = IF i = 1 THEN NoEntry ELSE ss[i - 1]
        <4>1. CASE a = p + 1
          <5>1. s[a] = tb.next[n] /\ tb.prev[n] = IF p = 1 THEN NoEntry ELSE s[p - 1]
            <6>1. p # L
              BY <4>1, <3>1, <1>1
            <6>2. tb.next[s[p]] = s[p + 1]
              BY <6>1, <1>3
            <6>3. tb.prev[s[p]] = IF p = 1 THEN NoEntry ELSE s[p - 1]
              BY <1>3
            <6> QED BY <6>2, <6>3, <4>1, <1>5
          <5>2. new.prev[s[a]] = tb.prev[n]
            BY <5>1, <3>1, <1>9
          <5>3. i = p
            BY <4>1, <3>3, <1>1
          <5>4. p # 1 => ss[i - 1] = s[p - 1]
            BY <5>3, <1>1, <1>13 DEF Skip
          <5> QED BY <5>1, <5>2, <5>3, <5>4, <1>1
        <4>2. CASE a # p + 1
          <5>1. s[a] # tb.next[n]
            <6>1. CASE p = L
              <7>1. tb.next[n] = NoEntry
                BY <6>1, <1>3, <1>5
              <7>2. s[a] \in Nat
                BY <3>1, <1>1 DEF Slot
              <7> QED BY <7>1, <7>2, HashAssumption
            <6>2. CASE p # L
              <7>1. p + 1 \in 1 .. L /\ tb.next[n] = s[p + 1]
                BY <6>2, <1>1, <1>3, <1>5
              <7> QED BY <7>1, <4>2, <3>1, <1>4
            <6> QED BY <6>1, <6>2
          <5>2. new.prev[s[a]] = IF a = 1 THEN NoEntry ELSE s[a - 1]
            BY <5>1, <3>1, <1>3, <1>9
          <5>3. (a = 1) <=> (i = 1)
            BY <4>2, <3>1, <3>3, <1>1
          <5>4. i # 1 => ss[i - 1] = s[a - 1]
            BY <4>2, <3>1, <3>3, <1>1, <1>13 DEF Skip
          <5> QED BY <5>2, <5>3, <5>4
        <4> QED BY <4>1, <4>2
      <3> QED BY <3>1, <3>2, <3>4, <3>5
    <2>2. ASSUME NEW m \in Slot(N), new.k[m] \in FieldName PROVE \E i \in 1 .. L - 1 : ss[i] = m
      <3>1. m # n /\ tb.k[m] \in FieldName
        BY <2>2, <1>9, HashAssumption
      <3>2. PICK j \in 1 .. L : s[j] = m
        BY <3>1, <1>3
      <3>3. j # p
        BY <3>1, <3>2, <1>5
      <3>4. PICK i \in 1 .. L - 1 : Skip(p, i) = j
        BY <3>3, <1>10
      <3> QED BY <3>2, <3>4, <1>13
    <2>3. new.head = IF L - 1 = 0 THEN NoEntry ELSE ss[1]
      <3>1. 1 \in 1 .. L /\ tb.head = s[1]
        BY <1>1, <1>3, <1>6
      <3>2. CASE p = 1
        <4>1. new.head = IF L = 1 THEN NoEntry ELSE s[2]
          BY <3>1, <3>2, <1>3, <1>5, <1>6, <1>9
        <4>2. L # 1 => ss[1] = s[2]
          BY <3>2, <1>1, <1>6, <1>13 DEF Skip
        <4> QED BY <4>1, <4>2, <1>1
      <3>3. CASE p # 1
        <4>1. new.head = s[1]
          BY <3>1, <3>3, <1>4, <1>5, <1>9
        <4>2. L - 1 # 0 /\ ss[1] = s[1]
          BY <3>3, <1>1, <1>6, <1>13 DEF Skip
        <4> QED BY <4>1, <4>2
      <3> QED BY <3>2, <3>3
    <2>4. new.tail = IF L - 1 = 0 THEN NoEntry ELSE ss[L - 1]
      <3>1. L \in 1 .. L /\ tb.tail = s[L]
        BY <1>1, <1>3, <1>6
      <3>2. CASE p = L
        <4>1. new.tail = IF L = 1 THEN NoEntry ELSE s[L - 1]
          BY <3>1, <3>2, <1>3, <1>5, <1>9
        <4>2. L # 1 => ss[L - 1] = s[L - 1]
          BY <3>2, <1>1, <1>6, <1>13 DEF Skip
        <4> QED BY <4>1, <4>2, <1>1
      <3>3. CASE p # L
        <4>1. new.tail = s[L]
          BY <3>1, <3>3, <1>4, <1>5, <1>9
        <4>2. L - 1 # 0 /\ ss[L - 1] = s[L]
          BY <3>3, <1>1, <1>6, <1>13 DEF Skip
        <4> QED BY <4>1, <4>2
      <3> QED BY <3>2, <3>3
    <2> QED BY <2>1, <2>2, <2>3, <2>4, <1>8, <1>9, <1>13 DEF Listed
  <1>15. \E u \in [1 .. Len(w) -> Slot(new.size)] : Listed(new, u, w)
    BY <1>8, <1>9, <1>13, <1>14
  <1>16. TableInv(new, w)
    BY <1>1, <1>8, <1>9, <1>11, <1>12, <1>15 DEF TableInv
  <1> QED BY <1>9, <1>16 DEF new, w, k, N
-----------------------------------------------------------------------------
(***************************************************************************)
(* Resizing                                                                *)
(***************************************************************************)

(* A new table of three slots or more satisfies the invariant with no key. *)
LEMMA NewTable ==
    ASSUME NEW N \in Nat, N >= 3
    PROVE  TableInv(lh_table_new(N), << >>) /\ lh_table_new(N).size = N
  <1> DEFINE tb == lh_table_new(N)  o == << >>  s == [i \in 1 .. 0 |-> 0]
  <1>1. /\ tb.size = N /\ tb.count = 0 /\ tb.head = NoEntry /\ tb.tail = NoEntry
        /\ tb.k = [n \in Slot(N) |-> EMPTY]
    BY DEF lh_table_new, Slot
  <1>2. tb \in HashTable(N)
    BY DEF lh_table_new, HashTable, Slot, Link
  <1>3. o \in Seq(FieldName) /\ Len(o) = 0 /\ 1 .. Len(o) = {} /\ Distinct(o)
    BY DEF Distinct
  <1>4. \A n \in Slot(N) : tb.k[n] \notin FieldName
    BY <1>1, HashAssumption
  <1>5. s \in [1 .. Len(o) -> Slot(N)]
    BY <1>3
  <1> HIDE DEF tb, o, s
  <1>6. Listed(tb, s, o)
    BY <1>1, <1>3, <1>4, <1>5 DEF Listed
  <1>7. Findable(tb)
    BY <1>1, <1>4 DEF Findable
  <1>8. \E u \in [1 .. Len(o) -> Slot(tb.size)] : Listed(tb, u, o)
    BY <1>1, <1>5, <1>6
  <1>9. TableInv(tb, o)
    <2>1. /\ tb.size \in Nat /\ tb.size >= 3 /\ tb \in HashTable(tb.size)
          /\ tb.count = Len(o) /\ Len(o) < tb.size
      BY <1>1, <1>2, <1>3
    <2> QED BY <2>1, <1>3, <1>7, <1>8 DEF TableInv
  <1> QED BY <1>1, <1>9 DEF tb, o

(* The first j keys and one more. *)
LEMMA PrefixesAgree ==
    ASSUME NEW o \in Seq(FieldName), NEW j \in 0 .. Len(o) - 1
    PROVE  /\ SubSeq(o, 1, j) \in Seq(FieldName) /\ Len(SubSeq(o, 1, j)) = j
           /\ \A i \in 1 .. j : SubSeq(o, 1, j)[i] = o[i]
           /\ Append(SubSeq(o, 1, j), o[j + 1]) = SubSeq(o, 1, j + 1)
  <1>1. /\ SubSeq(o, 1, j) \in Seq(FieldName) /\ Len(SubSeq(o, 1, j)) = j
        /\ \A i \in 1 .. j : SubSeq(o, 1, j)[i] = o[i]
    OBVIOUS
  <1>2. /\ SubSeq(o, 1, j + 1) \in Seq(FieldName) /\ Len(SubSeq(o, 1, j + 1)) = j + 1
        /\ \A i \in 1 .. j + 1 : SubSeq(o, 1, j + 1)[i] = o[i]
    OBVIOUS
  <1>3. o[j + 1] \in FieldName
    OBVIOUS
  <1> DEFINE p == SubSeq(o, 1, j)  q == SubSeq(o, 1, j + 1)
  <1> HIDE DEF p, q
  <1>4. /\ Append(p, o[j + 1]) \in Seq(FieldName) /\ Len(Append(p, o[j + 1])) = j + 1
        /\ \A i \in 1 .. j + 1 : Append(p, o[j + 1])[i] = o[i]
    BY <1>1, <1>3 DEF p
  <1>5. Append(p, o[j + 1]) = q
    BY <1>2, <1>4 DEF q
  <1> QED BY <1>1, <1>5 DEF p, q

(* A sequence is the prefix of its own length. *)
LEMMA WholePrefix ==
    ASSUME NEW o \in Seq(FieldName)
    PROVE  SubSeq(o, 1, Len(o)) = o /\ SubSeq(o, 1, 0) = << >>
  OBVIOUS

(* A larger table holds the same keys in the same order. *)
LEMMA ResizeKeeps ==
    ASSUME NEW tb, NEW o, TableInv(tb, o), NEW size \in Nat, size >= tb.size
    PROVE  TableInv(lh_table_resize(tb, size), o) /\ lh_table_resize(tb, size).size = size
  <1> DEFINE L == Len(o)  F == Moved(tb, size)  new == lh_table_new(size)
             States == [to : HashTable(size), at : Link(tb.size)]
  <1>1. /\ tb.size \in Nat /\ tb.size >= 3 /\ tb \in HashTable(tb.size) /\ o \in Seq(FieldName) /\ Distinct(o)
        /\ L < tb.size /\ L \in Nat
    BY DEF TableInv
  <1>2. PICK s \in [1 .. L -> Slot(tb.size)] : Listed(tb, s, o)
    BY DEF TableInv
  <1>3. /\ \A i \in 1 .. L : s[i] \in Slot(tb.size) /\ tb.k[s[i]] = o[i] /\ o[i] \in FieldName
        /\ tb.head = IF L = 0 THEN NoEntry ELSE s[1]
        /\ \A i \in 1 .. L : tb.next[s[i]] = IF i = L THEN NoEntry ELSE s[i + 1]
    <2>1. \A i \in 1 .. L : s[i] \in Slot(tb.size) /\ o[i] \in FieldName
      BY <1>1
    <2>2. \A i \in 1 .. L : tb.k[s[i]] = o[i]
      BY <1>2 DEF Listed
    <2>3. tb.head = IF L = 0 THEN NoEntry ELSE s[1]
      BY <1>2 DEF Listed
    <2>4. \A i \in 1 .. L : tb.next[s[i]] = IF i = L THEN NoEntry ELSE s[i + 1]
      BY <1>2 DEF Listed
    <2> QED BY <2>1, <2>2, <2>3, <2>4
  <1> DEFINE P == [j \in Nat |->
               {x \in States : /\ x.to.size = size
                               /\ IF j < L THEN TableInv(x.to, SubSeq(o, 1, j)) /\ x.at = s[j + 1]
                                  ELSE TableInv(x.to, o) /\ x.at = NoEntry}]
  <1>4. \A x, j : j \in Nat =>
           (x \in P[j] <=> /\ x \in States /\ x.to.size = size
                           /\ IF j < L THEN TableInv(x.to, SubSeq(o, 1, j)) /\ x.at = s[j + 1]
                              ELSE TableInv(x.to, o) /\ x.at = NoEntry)
    OBVIOUS
  <1>5. TableInv(new, << >>) /\ new.size = size /\ new \in HashTable(size)
    <2>1. size >= 3
      BY <1>1
    <2>2. TableInv(new, << >>) /\ new.size = size
      BY <2>1, NewTable
    <2> QED BY <2>2 DEF TableInv
  <1>6. [to |-> new, at |-> tb.head] \in P[0]
    <2>1. tb.head \in Link(tb.size)
      BY <1>1 DEF HashTable
    <2>2. SubSeq(o, 1, 0) = << >> /\ (L = 0 => o = << >>)
      BY <1>1, WholePrefix
    <2> DEFINE x == [to |-> new, at |-> tb.head]
    <2>3. x \in States /\ x.to = new /\ x.at = tb.head
      BY <2>1, <1>5
    <2> HIDE DEF x, new, P
    <2>4. IF 0 < L THEN TableInv(x.to, SubSeq(o, 1, 0)) /\ x.at = s[0 + 1]
          ELSE TableInv(x.to, o) /\ x.at = NoEntry
      <3>1. CASE L = 0
        <4>1. TableInv(x.to, o)
          BY <3>1, <2>2, <2>3, <1>5
        <4> QED BY <4>1, <3>1, <2>3, <1>3
      <3>2. CASE L # 0
        <4>1. TableInv(x.to, SubSeq(o, 1, 0))
          BY <2>2, <2>3, <1>5
        <4>2. 0 < L /\ x.at = s[1]
          BY <3>2, <2>3, <1>1, <1>3
        <4> QED BY <4>1, <4>2
      <3> QED BY <3>1, <3>2
    <2>5. x \in P[0]
      BY <2>3, <2>4, <1>4, <1>5
    <2> QED BY <2>5 DEF x
  <1>7. ASSUME NEW j \in Nat, NEW x \in P[j] PROVE F[x] \in P[j + 1]
    <2> HIDE DEF P, new
    <2>1. x \in States /\ x.to.size = size
      BY <1>4
    <2>2. CASE ~(j < L)
      <3>1. TableInv(x.to, o) /\ x.at = NoEntry
        BY <2>2, <1>4
      <3>2. F[x] = x
        BY <2>1, <3>1 DEF Moved
      <3>3. ~(j + 1 < L) /\ j + 1 \in Nat
        BY <2>2, <1>1
      <3> QED BY <2>1, <3>1, <3>2, <3>3, <1>4
    <2>3. CASE j < L
      <3> DEFINE a == s[j + 1]  to == Insert(x.to, tb.k[a], tb.v[a])  y == [to |-> to, at |-> tb.next[a]]
                 p == SubSeq(o, 1, j)
      <3>1. TableInv(x.to, p) /\ x.at = a
        BY <2>3, <1>4
      <3>2. j + 1 \in 1 .. L /\ j \in 0 .. L - 1
        BY <2>3, <1>1
      <3>3. a \in Slot(tb.size) /\ tb.k[a] = o[j + 1] /\ tb.k[a] \in FieldName /\ a # NoEntry
        <4>1. a \in Slot(tb.size) /\ tb.k[a] = o[j + 1] /\ tb.k[a] \in FieldName
          BY <3>2, <1>3
        <4>2. a \in Nat
          BY <4>1, <1>1 DEF Slot
        <4> QED BY <4>1, <4>2, HashAssumption
      <3>4. F[x] = y
        BY <2>1, <3>1, <3>3 DEF Moved
      <3>5. /\ Len(p) = j /\ \A i \in 1 .. j : p[i] = o[i]
            /\ Append(p, o[j + 1]) = SubSeq(o, 1, j + 1)
        BY <3>2, <1>1, PrefixesAgree
      <3>6. ~Holds(p, tb.k[a])
        <4>1. ASSUME NEW i \in 1 .. j PROVE o[i] # o[j + 1]
          BY <3>2, <1>1 DEF Distinct
        <4> QED BY <4>1, <3>3, <3>5 DEF Holds
      <3>7. tb.v[a] \in Val \cup {NoEntry} /\ tb.next[a] \in Link(tb.size)
        BY <3>3, <1>1 DEF HashTable
      <3>8. Len(p) + 1 < x.to.size
        BY <2>1, <3>2, <3>5, <1>1
      <3> HIDE DEF p, a
      <3>9. TableInv(to, Append(p, tb.k[a])) /\ to.size = size
        BY <2>1, <3>1, <3>3, <3>6, <3>7, <3>8, InsertKeeps
      <3>10. TableInv(to, SubSeq(o, 1, j + 1)) /\ to \in HashTable(size)
        BY <3>3, <3>5, <3>9 DEF TableInv
      <3> HIDE DEF to
      <3>11. y \in States /\ y.to = to /\ y.at = tb.next[a]
        BY <3>7, <3>10
      <3>12. tb.next[a] = IF j + 1 = L THEN NoEntry ELSE s[j + 1 + 1]
        BY <3>2, <1>3 DEF a
      <3>13. j + 1 = L => SubSeq(o, 1, j + 1) = o
        BY <1>1, WholePrefix
      <3>14. (j + 1 < L \/ j + 1 = L) /\ j + 1 \in Nat /\ (j + 1 = L => ~(j + 1 < L))
        BY <3>2
      <3> HIDE DEF y
      <3>15. IF j + 1 < L THEN TableInv(y.to, SubSeq(o, 1, j + 1)) /\ y.at = s[j + 1 + 1]
             ELSE TableInv(y.to, o) /\ y.at = NoEntry
        <4>1. CASE j + 1 = L
          BY <4>1, <3>10, <3>11, <3>12, <3>13, <3>14
        <4>2. CASE j + 1 < L
          BY <4>2, <3>10, <3>11, <3>12, <3>14
        <4> QED BY <4>1, <4>2, <3>14
      <3> QED BY <3>4, <3>9, <3>11, <3>14, <3>15, <1>4
    <2> QED BY <2>2, <2>3
  <1> HIDE DEF F, P, new
  <1>8. Iterated(F, [to |-> new, at |-> tb.head], tb.size) \in P[tb.size]
    BY <1>1, <1>6, <1>7, IteratedIn
  <1>9. lh_table_resize(tb, size) = Iterated(F, [to |-> new, at |-> tb.head], tb.size).to
    BY DEF lh_table_resize, F, new
  <1>10. ~(tb.size < L)
    BY <1>1
  <1> QED BY <1>1, <1>4, <1>8, <1>9, <1>10
-----------------------------------------------------------------------------
(***************************************************************************)
(* Walking                                                                 *)
(***************************************************************************)

(* The m slots s are linked one to the next, from slot n to the end. *)
Leads(N, link, n, s, m) ==
    /\ N \in Nat /\ m \in Nat /\ m <= N /\ s \in [1 .. m -> Slot(N)]
    /\ n = IF m = 0 THEN NoEntry ELSE s[1]
    /\ \A i \in 1 .. m : link[s[i]] = IF i = m THEN NoEntry ELSE s[i + 1]

(* A walk gives the slots that it is led along. *)
LEMMA WalkAlong ==
    ASSUME NEW tb, NEW link, NEW n, NEW s, NEW m, Leads(tb.size, link, n, s, m)
    PROVE  Walk(tb, link, n) = s
  <1> DEFINE F == Onward(tb, link)
             Goes(j) == IF j < m THEN s[j + 1] ELSE NoEntry
             P == [j \in Nat |-> {Goes(j)}]
  <1>0. /\ tb.size \in Nat /\ m \in Nat /\ m <= tb.size /\ s \in [1 .. m -> Slot(tb.size)]
        /\ n = IF m = 0 THEN NoEntry ELSE s[1]
        /\ \A i \in 1 .. m : link[s[i]] = IF i = m THEN NoEntry ELSE s[i + 1]
    BY DEF Leads
  <1>1. \A i \in 1 .. m : s[i] \in Slot(tb.size) /\ s[i] # NoEntry
    <2>1. \A i \in 1 .. m : s[i] \in Slot(tb.size)
      BY <1>0
    <2>2. \A x \in Slot(tb.size) : x \in Nat
      BY <1>0 DEF Slot
    <2> QED BY <2>1, <2>2, HashAssumption
  <1>2. n \in P[0]
    BY <1>0
  <1>3. ASSUME NEW j \in Nat, NEW x \in P[j] PROVE F[x] \in P[j + 1]
    <2>1. CASE j < m
      <3>1. x = s[j + 1] /\ j + 1 \in 1 .. m
        BY <2>1, <1>0
      <3>2. F[x] = link[x]
        BY <3>1, <1>1 DEF Onward, Link
      <3>3. F[x] = Goes(j + 1)
        BY <3>1, <3>2, <1>0
      <3> QED BY <3>3
    <2>2. CASE ~(j < m)
      <3>1. x = NoEntry
        BY <2>2
      <3>2. F[x] = NoEntry
        BY <3>1 DEF Onward, Link
      <3> QED BY <3>2, <2>2, <1>0
    <2> QED BY <2>1, <2>2
  <1>4. \A j \in Nat : Iterated(F, n, j) = Goes(j)
    <2> SUFFICES ASSUME NEW j \in Nat PROVE Iterated(F, n, j) = Goes(j)
      OBVIOUS
    <2>1. P[j] = {Goes(j)}
      OBVIOUS
    <2> HIDE DEF F, P
    <2>2. Iterated(F, n, j) \in P[j]
      BY <1>2, <1>3, IteratedIn
    <2> QED BY <2>1, <2>2
  <1> HIDE DEF F
  <1>5. \A j \in 1 .. tb.size : Iterated(F, n, j - 1) = IF j <= m THEN s[j] ELSE NoEntry
    <2> SUFFICES ASSUME NEW j \in 1 .. tb.size
                 PROVE  Iterated(F, n, j - 1) = IF j <= m THEN s[j] ELSE NoEntry
      OBVIOUS
    <2>1. j - 1 \in Nat /\ (j - 1 < m <=> j <= m) /\ (j - 1) + 1 = j
      BY <1>0
    <2> QED BY <2>1, <1>4
  <1>6. {j \in 1 .. tb.size : Iterated(F, n, j - 1) # NoEntry} = 1 .. m
    <2>1. \A j \in 1 .. tb.size : Iterated(F, n, j - 1) # NoEntry <=> j \in 1 .. m
      BY <1>0, <1>1, <1>5
    <2> QED BY <2>1, <1>0
  <1>7. Walk(tb, link, n) = [i \in 1 .. m |-> Iterated(F, n, i - 1)]
    BY <1>6 DEF Walk, F
  <1>8. \A i \in 1 .. m : Iterated(F, n, i - 1) = s[i]
    BY <1>0, <1>5
  <1> QED BY <1>0, <1>7, <1>8

(* The keys that a walk from place p + 1 of the list gives, and the two whole walks. *)
LEMMA WalksGiveOrder ==
    ASSUME NEW tb, NEW o, TableInv(tb, o)
    PROVE  /\ KeysAt(tb, Forward(tb)) = o
           /\ Backward(tb) = [i \in 1 .. Len(o) |-> Forward(tb)[Len(o) + 1 - i]]
           /\ \A p \in 0 .. Len(o) : \A n, d :
                 StillDue(tb, o, p, n, d) => KeysAt(tb, Walk(tb, tb.next, n)) = d
  <1> DEFINE L == Len(o)  N == tb.size
  <1>1. /\ N \in Nat /\ L \in Nat /\ L < N /\ o \in Seq(FieldName) /\ Distinct(o)
    BY DEF TableInv
  <1>2. PICK s \in [1 .. L -> Slot(N)] : Listed(tb, s, o)
    BY DEF TableInv
  <1>3. /\ \A i \in 1 .. L : s[i] \in Slot(N) /\ tb.k[s[i]] = o[i] /\ o[i] \in FieldName
        /\ tb.head = IF L = 0 THEN NoEntry ELSE s[1]
        /\ tb.tail = IF L = 0 THEN NoEntry ELSE s[L]
        /\ \A i \in 1 .. L : tb.next[s[i]] = IF i = L THEN NoEntry ELSE s[i + 1]
        /\ \A i \in 1 .. L : tb.prev[s[i]] = IF i = 1 THEN NoEntry ELSE s[i - 1]
        /\ \A m \in Slot(N) : tb.k[m] \in FieldName => \E i \in 1 .. L : s[i] = m
    <2>1. \A i \in 1 .. L : s[i] \in Slot(N) /\ o[i] \in FieldName
      BY <1>1
    <2>2. \A i \in 1 .. L : tb.k[s[i]] = o[i]
      BY <1>2 DEF Listed
    <2>3. tb.head = IF L = 0 THEN NoEntry ELSE s[1]
      BY <1>2 DEF Listed
    <2>4. tb.tail = IF L = 0 THEN NoEntry ELSE s[L]
      BY <1>2 DEF Listed
    <2>5. \A i \in 1 .. L : tb.next[s[i]] = IF i = L THEN NoEntry ELSE s[i + 1]
      BY <1>2 DEF Listed
    <2>6. \A i \in 1 .. L : tb.prev[s[i]] = IF i = 1 THEN NoEntry ELSE s[i - 1]
      BY <1>2 DEF Listed
    <2>7. \A m \in Slot(N) : tb.k[m] \in FieldName => \E i \in 1 .. L : s[i] = m
      BY <1>2 DEF Listed
    <2> QED BY <2>1, <2>2, <2>3, <2>4, <2>5, <2>6, <2>7
  <1>4. Forward(tb) = s
    <2>1. L <= tb.size /\ tb.size \in Nat
      BY <1>1
    <2>2. Leads(tb.size, tb.next, tb.head, s, L)
      BY <2>1, <1>1, <1>3 DEF Leads
    <2>3. Walk(tb, tb.next, tb.head) = s
      BY <2>2, WalkAlong
    <2> QED BY <2>3 DEF Forward
  <1>5. KeysAt(tb, Forward(tb)) = o
    <2>1. KeysAt(tb, s) = [i \in 1 .. L |-> tb.k[s[i]]]
      BY DEF KeysAt
    <2>2. KeysAt(tb, s) = [i \in 1 .. L |-> o[i]]
      BY <2>1, <1>3
    <2>3. o = [i \in 1 .. L |-> o[i]]
      BY <1>1
    <2> QED BY <2>2, <2>3, <1>4
  <1>6. Backward(tb) = [i \in 1 .. L |-> s[L + 1 - i]]
    <2> DEFINE r == [i \in 1 .. L |-> s[L + 1 - i]]
    <2>1. \A i \in 1 .. L : L + 1 - i \in 1 .. L
      BY <1>1
    <2>2. r \in [1 .. L -> Slot(N)]
      BY <2>1
    <2>3. tb.tail = IF L = 0 THEN NoEntry ELSE r[1]
      BY <1>1, <1>3
    <2>4. ASSUME NEW i \in 1 .. L PROVE tb.prev[r[i]] = IF i = L THEN NoEntry ELSE r[i + 1]
      <3>1. r[i] = s[L + 1 - i] /\ L + 1 - i \in 1 .. L
        BY <2>1
      <3>2. tb.prev[r[i]] = IF L + 1 - i = 1 THEN NoEntry ELSE s[L + 1 - i - 1]
        BY <3>1, <1>3
      <3>3. i # L => r[i + 1] = s[L + 1 - i - 1]
        <4> SUFFICES ASSUME i # L PROVE r[i + 1] = s[L + 1 - i - 1]
          OBVIOUS
        <4>1. i + 1 \in 1 .. L /\ L + 1 - (i + 1) = L + 1 - i - 1
          BY <1>1
        <4> QED BY <4>1
      <3>4. L + 1 - i = 1 <=> i = L
        BY <1>1
      <3> HIDE DEF r
      <3> QED BY <3>2, <3>3, <3>4
    <2>5. L <= tb.size /\ tb.size \in Nat
      BY <1>1
    <2> HIDE DEF r, L
    <2>6. Leads(tb.size, tb.prev, tb.tail, r, L)
      BY <2>2, <2>3, <2>4, <2>5, <1>1 DEF Leads
    <2>7. Walk(tb, tb.prev, tb.tail) = r
      BY <2>6, WalkAlong
    <2> QED BY <2>7 DEF Backward, r
  <1>7. ASSUME NEW p \in 0 .. L, NEW n, NEW d, StillDue(tb, o, p, n, d)
        PROVE  KeysAt(tb, Walk(tb, tb.next, n)) = d
    <2>0. /\ IF p = L THEN n = NoEntry ELSE n \in Slot(N) /\ tb.k[n] = o[p + 1]
          /\ d \in Seq(FieldName) /\ Len(d) = L - p /\ \A i \in 1 .. Len(d) : d[i] = o[p + i]
      BY <1>7 DEF StillDue
    <2> DEFINE m == L - p  u == [i \in 1 .. m |-> s[p + i]]
    <2>1. \A i \in 1 .. m : p + i \in 1 .. L
      BY <1>1
    <2>2. u \in [1 .. m -> Slot(N)] /\ m \in Nat /\ m <= tb.size /\ tb.size \in Nat
      BY <2>1, <1>1
    <2>3. n = IF m = 0 THEN NoEntry ELSE u[1]
      <3>1. CASE p = L
        BY <3>1, <1>1, <2>0
      <3>2. CASE p # L
        <4>1. p + 1 \in 1 .. L /\ 1 \in 1 .. m /\ m # 0
          BY <3>2, <1>1
        <4>2. tb.k[n] \in FieldName /\ n \in Slot(N) /\ tb.k[n] = o[p + 1]
          BY <3>2, <4>1, <1>3, <2>0
        <4>3. PICK j \in 1 .. L : s[j] = n
          BY <4>2, <1>3
        <4>4. o[j] = o[p + 1]
          BY <4>2, <4>3, <1>3
        <4>5. j = p + 1
          BY <4>1, <4>4, <1>1 DEF Distinct
        <4> QED BY <4>1, <4>3, <4>5
      <3> QED BY <3>1, <3>2
    <2>4. ASSUME NEW i \in 1 .. m PROVE tb.next[u[i]] = IF i = m THEN NoEntry ELSE u[i + 1]
      <3>1. u[i] = s[p + i] /\ p + i \in 1 .. L
        BY <2>1
      <3>2. tb.next[u[i]] = IF p + i = L THEN NoEntry ELSE s[p + i + 1]
        BY <3>1, <1>3
      <3>3. i # m => u[i + 1] = s[p + i + 1]
        <4> SUFFICES ASSUME i # m PROVE u[i + 1] = s[p + i + 1]
          OBVIOUS
        <4>1. i + 1 \in 1 .. m /\ p + (i + 1) = p + i + 1
          BY <1>1
        <4> QED BY <4>1
      <3>4. p + i = L <=> i = m
        BY <1>1
      <3> HIDE DEF u, m
      <3> QED BY <3>2, <3>3, <3>4
    <2>5. \A i \in 1 .. m : u[i] = s[p + i]
      OBVIOUS
    <2> HIDE DEF u, m
    <2>6. Walk(tb, tb.next, n) = u
      <3>1. Leads(tb.size, tb.next, n, u, m)
        BY <2>2, <2>3, <2>4 DEF Leads
      <3> QED BY <3>1, WalkAlong
    <2>7. KeysAt(tb, u) = [i \in 1 .. m |-> tb.k[u[i]]]
      BY <2>2 DEF KeysAt
    <2>8. Len(d) = m
      BY <2>0 DEF m
    <2>9. ASSUME NEW i \in 1 .. m PROVE tb.k[u[i]] = d[i]
      <3>1. u[i] = s[p + i] /\ p + i \in 1 .. L
        BY <2>1, <2>5
      <3>2. tb.k[s[p + i]] = o[p + i]
        BY <3>1, <1>3
      <3>3. d[i] = o[p + i]
        BY <2>0, <2>8
      <3> QED BY <3>1, <3>2, <3>3
    <2>10. KeysAt(tb, u) = [i \in 1 .. m |-> d[i]]
      BY <2>7, <2>9
    <2>11. d = [i \in 1 .. m |-> d[i]]
      BY <2>8, <2>0
    <2> QED BY <2>6, <2>10, <2>11
  <1>8. Backward(tb) = [i \in 1 .. Len(o) |-> Forward(tb)[Len(o) + 1 - i]]
    BY <1>4, <1>6
  <1> QED BY <1>5, <1>7, <1>8
-----------------------------------------------------------------------------
(***************************************************************************)
(* The invariant                                                           *)
(***************************************************************************)

(* What the first entry is, and the one after another. *)
LEMMA NextInOrder ==
    ASSUME NEW tb, NEW o, TableInv(tb, o)
    PROVE  /\ IF Len(o) = 0 THEN tb.head = NoEntry ELSE tb.head \in Slot(tb.size) /\ tb.k[tb.head] = o[1]
           /\ \A p \in 0 .. Len(o) - 1, n \in Slot(tb.size) :
                 tb.k[n] = o[p + 1] =>
                    IF p + 1 = Len(o) THEN tb.next[n] = NoEntry
                    ELSE tb.next[n] \in Slot(tb.size) /\ tb.k[tb.next[n]] = o[p + 2]
  <1>1. Len(o) \in Nat /\ o \in Seq(FieldName) /\ Distinct(o)
    BY DEF TableInv
  <1>2. PICK s \in [1 .. Len(o) -> Slot(tb.size)] : Listed(tb, s, o)
    BY DEF TableInv
  <1>3. /\ \A i \in 1 .. Len(o) : s[i] \in Slot(tb.size) /\ tb.k[s[i]] = o[i] /\ o[i] \in FieldName
        /\ \A m \in Slot(tb.size) : tb.k[m] \in FieldName => \E i \in 1 .. Len(o) : s[i] = m
        /\ tb.head = IF Len(o) = 0 THEN NoEntry ELSE s[1]
        /\ \A i \in 1 .. Len(o) : tb.next[s[i]] = IF i = Len(o) THEN NoEntry ELSE s[i + 1]
    <2>1. \A i \in 1 .. Len(o) : s[i] \in Slot(tb.size) /\ o[i] \in FieldName
      BY <1>1
    <2>2. \A i \in 1 .. Len(o) : tb.k[s[i]] = o[i]
      BY <1>2 DEF Listed
    <2>3. \A m \in Slot(tb.size) : tb.k[m] \in FieldName => \E i \in 1 .. Len(o) : s[i] = m
      BY <1>2 DEF Listed
    <2>4. tb.head = IF Len(o) = 0 THEN NoEntry ELSE s[1]
      BY <1>2 DEF Listed
    <2>5. \A i \in 1 .. Len(o) : tb.next[s[i]] = IF i = Len(o) THEN NoEntry ELSE s[i + 1]
      BY <1>2 DEF Listed
    <2> QED BY <2>1, <2>2, <2>3, <2>4, <2>5
  <1>4. ASSUME Len(o) # 0 PROVE tb.head \in Slot(tb.size) /\ tb.k[tb.head] = o[1]
    <2>1. 1 \in 1 .. Len(o)
      BY <1>1, <1>4
    <2> QED BY <2>1, <1>3, <1>4
  <1>5. ASSUME NEW p \in 0 .. Len(o) - 1, NEW n \in Slot(tb.size), tb.k[n] = o[p + 1]
        PROVE  IF p + 1 = Len(o) THEN tb.next[n] = NoEntry
               ELSE tb.next[n] \in Slot(tb.size) /\ tb.k[tb.next[n]] = o[p + 2]
    <2>1. p + 1 \in 1 .. Len(o) /\ tb.k[n] \in FieldName
      <3>1. p + 1 \in 1 .. Len(o)
        BY <1>1
      <3> QED BY <3>1, <1>3, <1>5
    <2>2. PICK i \in 1 .. Len(o) : s[i] = n
      BY <2>1, <1>3
    <2>3. o[i] = o[p + 1]
      BY <2>2, <1>3, <1>5
    <2>4. i = p + 1
      BY <2>1, <2>3, <1>1 DEF Distinct
    <2>5. tb.next[n] = IF p + 1 = Len(o) THEN NoEntry ELSE s[p + 1 + 1]
      BY <2>2, <2>4, <1>3
    <2>6. ASSUME p + 1 # Len(o) PROVE p + 2 \in 1 .. Len(o) /\ p + 1 + 1 = p + 2
      BY <2>6, <1>1
    <2> QED BY <2>5, <2>6, <1>3
  <1> QED BY <1>1, <1>3, <1>4, <1>5

(* A value is replaced: the list and the keys stay. *)
LEMMA ReplaceKeeps ==
    ASSUME NEW tb, NEW o, TableInv(tb, o), NEW n \in Slot(tb.size), NEW v \in Val
    PROVE  /\ TableInv([tb EXCEPT !.v[n] = v], o)
           /\ [tb EXCEPT !.v[n] = v].size = tb.size /\ [tb EXCEPT !.v[n] = v].k = tb.k
  <1> DEFINE new == [tb EXCEPT !.v[n] = v]
  <1>1. /\ tb.size \in Nat /\ tb \in HashTable(tb.size)
        /\ DOMAIN tb = {"size", "count", "head", "tail", "k", "v", "next", "prev"}
        /\ tb.v \in [Slot(tb.size) -> Val \cup {NoEntry}]
    BY DEF TableInv, HashTable
  <1>2. /\ new.size = tb.size /\ new.count = tb.count /\ new.head = tb.head /\ new.tail = tb.tail
        /\ new.k = tb.k /\ new.next = tb.next /\ new.prev = tb.prev /\ new.v = [tb.v EXCEPT ![n] = v]
        /\ DOMAIN new = {"size", "count", "head", "tail", "k", "v", "next", "prev"}
        /\ new = [x \in DOMAIN new |-> new[x]]
    BY <1>1
  <1>3. new.v \in [Slot(tb.size) -> Val \cup {NoEntry}]
    BY <1>1, <1>2
  <1> HIDE DEF new
  <1>4. new \in HashTable(tb.size)
    <2>1. new = [size |-> new.size, count |-> new.count, head |-> new.head, tail |-> new.tail,
                 k |-> new.k, v |-> new.v, next |-> new.next, prev |-> new.prev]
      BY <1>2
    <2>2. /\ new.size \in {tb.size} /\ new.count \in Nat /\ new.head \in Link(tb.size) /\ new.tail \in Link(tb.size)
          /\ new.k \in [Slot(tb.size) -> FieldName \cup {EMPTY, FREED}]
          /\ new.next \in [Slot(tb.size) -> Link(tb.size)] /\ new.prev \in [Slot(tb.size) -> Link(tb.size)]
      BY <1>1, <1>2 DEF HashTable
    <2> QED BY <2>1, <2>2, <1>3 DEF HashTable
  <1>5. \A s : Listed(tb, s, o) => Listed(new, s, o)
    BY <1>2 DEF Listed
  <1>6. \A k, i : Probe(new, k, i) = Probe(tb, k, i)
    BY <1>2 DEF Probe
  <1>7. Findable(tb) => Findable(new)
    BY <1>2, <1>6 DEF Findable, OnTheWay
  <1>8. TableInv(new, o)
    BY <1>2, <1>4, <1>5, <1>7 DEF TableInv
  <1> QED BY <1>2, <1>8 DEF new

(* The invariant holds of a new object without an iterator, *)
LEMMA InitHash == HashInit => HashInv
  <1> SUFFICES ASSUME HashInit PROVE HashInv
    OBVIOUS
  <1>1. TableInv(table, order)
    BY NewTable, HashAssumption DEF HashInit
  <1>2. IterInv
    BY DEF HashInit, IterInv
  <1> QED BY <1>1, <1>2 DEF HashInv

(* after the value of a known key was replaced, *)
LEMMA ReplaceInv ==
    ASSUME HashInv, NEW k \in FieldName, NEW v \in Val, Replace(k, v)
    PROVE  HashInv'
  <1> DEFINE n == lh_table_lookup_entry(table, k)
  <1>1. TableInv(table, order)
    BY DEF HashInv
  <1>2. /\ n # NoEntry /\ table' = [table EXCEPT !.v[n] = v] /\ order' = order /\ due' = due
        /\ iter' = iter /\ iterState' = iterState
    BY DEF Replace
  <1>3. n \in Slot(table.size)
    BY <1>1, <1>2, LookupFinds
  <1> HIDE DEF n
  <1>4. TableInv(table', order') /\ table'.size = table.size /\ table'.k = table.k
    BY <1>1, <1>2, <1>3, ReplaceKeeps
  <1>5. IterInv'
    BY <1>2, <1>4 DEF HashInv, IterInv, Passed, StillDue
  <1> QED BY <1>4, <1>5 DEF HashInv

(* after a new key was inserted, with a resize when the table was full: an iterator in place
   has one more key to come to, *)
LEMMA InsertInv ==
    ASSUME HashInv, NEW k \in FieldName, NEW v \in Val, InsertNew(k, v)
    PROVE  HashInv'
  <1> DEFINE tb == IF Full(table) THEN lh_table_resize(table, 2 * table.size) ELSE table
  <1>1. TableInv(table, order) /\ IterInv
    BY DEF HashInv
  <1>2. /\ table' = Insert(tb, k, v) /\ order' = Append(order, k) /\ iter' = iter
        /\ iterState' = IF Full(table) /\ iter # NoEntry THEN "dangling" ELSE iterState
        /\ due' = IF iter # NoEntry THEN Append(due, k) ELSE due
        /\ lh_table_lookup_entry(table, k) = NoEntry
    BY DEF InsertNew
  <1>3. ~Holds(order, k)
    BY <1>1, <1>2, LookupFinds
  <1>4. /\ table.size \in Nat /\ table.size >= 3 /\ table.count = Len(order) /\ Len(order) < table.size /\ Len(order) \in Nat
        /\ order \in Seq(FieldName)
    BY <1>1 DEF TableInv
  <1>5. TableInv(tb, order) /\ Len(order) + 1 < tb.size
    <2>1. CASE Full(table)
      <3>1. 2 * table.size \in Nat /\ 2 * table.size >= table.size
        BY <1>4
      <3>2. TableInv(lh_table_resize(table, 2 * table.size), order) /\ lh_table_resize(table, 2 * table.size).size = 2 * table.size
        BY <3>1, <1>1, ResizeKeeps
      <3>3. Len(order) + 1 < 2 * table.size
        BY <1>4
      <3> QED BY <2>1, <3>2, <3>3
    <2>2. CASE ~Full(table)
      <3>1. Len(order) + 1 < table.size
        BY <2>2, <1>4 DEF Full
      <3> QED BY <2>2, <3>1, <1>1
    <2> QED BY <2>1, <2>2
  <1>6. ~Full(table) => tb = table
    OBVIOUS
  <1> HIDE DEF tb
  <1>7. /\ TableInv(table', order') /\ table'.size = tb.size
        /\ \A m \in Slot(tb.size) : tb.k[m] \in FieldName => table'.k[m] = tb.k[m]
    BY <1>2, <1>3, <1>5, InsertKeeps
  <1>8. /\ order' \in Seq(FieldName) /\ Len(order') = Len(order) + 1
        /\ \A i \in 1 .. Len(order) : order'[i] = order[i]
        /\ order'[Len(order) + 1] = k
    BY <1>2, <1>4, Appended
  <1>9. ASSUME iterState' = "valid" PROVE \E p \in 0 .. Len(order') : Passed(p)'
    <2>1. iterState = "valid" /\ (iter # NoEntry => ~Full(table))
      BY <1>2, <1>9
    <2>2. PICK p \in 0 .. Len(order) : Passed(p)
      BY <2>1, <1>1 DEF IterInv
    <2>3. /\ due \in Seq(FieldName) /\ Len(due) = Len(order) - p
          /\ \A i \in 1 .. Len(due) : due[i] = order[p + i]
          /\ IF p = Len(order) THEN iter = NoEntry ELSE iter \in Slot(table.size) /\ table.k[iter] = order[p + 1]
      BY <2>2 DEF Passed, StillDue
    <2>4. \A m \in Slot(table.size) : m # NoEntry
      BY <1>4, HashAssumption DEF Slot
    <2>5. CASE p = Len(order)
      <3>1. iter' = NoEntry /\ due' = due /\ Len(due) = 0
        BY <2>3, <2>5, <1>2, <1>4
      <3>2. PICK z \in 0 .. Len(order') : z = Len(order')
        BY <1>4, <1>8
      <3>3. Passed(z)'
        <4>1. Len(due) = Len(order') - z
          BY <3>1, <3>2
        <4>2. \A i \in 1 .. Len(due) : due[i] = order'[z + i]
          BY <3>1
        <4> QED BY <2>3, <3>1, <3>2, <4>1, <4>2 DEF Passed, StillDue
      <3> QED BY <3>2, <3>3
    <2>6. CASE p # Len(order)
      <3>1. iter # NoEntry /\ iter \in Slot(table.size) /\ table.k[iter] = order[p + 1]
        BY <2>3, <2>4, <2>6
      <3>2. tb = table /\ due' = Append(due, k) /\ iter' = iter
        BY <2>1, <3>1, <1>2, <1>6
      <3>3. p + 1 \in 1 .. Len(order)
        BY <2>6, <1>4
      <3>4. table'.k[iter] = order'[p + 1] /\ iter \in Slot(table'.size)
        <4>1. order[p + 1] \in FieldName
          BY <3>3, <1>4
        <4> QED BY <3>1, <3>2, <3>3, <4>1, <1>7, <1>8
      <3>5. /\ due' \in Seq(FieldName) /\ Len(due') = Len(due) + 1 /\ Len(due) \in Nat
            /\ \A i \in 1 .. Len(due) : due'[i] = due[i]
            /\ due'[Len(due) + 1] = k
        <4> DEFINE ad == Append(due, k)
        <4>1. /\ ad \in Seq(FieldName) /\ Len(ad) = Len(due) + 1
              /\ \A i \in 1 .. Len(due) : ad[i] = due[i]
              /\ ad[Len(due) + 1] = k
          <5>1. due \in Seq(FieldName)
            BY <2>3
          <5> QED BY <5>1, Appended
        <4>2. due' = ad /\ Len(due) \in Nat
          BY <3>2, <2>3
        <4> HIDE DEF ad
        <4> QED BY <4>1, <4>2
      <3>6. ASSUME NEW i \in 1 .. Len(due') PROVE due'[i] = order'[p + i]
        <4>1. CASE i \in 1 .. Len(due)
          <5>1. p + i \in 1 .. Len(order)
            BY <4>1, <2>3, <1>4
          <5> QED BY <4>1, <5>1, <2>3, <3>5, <1>8
        <4>2. CASE i = Len(due) + 1
          <5>1. p + i = Len(order) + 1
            BY <4>2, <2>3, <3>5, <1>4
          <5> QED BY <4>2, <5>1, <3>5, <1>8
        <4> QED BY <4>1, <4>2, <3>5
      <3>7. Len(due') = Len(order') - p /\ p # Len(order') /\ p \in 0 .. Len(order')
        BY <2>3, <3>5, <1>4, <1>8
      <3>8. Passed(p)'
        BY <3>2, <3>4, <3>5, <3>6, <3>7 DEF Passed, StillDue
      <3> QED BY <3>7, <3>8
    <2> QED BY <2>5, <2>6
  <1> QED BY <1>7, <1>9 DEF HashInv, IterInv

(* after a key was deleted: an iterator that had passed it has passed one key less, *)
LEMMA DeleteInv ==
    ASSUME HashInv, NEW k \in FieldName, Delete(k)
    PROVE  HashInv'
  <1> DEFINE n == lh_table_lookup_entry(table, k)
  <1>1. TableInv(table, order) /\ IterInv
    BY DEF HashInv
  <1>2. /\ n # NoEntry /\ table' = lh_table_delete_entry(table, n) /\ order' = Without(order, k)
        /\ due' = Without(due, k) /\ iter' = iter
        /\ iterState' = IF iterState = "valid" /\ iter = n THEN "cut" ELSE iterState
    BY DEF Delete
  <1>3. Holds(order, k) /\ n \in Slot(table.size) /\ table.k[n] = k
    BY <1>1, <1>2, LookupFinds
  <1>4. /\ table.size \in Nat /\ Len(order) \in Nat /\ order \in Seq(FieldName) /\ Distinct(order)
    BY <1>1 DEF TableInv
  <1> HIDE DEF n
  <1>5. /\ TableInv(table', order') /\ table'.size = table.size
        /\ \A m \in Slot(table.size) : m # n => table'.k[m] = table.k[m]
    BY <1>1, <1>2, <1>3, DeleteKeeps
  <1>6. PICK q \in 1 .. Len(order) : order[q] = k
    BY <1>3 DEF Holds
  <1>7. /\ order' \in Seq(FieldName) /\ Len(order') = Len(order) - 1
        /\ \A i \in 1 .. Len(order) - 1 : Skip(q, i) \in 1 .. Len(order) /\ order'[i] = order[Skip(q, i)]
    BY <1>2, <1>4, <1>6, WithoutIs
  <1>8. ASSUME iterState' = "valid" PROVE \E p \in 0 .. Len(order') : Passed(p)'
    <2>1. iterState = "valid" /\ iter # n
      BY <1>2, <1>8
    <2>2. PICK p \in 0 .. Len(order) : Passed(p)
      BY <2>1, <1>1 DEF IterInv
    <2>3. /\ due \in Seq(FieldName) /\ Len(due) = Len(order) - p /\ Len(due) \in Nat
          /\ \A i \in 1 .. Len(due) : due[i] = order[p + i]
          /\ IF p = Len(order) THEN iter = NoEntry ELSE iter \in Slot(table.size) /\ table.k[iter] = order[p + 1]
      BY <2>2 DEF Passed, StillDue
    <2>4. p # Len(order) => p + 1 # q
      <3> SUFFICES ASSUME p # Len(order), p + 1 = q PROVE FALSE
        OBVIOUS
      <3>1. table.k[iter] = table.k[n] /\ iter \in Slot(table.size) /\ table.k[n] \in FieldName
        BY <2>3, <1>3, <1>6
      <3> QED BY <3>1, <2>1, <1>1, <1>3, KeysInSlots
    <2>5. p # Len(order) => iter \in Slot(table'.size) /\ table'.k[iter] = order[p + 1]
      BY <2>1, <2>3, <1>5
    <2>6. CASE q <= p
      <3>1. ~Holds(due, k)
        <4> SUFFICES ASSUME NEW i \in 1 .. Len(due), due[i] = k PROVE FALSE
          BY DEF Holds
        <4>1. order[p + i] = order[q] /\ p + i \in 1 .. Len(order)
          BY <2>3, <1>4, <1>6
        <4>2. p + i = q
          BY <4>1, <1>4 DEF Distinct
        <4> QED BY <4>2, <2>6, <1>4
      <3>2. due' = due
        BY <3>1, <1>2, WithoutOther
      <3>3. p - 1 \in 0 .. Len(order') /\ Len(due) = Len(order') - (p - 1)
        BY <2>3, <2>6, <1>4, <1>7
      <3>4. ASSUME NEW i \in 1 .. Len(due) PROVE due[i] = order'[(p - 1) + i]
        <4>1. (p - 1) + i \in 1 .. Len(order) - 1 /\ Skip(q, (p - 1) + i) = p + i
          BY <2>3, <2>6, <1>4 DEF Skip
        <4>2. order'[(p - 1) + i] = order[p + i]
          BY <4>1, <1>7
        <4> QED BY <4>2, <2>3
      <3>5. IF p - 1 = Len(order') THEN iter = NoEntry
            ELSE iter \in Slot(table'.size) /\ table'.k[iter] = order'[(p - 1) + 1]
        <4>1. CASE p = Len(order)
          <5>1. p - 1 = Len(order')
            BY <4>1, <1>7
          <5> QED BY <4>1, <5>1, <2>3
        <4>2. CASE p # Len(order)
          <5>1. Len(order) \in Nat /\ Len(order') = Len(order) - 1 /\ Len(due) = Len(order) - p
            BY <2>3, <1>4, <1>7
          <5>2. p - 1 # Len(order') /\ 1 \in 1 .. Len(due)
            BY <4>2, <5>1
          <5>3. order'[(p - 1) + 1] = order[p + 1]
            BY <5>2, <2>3, <3>4
          <5> QED BY <4>2, <5>2, <5>3, <2>5
        <4> QED BY <4>1, <4>2
      <3>6. Passed(p - 1)'
        BY <2>3, <3>2, <3>3, <3>4, <3>5, <1>2 DEF Passed, StillDue
      <3> QED BY <3>3, <3>6
    <2>7. CASE ~(q <= p)
      <3>1. p # Len(order) /\ p + 1 < q /\ q - p \in 1 .. Len(due) /\ due[q - p] = k
        <4>1. p # Len(order) /\ q - p \in 1 .. Len(due) /\ p + (q - p) = q
          BY <2>3, <2>7, <1>4
        <4>2. p + 1 < q
          BY <4>1, <2>4, <2>7, <1>4
        <4>3. due[q - p] = k
          BY <4>1, <2>3, <1>6
        <4> QED BY <4>1, <4>2, <4>3
      <3>2. Distinct(due)
        <4> SUFFICES ASSUME NEW i \in 1 .. Len(due), NEW j \in 1 .. Len(due), due[i] = due[j] PROVE i = j
          BY DEF Distinct
        <4>1. order[p + i] = order[p + j] /\ p + i \in 1 .. Len(order) /\ p + j \in 1 .. Len(order)
          <5>1. p + i \in 1 .. Len(order) /\ p + j \in 1 .. Len(order)
            BY <2>3, <1>4
          <5>2. due[i] = order[p + i] /\ due[j] = order[p + j]
            BY <2>3
          <5> QED BY <5>1, <5>2
        <4>2. p + i = p + j
          BY <4>1, <1>4 DEF Distinct
        <4> QED BY <4>2, <1>4
      <3>3. /\ due' \in Seq(FieldName) /\ Len(due') = Len(due) - 1
            /\ \A i \in 1 .. Len(due) - 1 : due'[i] = due[Skip(q - p, i)] /\ Skip(q - p, i) \in 1 .. Len(due)
        BY <2>3, <3>1, <3>2, <1>2, WithoutIs
      <3>4. p \in 0 .. Len(order') /\ Len(due') = Len(order') - p /\ p # Len(order')
        <4>1. Len(order) \in Nat /\ Len(order') = Len(order) - 1 /\ Len(due) = Len(order) - p
          BY <2>3, <1>4, <1>7
        <4>2. p + 1 <= Len(order')
          BY <4>1, <3>1, <1>4
        <4>3. Len(due') = Len(order') - p
          BY <4>1, <3>3
        <4> QED BY <4>1, <4>2, <4>3
      <3>5. ASSUME NEW i \in 1 .. Len(due') PROVE due'[i] = order'[p + i]
        <4>1. i \in 1 .. Len(due) - 1 /\ p + i \in 1 .. Len(order) - 1
          BY <2>3, <3>3, <1>4
        <4>2. Skip(q, p + i) = p + Skip(q - p, i)
          BY <4>1, <1>4 DEF Skip
        <4>3. due'[i] = order[p + Skip(q - p, i)]
          BY <4>1, <2>3, <3>3
        <4> QED BY <4>1, <4>2, <4>3, <1>7
      <3>6. table'.k[iter] = order'[p + 1] /\ iter \in Slot(table'.size)
        <4>1. p + 1 \in 1 .. Len(order) - 1 /\ Skip(q, p + 1) = p + 1
          BY <3>1, <1>4 DEF Skip
        <4> QED BY <4>1, <2>5, <3>1, <1>7
      <3>7. Passed(p)'
        BY <3>3, <3>4, <3>5, <3>6, <1>2 DEF Passed, StillDue
      <3> QED BY <3>4, <3>7
    <2> QED BY <2>6, <2>7
  <1> QED BY <1>5, <1>8 DEF HashInv, IterInv

(* after an iterator was set to the first entry, *)
LEMMA IterBeginInv == ASSUME HashInv, iter_begin PROVE HashInv'
  <1>1. TableInv(table, order)
    BY DEF HashInv
  <1>2. iter' = table.head /\ due' = order /\ table' = table /\ order' = order
    BY DEF iter_begin
  <1>3. Len(order) \in Nat /\ order \in Seq(FieldName)
    BY <1>1 DEF TableInv
  <1>4. Passed(0)'
    <2>1. IF 0 = Len(order) THEN table.head = NoEntry ELSE table.head \in Slot(table.size) /\ table.k[table.head] = order[0 + 1]
      BY <1>1, NextInOrder
    <2>2. Len(order) = Len(order) - 0 /\ \A i \in 1 .. Len(order) : order[i] = order[0 + i]
      BY <1>3
    <2> QED BY <2>1, <2>2, <1>2, <1>3 DEF Passed, StillDue
  <1>5. 0 \in 0 .. Len(order')
    BY <1>2, <1>3
  <1> QED BY <1>1, <1>2, <1>4, <1>5 DEF HashInv, IterInv

(* after it moved on, *)
LEMMA IterNextInv == ASSUME HashInv, iter_next PROVE HashInv'
  <1>1. TableInv(table, order) /\ IterInv
    BY DEF HashInv
  <1>2. /\ iter # NoEntry /\ iter' = table.next[iter] /\ table' = table /\ order' = order /\ iterState' = iterState
        /\ due' = IF iterState = "valid" THEN Tail(due) ELSE due
    BY DEF iter_next
  <1>3. Len(order) \in Nat /\ order \in Seq(FieldName)
    BY <1>1 DEF TableInv
  <1>4. ASSUME iterState = "valid" PROVE \E p \in 0 .. Len(order) : Passed(p)'
    <2>1. PICK p \in 0 .. Len(order) : Passed(p)
      BY <1>1, <1>4 DEF IterInv
    <2>2. /\ due \in Seq(FieldName) /\ Len(due) = Len(order) - p
          /\ \A i \in 1 .. Len(due) : due[i] = order[p + i]
          /\ IF p = Len(order) THEN iter = NoEntry ELSE iter \in Slot(table.size) /\ table.k[iter] = order[p + 1]
      BY <2>1 DEF Passed, StillDue
    <2>3. p # Len(order) /\ p \in 0 .. Len(order) - 1 /\ p + 1 \in 0 .. Len(order) /\ Len(due) > 0
      BY <2>2, <1>2, <1>3
    <2>4. /\ Tail(due) \in Seq(FieldName) /\ Len(Tail(due)) = Len(due) - 1
          /\ \A i \in 1 .. Len(due) - 1 : Tail(due)[i] = due[i + 1]
      BY <2>2, <2>3
    <2>5. due' = Tail(due)
      BY <1>2, <1>4
    <2>6. IF p + 1 = Len(order) THEN table.next[iter] = NoEntry
          ELSE table.next[iter] \in Slot(table.size) /\ table.k[table.next[iter]] = order[p + 2]
      BY <2>2, <2>3, <1>1, NextInOrder
    <2>7. ASSUME NEW i \in 1 .. Len(Tail(due)) PROVE Tail(due)[i] = order[(p + 1) + i]
      <3>1. i \in 1 .. Len(due) - 1 /\ i + 1 \in 1 .. Len(due) /\ p + (i + 1) = (p + 1) + i
        BY <2>2, <2>4, <1>3
      <3> QED BY <3>1, <2>2, <2>4
    <2>8. Len(Tail(due)) = Len(order) - (p + 1) /\ (p + 1) + 1 = p + 2
      BY <2>2, <2>4, <1>3
    <2>9. Passed(p + 1)'
      BY <2>4, <2>5, <2>6, <2>7, <2>8, <1>2 DEF Passed, StillDue
    <2> QED BY <2>3, <2>9
  <1> QED BY <1>1, <1>2, <1>4 DEF HashInv, IterInv

(* and so after every step. *)
LEMMA NextHash == HashInv /\ [HashNext]_hashVars => HashInv'
  <1> SUFFICES ASSUME HashInv, [HashNext]_hashVars PROVE HashInv'
    OBVIOUS
  <1>1. CASE UNCHANGED hashVars
    BY <1>1 DEF hashVars, HashInv, IterInv, Passed, StillDue
  <1>2. CASE HashNext
    BY <1>2, ReplaceInv, InsertInv, DeleteInv, IterBeginInv, IterNextInv DEF HashNext
  <1> QED BY <1>1, <1>2

(* The invariant holds of every behaviour of the table and its iterator. *)
THEOREM HashInvariant == HashSpec => []HashInv
  BY InitHash, NextHash, PTL DEF HashSpec

(* The list gives the keys in the order of their insertion in both directions, and each
   key is found exactly when it is there, whatever was inserted, replaced, deleted and
   moved by a resize (linkhash.c:498-594). *)
THEOREM OrderIsKept == HashSpec => []OrderKept
  <1>1. HashInv => OrderKept
    <2> SUFFICES ASSUME HashInv PROVE OrderKept
      OBVIOUS
    <2>1. TableInv(table, order)
      BY DEF HashInv
    <2>2. KeysAt(table, Forward(table)) = order /\ Backward(table) = [i \in 1 .. Len(order) |-> Forward(table)[Len(order) + 1 - i]]
      BY <2>1, WalksGiveOrder
    <2>3. \A k \in FieldName : (lh_table_lookup_entry(table, k) # NoEntry) <=> Holds(order, k)
      BY <2>1, LookupFinds
    <2>4. table.count = Len(order) /\ table.count < table.size
      BY <2>1 DEF TableInv
    <2> QED BY <2>2, <2>3, <2>4 DEF OrderKept
  <1> QED BY <1>1, HashInvariant, PTL

(* An iterator whose entry is in place comes to every entry from its own on, in order,
   also to those added behind its back (json_object_iterator.c:102). *)
THEOREM IteratorComesToAll == HashSpec => []IteratorSeesAll
  <1>1. HashInv => IteratorSeesAll
    <2> SUFFICES ASSUME HashInv, iterState = "valid" PROVE KeysAt(table, Walk(table, table.next, iter)) = due
      BY DEF IteratorSeesAll
    <2>1. TableInv(table, order)
      BY DEF HashInv
    <2>2. PICK p \in 0 .. Len(order) : Passed(p)
      BY DEF HashInv, IterInv
    <2>3. StillDue(table, order, p, iter, due)
      BY <2>2 DEF Passed
    <2> QED BY <2>1, <2>3, WalksGiveOrder
  <1> QED BY <1>1, HashInvariant, PTL

-----------------------------------------------------------------------------
(***************************************************************************)
(* The objects of json-c                                                   *)
(*                                                                         *)
(* While json_object_put takes things apart, the members of a deleted      *)
(* object still count as references until their turn comes, the reference  *)
(* that was just given up counts for one, and the entry that a new value   *)
(* is about to overwrite counts for nothing any more.                      *)
(***************************************************************************)

(* The entries that refer to o, those of X apart, *)
Links(h, o, X) == {e \in Entry \ X : e[2] \in DOMAIN h.members[e[1]] /\ h.members[e[1]][e[2]] = o}

(* all entries, *)
Entries(h) == {e \in Entry : e[2] \in DOMAIN h.members[e[1]]}

(* counts that are the references there are, hd of them from the client, *)
Counted(h, hd, X) == \A o \in Object : h.count[o] = hd[o] + Cardinality(Links(h, o, X))

(* and counts that are one more for v. *)
Owing(h, hd, X, v) ==
    \A o \in Object : h.count[o] = hd[o] + Cardinality(Links(h, o, X)) + (IF o = v THEN 1 ELSE 0)

(* What a heap is made of. *)
LEMMA HeapKinds ==
    ASSUME NEW h \in Heaps
    PROVE  /\ h = [count |-> h.count, kind |-> h.kind, misuse |-> h.misuse, members |-> h.members]
           /\ h.count \in [Object -> Int] /\ h.kind \in [Object -> Kind] /\ h.misuse \in BOOLEAN
           /\ h.members = [o \in Object |-> h.members[o]]
           /\ \A o \in Object : h.members[o] \in [DOMAIN h.members[o] -> Object \cup {NoObject}]
                                /\ DOMAIN h.members[o] \subseteq Index
  BY DEF Heaps

(* The other way round. *)
LEMMA HeapMade ==
    ASSUME NEW c \in [Object -> Int], NEW k \in [Object -> Kind], NEW m \in BOOLEAN, NEW M,
           M = [o \in Object |-> M[o]],
           \A o \in Object : M[o] \in [DOMAIN M[o] -> Object \cup {NoObject}] /\ DOMAIN M[o] \subseteq Index
    PROVE  [count |-> c, kind |-> k, misuse |-> m, members |-> M] \in Heaps
  <1> DEFINE F == UNION {[S -> Object \cup {NoObject}] : S \in SUBSET Index}
  <1>1. \A o \in Object : M[o] \in F
    OBVIOUS
  <1> HIDE DEF F
  <1>2. M \in [Object -> F]
    BY <1>1
  <1> QED BY <1>2 DEF Heaps, F

(* There are finitely many entries, so those that refer to an object can be counted. *)
LEMMA EntriesFinite ==
    /\ IsFiniteSet(Entry) /\ Cardinality(Entry) \in Nat
    /\ \A S \in SUBSET Entry : IsFiniteSet(S) /\ Cardinality(S) \in Nat /\ Cardinality(S) <= Cardinality(Entry)
  <1>1. IsFiniteSet(1 .. MaxIndex)
    <2>1. 1 \in Int /\ MaxIndex \in Int
      BY ObjectsAssumption
    <2> QED BY <2>1, FS_Interval
  <1>2. IsFiniteSet(Index)
    BY <1>1, ObjectsAssumption, FS_Union DEF Index
  <1>3. IsFiniteSet(Entry)
    BY <1>2, ObjectsAssumption, FS_Product DEF Entry
  <1> QED BY <1>3, FS_Subset, FS_CardinalityType

(* Those that refer to an object, in particular. *)
LEMMA LinksFinite ==
    ASSUME NEW h, NEW o, NEW X
    PROVE  IsFiniteSet(Links(h, o, X)) /\ Cardinality(Links(h, o, X)) \in Nat
  <1>1. Links(h, o, X) \in SUBSET Entry
    BY DEF Links
  <1> QED BY <1>1, EntriesFinite

(* g is h with one reference less to v. *)
Released(h, v, g) ==
    /\ g \in Heaps /\ g.members = h.members /\ g.misuse = h.misuse
    /\ \A o \in Object : g.count[o] = IF o = v THEN h.count[o] - 1 ELSE h.count[o]

(* A reference there is can be given up. *)
LEMMA DroppedKinds ==
    ASSUME NEW h \in Heaps, NEW v \in Object \cup {NoObject}, v \in Object => h.count[v] >= 1
    PROVE  Released(h, v, Dropped(h, v))
  <1>1. /\ h.count \in [Object -> Int] /\ h.kind \in [Object -> Kind] /\ h.misuse \in BOOLEAN
        /\ h.members = [o \in Object |-> h.members[o]]
        /\ \A o \in Object : h.members[o] \in [DOMAIN h.members[o] -> Object \cup {NoObject}]
                             /\ DOMAIN h.members[o] \subseteq Index
        /\ h = [count |-> h.count, kind |-> h.kind, misuse |-> h.misuse, members |-> h.members]
    BY HeapKinds
  <1>2. CASE v = NoObject
    <2>1. Dropped(h, v) = h /\ v \notin Object
      BY <1>2, ObjectsAssumption DEF Dropped
    <2>2. \A o \in Object : o # v
      BY <2>1
    <2> QED BY <2>1, <2>2 DEF Released
  <1>3. ASSUME v \in Object PROVE Released(h, v, Dropped(h, v))
    <2>1. v # NoObject /\ h.count[v] \in Int /\ h.count[v] >= 1
      BY <1>1, <1>3, ObjectsAssumption
    <2> DEFINE c == [h.count EXCEPT ![v] = @ - 1]
    <2>2. c \in [Object -> Int] /\ \A o \in Object : c[o] = IF o = v THEN h.count[o] - 1 ELSE h.count[o]
      BY <1>1, <1>3
    <2> DEFINE g == [count |-> c, kind |-> h.kind, misuse |-> h.misuse, members |-> h.members]
               k == [h.kind EXCEPT ![v] = "string"]
               r == [count |-> c, kind |-> k, misuse |-> h.misuse, members |-> h.members]
    <2>3. [h EXCEPT !.count[v] = @ - 1] = g
      BY <1>1
    <2>4. [g EXCEPT !.kind[v] = "string"] = r
      <3> HIDE DEF c
      <3> QED OBVIOUS
    <2>5. g.count[v] = c[v] /\ k \in [Object -> Kind]
      BY <1>1 DEF Kind
    <2>6. Dropped(h, v) = IF c[v] = 0 THEN r ELSE g
      <3> HIDE DEF c, k, r, g
      <3>1. Dropped(h, v) = LET x == [h EXCEPT !.count[v] = @ - 1]
                            IN IF x.count[v] = 0 THEN [x EXCEPT !.kind[v] = "string"] ELSE x
        BY <2>1 DEF Dropped
      <3> QED BY <2>3, <2>4, <2>5, <3>1
    <2> HIDE DEF c, k
    <2>7. g \in Heaps /\ r \in Heaps
      BY <1>1, <2>2, <2>5, HeapMade
    <2>8. /\ g.members = h.members /\ g.misuse = h.misuse /\ g.count = c
          /\ r.members = h.members /\ r.misuse = h.misuse /\ r.count = c
      OBVIOUS
    <2> HIDE DEF g, r
    <2>9. CASE c[v] = 0
      <3>1. Dropped(h, v) = r
        BY <2>6, <2>9
      <3> QED BY <2>2, <2>7, <2>8, <3>1 DEF Released
    <2>10. CASE c[v] # 0
      <3>1. Dropped(h, v) = g
        BY <2>6, <2>10
      <3> QED BY <2>2, <2>7, <2>8, <3>1 DEF Released
    <2> QED BY <2>9, <2>10
  <1> QED BY <1>2, <1>3

(* Giving it up settles what is owed. *)
LEMMA DroppedCounts ==
    ASSUME NEW h \in Heaps, NEW v \in Object \cup {NoObject}, NEW hd \in [Object -> Nat], NEW X,
           Owing(h, hd, X, v)
    PROVE  Released(h, v, Dropped(h, v)) /\ Counted(Dropped(h, v), hd, X)
  <1>1. v \in Object => h.count[v] >= 1
    <2> SUFFICES ASSUME v \in Object PROVE h.count[v] >= 1
      OBVIOUS
    <2>1. h.count[v] = hd[v] + Cardinality(Links(h, v, X)) + 1
      BY DEF Owing
    <2>2. hd[v] \in Nat /\ Cardinality(Links(h, v, X)) \in Nat
      BY LinksFinite
    <2> QED BY <2>1, <2>2
  <1> DEFINE g == Dropped(h, v)
  <1>2. Released(h, v, g)
    BY <1>1, DroppedKinds
  <1> HIDE DEF g
  <1>3. \A o : Links(g, o, X) = Links(h, o, X)
    BY <1>2 DEF Released, Links
  <1>4. ASSUME NEW o \in Object PROVE g.count[o] = hd[o] + Cardinality(Links(g, o, X))
    <2>1. hd[o] \in Nat /\ Cardinality(Links(h, o, X)) \in Nat
      BY LinksFinite
    <2>2. h.count[o] = hd[o] + Cardinality(Links(h, o, X)) + (IF o = v THEN 1 ELSE 0)
      BY DEF Owing
    <2>3. g.count[o] = IF o = v THEN h.count[o] - 1 ELSE h.count[o]
      BY <1>2 DEF Released
    <2>4. CASE o = v
      BY <1>3, <2>1, <2>2, <2>3, <2>4
    <2>5. CASE o # v
      BY <1>3, <2>1, <2>2, <2>3, <2>5
    <2> QED BY <2>4, <2>5
  <1> QED BY <1>2, <1>4 DEF Counted, g

(* g is h without the entry e. *)
Shorter(h, e, g) ==
    /\ g \in Heaps /\ g.count = h.count /\ g.misuse = h.misuse
    /\ \A o \in Object : o # e[1] => g.members[o] = h.members[o]
    /\ DOMAIN g.members[e[1]] = DOMAIN h.members[e[1]] \ {e[2]}
    /\ \A k \in DOMAIN g.members[e[1]] : g.members[e[1]][k] = h.members[e[1]][k]

(* An entry is taken out. *)
LEMMA CutKinds ==
    ASSUME NEW h \in Heaps, NEW e \in Entry
    PROVE  Shorter(h, e, EntryCut(h, e))
  <1>1. /\ h.count \in [Object -> Int] /\ h.kind \in [Object -> Kind] /\ h.misuse \in BOOLEAN
        /\ h.members = [o \in Object |-> h.members[o]]
        /\ \A o \in Object : h.members[o] \in [DOMAIN h.members[o] -> Object \cup {NoObject}]
                             /\ DOMAIN h.members[o] \subseteq Index
        /\ h = [count |-> h.count, kind |-> h.kind, misuse |-> h.misuse, members |-> h.members]
    BY HeapKinds
  <1>2. e[1] \in Object /\ e[2] \in Index
    BY DEF Entry
  <1> DEFINE c == MemberCut(h.members[e[1]], e[2])  M == [h.members EXCEPT ![e[1]] = c]
             g == [count |-> h.count, kind |-> h.kind, misuse |-> h.misuse, members |-> M]
  <1>3. /\ c \in [DOMAIN c -> Object \cup {NoObject}] /\ DOMAIN c = DOMAIN h.members[e[1]] \ {e[2]}
        /\ \A k \in DOMAIN c : c[k] = h.members[e[1]][k]
    BY <1>1, <1>2 DEF MemberCut
  <1>4. EntryCut(h, e) = g
    BY <1>1 DEF EntryCut
  <1> HIDE DEF c
  <1>5. M = [o \in Object |-> M[o]] /\ M[e[1]] = c /\ \A o \in Object : o # e[1] => M[o] = h.members[o]
    BY <1>1, <1>2
  <1> HIDE DEF M
  <1>6. ASSUME NEW o \in Object
        PROVE  M[o] \in [DOMAIN M[o] -> Object \cup {NoObject}] /\ DOMAIN M[o] \subseteq Index
    <2>1. CASE o = e[1]
      BY <1>1, <1>2, <1>3, <1>5, <2>1
    <2>2. CASE o # e[1]
      BY <1>1, <1>5, <2>2
    <2> QED BY <2>1, <2>2
  <1>7. g \in Heaps
    BY <1>1, <1>5, <1>6, HeapMade
  <1>8. g.count = h.count /\ g.misuse = h.misuse /\ g.members = M
    OBVIOUS
  <1> HIDE DEF g
  <1>9. /\ \A o \in Object : o # e[1] => g.members[o] = h.members[o]
        /\ DOMAIN g.members[e[1]] = DOMAIN h.members[e[1]] \ {e[2]}
        /\ \A k \in DOMAIN g.members[e[1]] : g.members[e[1]][k] = h.members[e[1]][k]
    BY <1>3, <1>5, <1>8
  <1> QED BY <1>4, <1>7, <1>8, <1>9 DEF Shorter

(* The reference it held is then owed. *)
LEMMA CutOwes ==
    ASSUME NEW h \in Heaps, NEW e \in Entry, e[2] \in DOMAIN h.members[e[1]], NEW X, e \notin X,
           NEW hd \in [Object -> Nat], Counted(h, hd, X), NEW g, Shorter(h, e, g)
    PROVE  Owing(g, hd, X, h.members[e[1]][e[2]])
  <1> DEFINE v == h.members[e[1]][e[2]]
  <1>1. e[1] \in Object /\ \A x \in Entry : x[1] \in Object /\ (x[1] = e[1] /\ x[2] = e[2] => x = e)
    BY DEF Entry
  <1>2. \A x \in Entry \ X : x[2] \in DOMAIN g.members[x[1]] <=> x[2] \in DOMAIN h.members[x[1]] /\ x # e
    <2> SUFFICES ASSUME NEW x \in Entry \ X
                 PROVE  x[2] \in DOMAIN g.members[x[1]] <=> x[2] \in DOMAIN h.members[x[1]] /\ x # e
      OBVIOUS
    <2>1. CASE x[1] = e[1]
      BY <1>1, <2>1 DEF Shorter
    <2>2. CASE x[1] # e[1]
      BY <1>1, <2>2 DEF Shorter
    <2> QED BY <2>1, <2>2
  <1>3. \A x \in Entry \ X : x[2] \in DOMAIN g.members[x[1]] => g.members[x[1]][x[2]] = h.members[x[1]][x[2]]
    <2> SUFFICES ASSUME NEW x \in Entry \ X, x[2] \in DOMAIN g.members[x[1]]
                 PROVE  g.members[x[1]][x[2]] = h.members[x[1]][x[2]]
      OBVIOUS
    <2>1. CASE x[1] = e[1]
      BY <1>1, <2>1 DEF Shorter
    <2>2. CASE x[1] # e[1]
      BY <1>1, <2>2 DEF Shorter
    <2> QED BY <2>1, <2>2
  <1> HIDE DEF v
  <1>4. ASSUME NEW o \in Object
        PROVE  h.count[o] = hd[o] + Cardinality(Links(g, o, X)) + (IF o = v THEN 1 ELSE 0)
    <2>1. hd[o] \in Nat /\ h.count[o] = hd[o] + Cardinality(Links(h, o, X))
      BY DEF Counted
    <2>2. IsFiniteSet(Links(g, o, X)) /\ Cardinality(Links(g, o, X)) \in Nat
      BY LinksFinite
    <2>3. CASE o = v
      <3>1. Links(h, o, X) = Links(g, o, X) \cup {e} /\ e \notin Links(g, o, X)
        BY <1>2, <1>3, <2>3 DEF Links, v
      <3>2. Cardinality(Links(h, o, X)) = Cardinality(Links(g, o, X)) + 1
        BY <2>2, <3>1, FS_AddElement
      <3> QED BY <2>1, <2>2, <2>3, <3>2
    <2>4. CASE o # v
      <3>1. Links(h, o, X) = Links(g, o, X)
        BY <1>2, <1>3, <2>4 DEF Links, v
      <3> QED BY <2>1, <2>2, <2>4, <3>1
    <2> QED BY <2>3, <2>4
  <1> QED BY <1>4 DEF Owing, Shorter, v

(* The members of g are among those of h. *)
Thinner(g, h) ==
    \A o \in Object : /\ DOMAIN g.members[o] \subseteq DOMAIN h.members[o]
                      /\ \A k \in DOMAIN g.members[o] : g.members[o][k] = h.members[o][k]

(* Taking h apart touches the objects of D only. *)
Draining(g, h, D, hd, X) ==
    /\ g \in Heaps /\ ~g.misuse /\ Counted(g, hd, X) /\ Thinner(g, h)
    /\ \A o \in Object \ D : g.count[o] = h.count[o] /\ g.members[o] = h.members[o]

(* D has what the members of its objects are, and none of the entries X. *)
Enclosed(h, D, X) ==
    /\ D \subseteq Object /\ Closed(h, D) /\ Orphans(h) = {} /\ \A e \in X : e[1] \notin D

(* What is left to release belongs to D. *)
LEMMA OrphansInside ==
    ASSUME NEW h, NEW g, NEW D, NEW hd, NEW X, Draining(g, h, D, hd, X), Enclosed(h, D, X),
           NEW e \in Orphans(g)
    PROVE  /\ e \in Entry /\ e[1] \in D /\ e[1] \in Object /\ e \notin X /\ e[2] \in DOMAIN g.members[e[1]]
           /\ g.members[e[1]][e[2]] \in D \cup {NoObject}
  <1> DEFINE v == g.members[e[1]][e[2]]
  <1>1. e \in Entry /\ e[1] \in Object /\ g.count[e[1]] = 0 /\ e[2] \in DOMAIN g.members[e[1]]
    BY DEF Orphans, Entry
  <1>2. e[1] \in D
    <2> SUFFICES ASSUME e[1] \notin D PROVE FALSE
      OBVIOUS
    <2>1. h.count[e[1]] = 0 /\ e[2] \in DOMAIN h.members[e[1]]
      BY <1>1 DEF Draining
    <2> QED BY <1>1, <2>1 DEF Enclosed, Orphans
  <1>3. e \notin X
    BY <1>2 DEF Enclosed
  <1>4. e[2] \in DOMAIN h.members[e[1]] /\ v = h.members[e[1]][e[2]]
    BY <1>1 DEF Draining, Thinner
  <1>5. v \in Members(h, e[1]) \cup {NoObject}
    BY <1>4 DEF Members
  <1>6. Members(h, e[1]) \subseteq D
    BY <1>2 DEF Enclosed, Closed
  <1> QED BY <1>1, <1>2, <1>3, <1>5, <1>6

(* g2 is g with one entry less. *)
OneLess(g, g2) ==
    \/ Orphans(g) = {} /\ g2 = g
    \/ Entries(g2) \in SUBSET Entry /\ \E e \in Entries(g) : Entries(g2) = Entries(g) \ {e}

(* Releasing one member keeps the counts. *)
LEMMA ReleaseKeeps ==
    ASSUME NEW h, NEW g, NEW D, NEW hd \in [Object -> Nat], NEW X, Draining(g, h, D, hd, X),
           Enclosed(h, D, X)
    PROVE  Draining(ReleaseMember[g], h, D, hd, X) /\ OneLess(g, ReleaseMember[g])
  <1> DEFINE e == CHOOSE x \in Orphans(g) : TRUE
             v == g.members[e[1]][e[2]]
             c == EntryCut(g, e)
  <1>1. ReleaseMember[g] = IF Orphans(g) = {} THEN g ELSE Dropped(c, v)
    BY DEF ReleaseMember, Draining
  <1>2. CASE Orphans(g) = {}
    BY <1>1, <1>2 DEF OneLess
  <1>3. CASE Orphans(g) # {}
    <2> DEFINE r == Dropped(c, v)
    <2>1. e \in Orphans(g)
      BY <1>3
    <2> HIDE DEF e
    <2>2. /\ e \in Entry /\ e[1] \in D /\ e[1] \in Object /\ e \notin X /\ e[2] \in DOMAIN g.members[e[1]]
          /\ v \in D \cup {NoObject}
      BY <2>1, OrphansInside
    <2>3. g \in Heaps /\ Counted(g, hd, X) /\ ~g.misuse
      BY DEF Draining
    <2>4. Shorter(g, e, c)
      BY <2>2, <2>3, CutKinds
    <2>5. c \in Heaps
      BY <2>4 DEF Shorter
    <2>6. Owing(c, hd, X, v)
      BY <2>2, <2>3, <2>4, CutOwes
    <2>7. D \subseteq Object
      BY DEF Enclosed
    <2> HIDE DEF c, v
    <2>8. Released(c, v, r) /\ Counted(r, hd, X)
      BY <2>2, <2>5, <2>6, <2>7, DroppedCounts
    <2> HIDE DEF r
    <2>9. r \in Heaps /\ ~r.misuse /\ r.members = c.members
      BY <2>3, <2>4, <2>8 DEF Released, Shorter
    <2>10. Thinner(r, h)
      <3> SUFFICES ASSUME NEW o \in Object
                   PROVE  /\ DOMAIN r.members[o] \subseteq DOMAIN h.members[o]
                          /\ \A k \in DOMAIN r.members[o] : r.members[o][k] = h.members[o][k]
        BY DEF Thinner
      <3>1. /\ DOMAIN g.members[o] \subseteq DOMAIN h.members[o]
            /\ \A k \in DOMAIN g.members[o] : g.members[o][k] = h.members[o][k]
        BY DEF Draining, Thinner
      <3>2. /\ DOMAIN c.members[o] \subseteq DOMAIN g.members[o]
            /\ \A k \in DOMAIN c.members[o] : c.members[o][k] = g.members[o][k]
        <4>1. CASE o = e[1]
          BY <2>4, <4>1 DEF Shorter
        <4>2. CASE o # e[1]
          BY <2>4, <4>2 DEF Shorter
        <4> QED BY <4>1, <4>2
      <3> QED BY <2>9, <3>1, <3>2
    <2>11. ASSUME NEW o \in Object \ D PROVE r.count[o] = h.count[o] /\ r.members[o] = h.members[o]
      <3>1. o # v /\ o # e[1]
        BY <2>2, ObjectsAssumption
      <3>2. r.count[o] = c.count[o] /\ c.count[o] = g.count[o]
        BY <2>4, <2>8, <3>1 DEF Released, Shorter
      <3>3. r.members[o] = g.members[o]
        BY <2>4, <2>9, <3>1 DEF Shorter
      <3>4. g.count[o] = h.count[o] /\ g.members[o] = h.members[o]
        BY DEF Draining
      <3> QED BY <3>2, <3>3, <3>4
    <2>12. Entries(r) \in SUBSET Entry /\ e \in Entries(g) /\ Entries(r) = Entries(g) \ {e}
      <3>1. e \in Entries(g) /\ Entries(r) \in SUBSET Entry
        BY <2>2 DEF Entries
      <3>2. ASSUME NEW x \in Entry
            PROVE  x[2] \in DOMAIN r.members[x[1]] <=> x[2] \in DOMAIN g.members[x[1]] /\ x # e
        <4>1. x[1] \in Object /\ (x[1] = e[1] /\ x[2] = e[2] => x = e)
          BY <2>2 DEF Entry
        <4>2. CASE x[1] = e[1]
          BY <2>4, <2>9, <4>1, <4>2 DEF Shorter
        <4>3. CASE x[1] # e[1]
          BY <2>4, <2>9, <4>1, <4>3 DEF Shorter
        <4> QED BY <4>2, <4>3
      <3> QED BY <3>1, <3>2 DEF Entries
    <2>13. ReleaseMember[g] = r
      BY <1>1, <1>3 DEF r
    <2>14. Draining(r, h, D, hd, X)
      BY <2>8, <2>9, <2>10, <2>11 DEF Draining
    <2> QED BY <2>12, <2>13, <2>14 DEF OneLess
  <1> QED BY <1>2, <1>3

(* Giving up the owed reference, and taking apart what that deletes, leaves counts that
   are right and nothing half taken apart. *)
LEMMA PutKeeps ==
    ASSUME NEW h \in Heaps, ~h.misuse, NEW D, NEW hd \in [Object -> Nat], NEW X, Enclosed(h, D, X),
           NEW v \in D \cup {NoObject}, Owing(h, hd, X, v)
    PROVE  Draining(json_object_put(h, v), h, D, hd, X) /\ Orphans(json_object_put(h, v)) = {}
  <1> DEFINE N == Cardinality(Entry)
             Small(g, n) == Orphans(g) = {} \/ Cardinality(Entries(g)) <= N - n
             P == [n \in Nat |-> {g \in Heaps : Draining(g, h, D, hd, X) /\ Small(g, n)}]
             d == Dropped(h, v)
  <1>1. N \in Nat /\ \A S \in SUBSET Entry : IsFiniteSet(S) /\ Cardinality(S) \in Nat /\ Cardinality(S) <= N
    BY EntriesFinite
  <1>2. \A g : Entries(g) \in SUBSET Entry
    BY DEF Entries
  <1> HIDE DEF N
  <1>3. d \in P[0]
    <2>1. v \in Object \cup {NoObject}
      BY DEF Enclosed
    <2>2. Released(h, v, d) /\ Counted(d, hd, X)
      BY <2>1, DroppedCounts
    <2> HIDE DEF d
    <2>3. d \in Heaps /\ ~d.misuse /\ d.members = h.members
      BY <2>2 DEF Released
    <2>4. Thinner(d, h)
      BY <2>3 DEF Thinner
    <2>5. \A o \in Object \ D : d.count[o] = h.count[o] /\ d.members[o] = h.members[o]
      <3> SUFFICES ASSUME NEW o \in Object \ D PROVE d.count[o] = h.count[o] /\ d.members[o] = h.members[o]
        OBVIOUS
      <3>1. o # v
        BY ObjectsAssumption
      <3> QED BY <2>2, <2>3, <3>1 DEF Released
    <2>6. Draining(d, h, D, hd, X)
      BY <2>2, <2>3, <2>4, <2>5 DEF Draining
    <2>7. Cardinality(Entries(d)) <= N - 0
      BY <1>1, <1>2
    <2> QED BY <2>3, <2>6, <2>7
  <1>4. ASSUME NEW n \in Nat, n < N, NEW g \in P[n] PROVE ReleaseMember[g] \in P[n + 1]
    <2> DEFINE r == ReleaseMember[g]
    <2>1. Draining(g, h, D, hd, X) /\ Small(g, n)
      BY <1>4
    <2>2. Draining(r, h, D, hd, X) /\ OneLess(g, r)
      BY <2>1, ReleaseKeeps
    <2> HIDE DEF r
    <2>3. r \in Heaps
      BY <2>2 DEF Draining
    <2>4. Small(r, n + 1)
      <3>1. CASE Orphans(g) = {} /\ r = g
        BY <3>1
      <3>2. CASE Orphans(g) # {} /\ \E e \in Entries(g) : Entries(r) = Entries(g) \ {e}
        <4>1. PICK e \in Entries(g) : Entries(r) = Entries(g) \ {e}
          BY <3>2
        <4>2. IsFiniteSet(Entries(g)) /\ Cardinality(Entries(g)) \in Nat
          BY <1>1, <1>2
        <4>3. Cardinality(Entries(r)) = Cardinality(Entries(g)) - 1
          BY <4>1, <4>2, FS_RemoveElement
        <4>4. Cardinality(Entries(g)) <= N - n
          BY <2>1, <3>2
        <4> QED BY <1>1, <4>2, <4>3, <4>4
      <3>3. CASE Orphans(g) = {} /\ \E e \in Entries(g) : Entries(r) = Entries(g) \ {e}
        <4>1. ReleaseMember[g] = g
          BY <2>1, <3>3 DEF ReleaseMember, Draining
        <4> QED BY <3>3, <4>1 DEF r
      <3> QED BY <2>2, <3>1, <3>2, <3>3 DEF OneLess
    <2> HIDE DEF Small
    <2>5. r \in {x \in Heaps : Draining(x, h, D, hd, X) /\ Small(x, n + 1)} /\ n + 1 \in Nat
      BY <2>2, <2>3, <2>4
    <2> QED BY <2>5 DEF r
  <1> HIDE DEF P, d
  <1>5. Iterated(ReleaseMember, d, N) \in P[N]
    BY <1>1, <1>3, <1>4, IteratedUpTo
  <1>6. json_object_put(h, v) = Iterated(ReleaseMember, d, N)
    BY DEF json_object_put, d, N
  <1> DEFINE r == json_object_put(h, v)
  <1>7. Draining(r, h, D, hd, X) /\ Small(r, N)
    BY <1>1, <1>5, <1>6 DEF P
  <1> HIDE DEF r
  <1>8. Orphans(r) = {}
    <2>1. CASE Cardinality(Entries(r)) <= N - N
      <3>1. IsFiniteSet(Entries(r)) /\ Cardinality(Entries(r)) \in Nat
        BY <1>1, <1>2
      <3>2. Entries(r) = {}
        BY <1>1, <2>1, <3>1, FS_EmptySet
      <3>3. Orphans(r) \subseteq Entries(r)
        BY DEF Orphans, Entries
      <3> QED BY <3>2, <3>3
    <2> QED BY <1>7, <2>1
  <1> QED BY <1>7, <1>8 DEF r

(* What an object has for members are objects. *)
LEMMA MembersKinds ==
    ASSUME NEW h \in Heaps, NEW o \in Object
    PROVE  Members(h, o) \subseteq Object
  <1>1. h.members[o] \in [DOMAIN h.members[o] -> Object \cup {NoObject}]
    BY HeapKinds
  <1> QED BY <1>1 DEF Members

(* What can be reached from S is the least set that holds S and is closed, *)
LEMMA ReachLeast ==
    ASSUME NEW h \in Heaps, NEW S \in SUBSET Object
    PROVE  /\ S \subseteq Reach(h, S) /\ Reach(h, S) \subseteq Object /\ Closed(h, Reach(h, S))
           /\ \A W \in SUBSET Object : S \subseteq W /\ Closed(h, W) => Reach(h, S) \subseteq W
  <1>1. \A W \in SUBSET Object : S \subseteq W /\ Closed(h, W) => Reach(h, S) \subseteq W
    BY DEF Reach
  <1>2. S \subseteq Reach(h, S) /\ Reach(h, S) \subseteq Object
    BY DEF Reach
  <1>3. ASSUME NEW o \in Reach(h, S), NEW x \in Members(h, o) PROVE x \in Reach(h, S)
    <2>1. x \in Object
      BY <1>2, <1>3, MembersKinds
    <2> SUFFICES ASSUME NEW W \in SUBSET Object, S \subseteq W, Closed(h, W) PROVE x \in W
      BY <2>1 DEF Reach
    <2>2. o \in W
      BY <1>1
    <2> QED BY <1>3, <2>2 DEF Closed
  <1>4. Closed(h, Reach(h, S))
    BY <1>3 DEF Closed
  <1> QED BY <1>1, <1>2, <1>4

(* and whatever it has beside S is a member of something in it. *)
LEMMA ReachParent ==
    ASSUME NEW h \in Heaps, NEW S \in SUBSET Object, NEW o \in Reach(h, S), o \notin S
    PROVE  \E p \in Reach(h, S) : o \in Members(h, p)
  <1> SUFFICES ASSUME \A p \in Reach(h, S) : o \notin Members(h, p) PROVE FALSE
    OBVIOUS
  <1> DEFINE W == Reach(h, S) \ {o}
  <1>1. W \in SUBSET Object /\ S \subseteq W
    BY ReachLeast
  <1>2. Closed(h, W)
    <2>1. Closed(h, Reach(h, S))
      BY ReachLeast
    <2> QED BY <2>1 DEF Closed
  <1>3. Reach(h, S) \subseteq W
    BY <1>1, <1>2, ReachLeast
  <1> QED BY <1>3

(* No object is inside itself: every set of objects has one that is a member of none
   of them. *)
Acyclic(h) == \A S \in SUBSET Object : S # {} => \E o \in S : \A p \in S : o \notin Members(h, p)

(* So no way leads back from a member to its container, *)
LEMMA NoWayBack ==
    ASSUME NEW h \in Heaps, Acyclic(h), NEW p \in Object, NEW v \in Members(h, p)
    PROVE  p \notin Reach(h, {v})
  <1> SUFFICES ASSUME p \in Reach(h, {v}) PROVE FALSE
    OBVIOUS
  <1>0. v \in Object
    BY MembersKinds
  <1> DEFINE S == {x \in Reach(h, {v}) : p \in Reach(h, {x})}
  <1>1. S \in SUBSET Object /\ p \in S /\ v \in S
    <2>1. v \in Reach(h, {v}) /\ Reach(h, {v}) \subseteq Object
      BY <1>0, ReachLeast
    <2>2. p \in Reach(h, {p})
      BY ReachLeast
    <2> QED BY <2>1, <2>2
  <1>2. PICK o \in S : \A q \in S : o \notin Members(h, q)
    BY <1>1 DEF Acyclic
  <1>3. CASE o = v
    BY <1>1, <1>2, <1>3
  <1>4. CASE o # v
    <2>1. PICK q \in Reach(h, {v}) : o \in Members(h, q)
      <3>1. {v} \in SUBSET Object /\ o \in Reach(h, {v}) /\ o \notin {v}
        BY <1>0, <1>2, <1>4
      <3> QED BY <3>1, ReachParent
    <2>2. q \in Object /\ o \in Object
      BY <1>0, <1>1, ReachLeast
    <2>3. q \in Reach(h, {q}) /\ Closed(h, Reach(h, {q})) /\ Reach(h, {q}) \in SUBSET Object
      BY <2>2, ReachLeast
    <2>4. o \in Reach(h, {q})
      BY <2>1, <2>3 DEF Closed
    <2>5. Reach(h, {o}) \subseteq Reach(h, {q})
      <3>1. {o} \in SUBSET Object /\ {o} \subseteq Reach(h, {q})
        BY <2>2, <2>4
      <3> QED BY <2>3, <3>1, ReachLeast
    <2>6. p \in Reach(h, {o})
      BY <1>2
    <2>7. q \in S
      BY <2>5, <2>6
    <2> QED BY <1>2, <2>1, <2>7
  <1> QED BY <1>3, <1>4

(* which stays so with fewer members, *)
LEMMA AcyclicLess ==
    ASSUME NEW h, NEW g, Thinner(g, h), Acyclic(h)
    PROVE  Acyclic(g) /\ \A o \in Object : Members(g, o) \subseteq Members(h, o)
  <1>1. \A o \in Object : Members(g, o) \subseteq Members(h, o)
    BY DEF Members, Thinner
  <1> QED BY <1>1 DEF Acyclic

(* and less can be reached, *)
LEMMA ReachLess ==
    ASSUME NEW h \in Heaps, NEW g \in Heaps, NEW S \in SUBSET Object,
           \A o \in Object : Members(g, o) \subseteq Members(h, o)
    PROVE  Reach(g, S) \subseteq Reach(h, S)
  <1>1. S \subseteq Reach(h, S) /\ Reach(h, S) \in SUBSET Object /\ Closed(h, Reach(h, S))
    BY ReachLeast
  <1>2. Closed(g, Reach(h, S))
    BY <1>1 DEF Closed
  <1> QED BY <1>1, <1>2, ReachLeast

(* and with one member more, unless a way leads from it to its container. *)
LEMMA AcyclicMore ==
    ASSUME NEW h \in Heaps, NEW g, Acyclic(h), NEW p \in Object, NEW v,
           v \in Object => p \notin Reach(h, {v}),
           \A o \in Object \ {p} : Members(g, o) = Members(h, o),
           Members(g, p) \subseteq Members(h, p) \cup {v}
    PROVE  Acyclic(g)
  <1> SUFFICES ASSUME NEW S \in SUBSET Object, S # {}
               PROVE  \E o \in S : \A q \in S : o \notin Members(g, q)
    BY DEF Acyclic
  <1>1. \A q \in Object : Members(g, q) \subseteq Members(h, q) \cup {v}
    OBVIOUS
  <1>2. CASE p \notin S
    <2>1. PICK o \in S : \A q \in S : o \notin Members(h, q)
      BY DEF Acyclic
    <2>2. \A q \in S : Members(g, q) = Members(h, q)
      BY <1>2
    <2> QED BY <2>1, <2>2
  <1>3. CASE v \notin Object
    <2>1. PICK o \in S : \A q \in S : o \notin Members(h, q)
      BY DEF Acyclic
    <2> QED BY <1>1, <1>3, <2>1
  <1>4. CASE p \in S /\ v \in Object
    <2> DEFINE R == Reach(h, {v})
    <2>1. v \in R /\ Closed(h, R) /\ p \notin R
      BY <1>4, ReachLeast
    <2> HIDE DEF R
    <2>2. S \ R \in SUBSET Object /\ S \ R # {}
      BY <1>4, <2>1
    <2>3. PICK o \in S \ R : \A q \in S \ R : o \notin Members(h, q)
      BY <2>2 DEF Acyclic
    <2>4. \A q \in R : o \notin Members(h, q)
      BY <2>1, <2>3 DEF Closed
    <2>5. o # v
      BY <2>1, <2>3
    <2> QED BY <1>1, <2>3, <2>4, <2>5
  <1> QED BY <1>2, <1>3, <1>4

(* The invariant of the objects. *)
RefInv(h, hd) ==
    /\ h \in Heaps /\ hd \in [Object -> Nat] /\ ~h.misuse
    /\ Counted(h, hd, {}) /\ Orphans(h) = {} /\ Acyclic(h)

(* An object that something refers to is alive, and what has members is. *)
LEMMA LinkedAlive ==
    ASSUME NEW h, NEW hd, RefInv(h, hd)
    PROVE  /\ \A o \in Object : h.count[o] \in Nat /\ (o \in Alive(h) <=> h.count[o] # 0)
           /\ \A e \in Entry : e[2] \in DOMAIN h.members[e[1]] => e[1] \in Alive(h)
           /\ \A o \in Object : hd[o] > 0 => o \in Alive(h)
           /\ \A o \in Object : Links(h, o, {}) # {} => o \in Alive(h)
           /\ \A o \in Alive(h) : hd[o] > 0 \/ Links(h, o, {}) # {}
  <1>1. \A o \in Object : /\ hd[o] \in Nat /\ IsFiniteSet(Links(h, o, {}))
                          /\ Cardinality(Links(h, o, {})) \in Nat
                          /\ h.count[o] = hd[o] + Cardinality(Links(h, o, {}))
                          /\ (Cardinality(Links(h, o, {})) = 0 <=> Links(h, o, {}) = {})
    <2> SUFFICES ASSUME NEW o \in Object
                 PROVE  /\ hd[o] \in Nat /\ IsFiniteSet(Links(h, o, {}))
                        /\ Cardinality(Links(h, o, {})) \in Nat
                        /\ h.count[o] = hd[o] + Cardinality(Links(h, o, {}))
                        /\ (Cardinality(Links(h, o, {})) = 0 <=> Links(h, o, {}) = {})
      OBVIOUS
    <2>1. IsFiniteSet(Links(h, o, {})) /\ Cardinality(Links(h, o, {})) \in Nat
      BY LinksFinite
    <2>2. Cardinality(Links(h, o, {})) = 0 <=> Links(h, o, {}) = {}
      BY <2>1, FS_EmptySet
    <2> QED BY <2>1, <2>2 DEF RefInv, Counted
  <1>2. \A o \in Object : h.count[o] \in Nat /\ (o \in Alive(h) <=> h.count[o] # 0)
    BY <1>1 DEF Alive
  <1>3. ASSUME NEW e \in Entry, e[2] \in DOMAIN h.members[e[1]] PROVE e[1] \in Alive(h)
    <2>1. e[1] \in Object
      BY DEF Entry
    <2>2. h.count[e[1]] # 0
      BY <1>3 DEF RefInv, Orphans
    <2> QED BY <1>2, <2>1, <2>2
  <1>4. \A o \in Object : hd[o] > 0 => o \in Alive(h)
    BY <1>1, <1>2
  <1>5. \A o \in Object : Links(h, o, {}) # {} => o \in Alive(h)
    BY <1>1, <1>2
  <1>6. ASSUME NEW o \in Alive(h) PROVE hd[o] > 0 \/ Links(h, o, {}) # {}
    <2>1. o \in Object /\ h.count[o] # 0
      BY <1>2 DEF Alive
    <2> QED BY <1>1, <2>1
  <1> QED BY <1>2, <1>3, <1>4, <1>5, <1>6

(* A member is referred to by an entry of its container. *)
LEMMA MemberLinked ==
    ASSUME NEW h \in Heaps, NEW p \in Object, NEW o \in Members(h, p)
    PROVE  Links(h, o, {}) # {}
  <1>1. PICK k \in DOMAIN h.members[p] : h.members[p][k] = o
    BY DEF Members
  <1>2. DOMAIN h.members[p] \subseteq Index
    BY HeapKinds
  <1>3. <<p, k>> \in Entry
    BY <1>2 DEF Entry
  <1>4. <<p, k>> \in Links(h, o, {})
    BY <1>1, <1>3 DEF Links
  <1> QED BY <1>4

(* What a client can reach from the references it holds is what is alive. *)
LEMMA KnownAlive ==
    ASSUME NEW h, NEW hd, RefInv(h, hd)
    PROVE  Reach(h, {o \in Object : hd[o] > 0}) = Alive(h)
  <1> DEFINE S == {o \in Object : hd[o] > 0}  R == Reach(h, S)
  <1>1. h \in Heaps /\ S \in SUBSET Object /\ Alive(h) \in SUBSET Object
    BY DEF RefInv, Alive
  <1>2. S \subseteq Alive(h) /\ Closed(h, Alive(h))
    <2>1. ASSUME NEW p \in Alive(h), NEW o \in Members(h, p) PROVE o \in Alive(h)
      <3>1. p \in Object /\ o \in Object
        BY <1>1, <2>1, MembersKinds
      <3>2. Links(h, o, {}) # {}
        BY <1>1, <2>1, <3>1, MemberLinked
      <3> QED BY <3>1, <3>2, LinkedAlive
    <2> QED BY <2>1, LinkedAlive DEF Closed
  <1> HIDE DEF S
  <1>3. R \subseteq Alive(h) /\ S \subseteq R /\ Closed(h, R)
    BY <1>1, <1>2, ReachLeast
  <1> HIDE DEF R
  <1>4. ASSUME Alive(h) \ R # {} PROVE FALSE
    <2> DEFINE U == Alive(h) \ R
    <2>1. PICK o \in U : \A p \in U : o \notin Members(h, p)
      BY <1>1, <1>4 DEF RefInv, Acyclic
    <2>2. o \in Object /\ o \in Alive(h) /\ o \notin R
      BY <1>1, <2>1
    <2>3. ~(hd[o] > 0)
      BY <1>3, <2>2 DEF S
    <2>4. Links(h, o, {}) # {}
      BY <2>2, <2>3, LinkedAlive
    <2>5. PICK e \in Entry : e[2] \in DOMAIN h.members[e[1]] /\ h.members[e[1]][e[2]] = o
      BY <2>4 DEF Links
    <2>6. e[1] \in Alive(h)
      BY <2>5, LinkedAlive
    <2>7. o \in Members(h, e[1])
      BY <2>2, <2>5, ObjectsAssumption DEF Members
    <2>8. e[1] \notin R
      BY <1>3, <2>2, <2>7 DEF Closed
    <2> QED BY <2>1, <2>6, <2>7, <2>8
  <1> QED BY <1>3, <1>4 DEF R, S

(* What v reaches can be taken apart. *)
LEMMA ReachEnclosed ==
    ASSUME NEW h \in Heaps, Orphans(h) = {}, NEW v \in Object \cup {NoObject}, NEW X,
           \A e \in X : e[1] \notin Reach(h, {v} \ {NoObject})
    PROVE  Enclosed(h, Reach(h, {v} \ {NoObject}), X) /\ v \in Reach(h, {v} \ {NoObject}) \cup {NoObject}
  <1>1. {v} \ {NoObject} \in SUBSET Object
    OBVIOUS
  <1>2. /\ Reach(h, {v} \ {NoObject}) \subseteq Object /\ Closed(h, Reach(h, {v} \ {NoObject}))
        /\ {v} \ {NoObject} \subseteq Reach(h, {v} \ {NoObject})
    BY <1>1, ReachLeast
  <1> QED BY <1>2 DEF Enclosed

(* Once everything is released, the invariant holds again. *)
LEMMA DrainedInv ==
    ASSUME NEW h, NEW g, NEW D, NEW hd \in [Object -> Nat], Draining(g, h, D, hd, {}), Orphans(g) = {},
           Acyclic(h)
    PROVE  RefInv(g, hd)
  <1>1. Thinner(g, h)
    BY DEF Draining
  <1>2. Acyclic(g)
    BY <1>1, AcyclicLess
  <1> QED BY <1>2 DEF RefInv, Draining

(* A client gives up a reference. *)
LEMMA PutInv ==
    ASSUME NEW h, NEW hd, RefInv(h, hd), NEW o \in Object, hd[o] > 0
    PROVE  RefInv(json_object_put(h, o), [hd EXCEPT ![o] = @ - 1])
  <1> DEFINE hd2 == [hd EXCEPT ![o] = @ - 1]  D == Reach(h, {o} \ {NoObject})
  <1>1. hd \in [Object -> Nat] /\ h \in Heaps /\ ~h.misuse /\ Orphans(h) = {} /\ Acyclic(h) /\ Counted(h, hd, {})
    BY DEF RefInv
  <1>2. hd2 \in [Object -> Nat] /\ \A x \in Object : hd[x] = hd2[x] + (IF x = o THEN 1 ELSE 0)
    BY <1>1
  <1> HIDE DEF hd2
  <1>3. Owing(h, hd2, {}, o)
    <2> SUFFICES ASSUME NEW x \in Object
                 PROVE  h.count[x] = hd2[x] + Cardinality(Links(h, x, {})) + (IF x = o THEN 1 ELSE 0)
      BY DEF Owing
    <2>1. Cardinality(Links(h, x, {})) \in Nat /\ hd2[x] \in Nat
      BY <1>2, LinksFinite
    <2>2. h.count[x] = hd[x] + Cardinality(Links(h, x, {})) /\ hd[x] = hd2[x] + (IF x = o THEN 1 ELSE 0)
      BY <1>1, <1>2 DEF Counted
    <2>3. CASE x = o
      BY <2>1, <2>2, <2>3
    <2>4. CASE x # o
      BY <2>1, <2>2, <2>4
    <2> QED BY <2>3, <2>4
  <1>4. Enclosed(h, D, {}) /\ o \in D \cup {NoObject}
    BY <1>1, ReachEnclosed
  <1> HIDE DEF D
  <1>5. Draining(json_object_put(h, o), h, D, hd2, {}) /\ Orphans(json_object_put(h, o)) = {}
    BY <1>1, <1>2, <1>3, <1>4, PutKeeps
  <1>6. RefInv(json_object_put(h, o), hd2)
    BY <1>1, <1>2, <1>5, DrainedInv
  <1> QED BY <1>6 DEF hd2

(* A field is deleted, and the reference to its value with it. *)
LEMMA DelInv ==
    ASSUME NEW h, NEW hd, RefInv(h, hd), NEW p \in Object, NEW k \in DOMAIN h.members[p]
    PROVE  RefInv(json_object_object_del(h, p, k), hd)
  <1> DEFINE e == <<p, k>>  c == EntryCut(h, e)  v == h.members[p][k]  D == Reach(c, {v} \ {NoObject})
  <1>1. hd \in [Object -> Nat] /\ h \in Heaps /\ ~h.misuse /\ Orphans(h) = {} /\ Acyclic(h) /\ Counted(h, hd, {})
    BY DEF RefInv
  <1>2. k \in Index /\ v \in Object \cup {NoObject}
    <2>1. /\ h.members[p] \in [DOMAIN h.members[p] -> Object \cup {NoObject}]
          /\ DOMAIN h.members[p] \subseteq Index
      BY <1>1, HeapKinds
    <2> QED BY <2>1
  <1>3. e \in Entry /\ e[1] = p /\ e[2] = k
    BY <1>2 DEF Entry
  <1> HIDE DEF e
  <1>4. Shorter(h, e, c)
    BY <1>1, <1>3, CutKinds
  <1> HIDE DEF c
  <1>5. c \in Heaps /\ ~c.misuse
    BY <1>1, <1>4 DEF Shorter
  <1>6. Owing(c, hd, {}, v)
    BY <1>1, <1>3, <1>4, CutOwes
  <1>7. Thinner(c, h)
    <2> SUFFICES ASSUME NEW o \in Object
                 PROVE  /\ DOMAIN c.members[o] \subseteq DOMAIN h.members[o]
                        /\ \A x \in DOMAIN c.members[o] : c.members[o][x] = h.members[o][x]
      BY DEF Thinner
    <2>1. CASE o = p
      BY <1>3, <1>4, <2>1 DEF Shorter
    <2>2. CASE o # p
      BY <1>3, <1>4, <2>2 DEF Shorter
    <2> QED BY <2>1, <2>2
  <1>8. Orphans(c) = {}
    <2> SUFFICES ASSUME NEW x \in Orphans(c) PROVE FALSE
      OBVIOUS
    <2>1. x \in Entry /\ x[1] \in Object /\ c.count[x[1]] = 0 /\ x[2] \in DOMAIN c.members[x[1]]
      BY DEF Orphans, Entry
    <2>2. h.count[x[1]] = 0 /\ x[2] \in DOMAIN h.members[x[1]]
      BY <1>4, <1>7, <2>1 DEF Shorter, Thinner
    <2> QED BY <1>1, <2>1, <2>2 DEF Orphans
  <1>9. Acyclic(c)
    BY <1>1, <1>7, AcyclicLess
  <1> HIDE DEF v
  <1>10. Enclosed(c, D, {}) /\ v \in D \cup {NoObject}
    BY <1>2, <1>5, <1>8, ReachEnclosed
  <1> HIDE DEF D
  <1>11. Draining(json_object_put(c, v), c, D, hd, {}) /\ Orphans(json_object_put(c, v)) = {}
    BY <1>1, <1>5, <1>6, <1>10, PutKeeps
  <1>12. RefInv(json_object_put(c, v), hd)
    BY <1>1, <1>9, <1>11, DrainedInv
  <1> QED BY <1>12 DEF json_object_object_del, c, v, e

(* The entry k of p is about to be written: what it refers to counts for nothing. *)
Writable(g, hd, p, k) ==
    /\ g \in Heaps /\ hd \in [Object -> Nat] /\ ~g.misuse /\ Counted(g, hd, {<<p, k>>})
    /\ Orphans(g) = {} /\ Acyclic(g) /\ g.count[p] # 0

(* A value that is replaced is released first, *)
LEMMA ReplaceReleases ==
    ASSUME NEW h, NEW hd, RefInv(h, hd), NEW p \in Alive(h), NEW k \in Index,
           NEW g, g = IF k \in DOMAIN h.members[p] THEN json_object_put(h, h.members[p][k]) ELSE h
    PROVE  Writable(g, hd, p, k) /\ Thinner(g, h) /\ g.members[p] = h.members[p]
  <1> DEFINE X == {<<p, k>>}  v == h.members[p][k]  D == Reach(h, {v} \ {NoObject})
  <1>1. hd \in [Object -> Nat] /\ h \in Heaps /\ ~h.misuse /\ Orphans(h) = {} /\ Acyclic(h) /\ Counted(h, hd, {})
    BY DEF RefInv
  <1>2. p \in Object /\ h.count[p] # 0 /\ <<p, k>> \in Entry
    BY LinkedAlive DEF Alive, Entry
  <1>3. CASE k \notin DOMAIN h.members[p]
    <2>1. \A o : Links(h, o, X) = Links(h, o, {})
      BY <1>3 DEF Links
    <2>2. Counted(h, hd, X)
      BY <1>1, <2>1 DEF Counted
    <2> QED BY <1>1, <1>2, <1>3, <2>2 DEF Writable, Thinner
  <1>4. CASE k \in DOMAIN h.members[p]
    <2>1. v \in Object \cup {NoObject}
      <3>1. h.members[p] \in [DOMAIN h.members[p] -> Object \cup {NoObject}]
        BY <1>1, <1>2, HeapKinds
      <3> QED BY <1>4, <3>1
    <2>2. Owing(h, hd, X, v)
      <3> SUFFICES ASSUME NEW o \in Object
                   PROVE  h.count[o] = hd[o] + Cardinality(Links(h, o, X)) + (IF o = v THEN 1 ELSE 0)
        BY DEF Owing
      <3>1. IsFiniteSet(Links(h, o, X)) /\ Cardinality(Links(h, o, X)) \in Nat /\ hd[o] \in Nat
        BY <1>1, LinksFinite
      <3>2. h.count[o] = hd[o] + Cardinality(Links(h, o, {}))
        BY <1>1 DEF Counted
      <3>3. CASE o = v
        <4>1. Links(h, o, {}) = Links(h, o, X) \cup {<<p, k>>} /\ <<p, k>> \notin Links(h, o, X)
          BY <1>2, <1>4, <3>3 DEF Links
        <4>2. Cardinality(Links(h, o, {})) = Cardinality(Links(h, o, X)) + 1
          BY <3>1, <4>1, FS_AddElement
        <4> QED BY <3>1, <3>2, <3>3, <4>2
      <3>4. CASE o # v
        <4>1. Links(h, o, {}) = Links(h, o, X)
          BY <1>2, <1>4, <3>4 DEF Links
        <4> QED BY <3>1, <3>2, <3>4, <4>1
      <3> QED BY <3>3, <3>4
    <2>3. p \notin D
      <3>1. CASE v = NoObject
        <4>1. {} \in SUBSET Object /\ Closed(h, {}) /\ {v} \ {NoObject} = {}
          BY <3>1 DEF Closed
        <4>2. D \subseteq {}
          BY <1>1, <4>1, ReachLeast
        <4> QED BY <4>2
      <3>2. CASE v # NoObject
        <4>1. v \in Members(h, p) /\ {v} \ {NoObject} = {v}
          BY <1>4, <3>2 DEF Members
        <4> HIDE DEF v
        <4>2. p \notin Reach(h, {v})
          BY <1>1, <1>2, <4>1, NoWayBack
        <4> QED BY <4>1, <4>2
      <3> QED BY <3>1, <3>2
    <2>4. \A e \in X : e[1] \notin D
      BY <2>3
    <2> HIDE DEF X, v
    <2>5. Enclosed(h, D, X) /\ v \in D \cup {NoObject}
      BY <1>1, <2>1, <2>4, ReachEnclosed
    <2> HIDE DEF D
    <2>6. Draining(json_object_put(h, v), h, D, hd, X) /\ Orphans(json_object_put(h, v)) = {}
      BY <1>1, <2>2, <2>5, PutKeeps
    <2>7. g = json_object_put(h, v)
      BY <1>4 DEF v
    <2>8. Draining(g, h, D, hd, X) /\ Orphans(g) = {}
      BY <2>6, <2>7
    <2>9. Thinner(g, h) /\ g.count[p] = h.count[p] /\ g.members[p] = h.members[p]
      BY <1>2, <2>3, <2>8 DEF Draining
    <2>10. Acyclic(g)
      BY <1>1, <2>9, AcyclicLess
    <2>11. g \in Heaps /\ ~g.misuse /\ Counted(g, hd, X)
      BY <2>8 DEF Draining
    <2> QED BY <1>1, <1>2, <2>8, <2>9, <2>10, <2>11 DEF Writable, X
  <1> QED BY <1>3, <1>4

(* and the new one takes its place. *)
Written(g, p, k, v, g2) ==
    /\ g2 \in Heaps /\ g2.count = g.count /\ g2.misuse = g.misuse
    /\ \A o \in Object \ {p} : g2.members[o] = g.members[o]
    /\ k \in DOMAIN g2.members[p] /\ g2.members[p][k] = v
    /\ \A x \in DOMAIN g.members[p] : x \in DOMAIN g2.members[p] /\ (x # k => g2.members[p][x] = g.members[p][x])
    /\ \A x \in DOMAIN g2.members[p] \ {k} : x \in DOMAIN g.members[p] \/ g2.members[p][x] = NoObject

(* The reference that is handed over moves from the client to the container. *)
LEMMA WrittenKeeps ==
    ASSUME NEW g, NEW hd, NEW p \in Object, NEW k \in Index, Writable(g, hd, p, k),
           NEW v \in Object \cup {NoObject}, v \in Object => hd[v] > 0 /\ p \notin Reach(g, {v}),
           NEW g2, Written(g, p, k, v, g2),
           NEW hd2, hd2 = IF v = NoObject THEN hd ELSE [hd EXCEPT ![v] = @ - 1]
    PROVE  RefInv(g2, hd2)
  <1> DEFINE X == {<<p, k>>}
  <1>1. /\ g \in Heaps /\ hd \in [Object -> Nat] /\ ~g.misuse /\ Counted(g, hd, X)
        /\ Orphans(g) = {} /\ Acyclic(g) /\ g.count[p] # 0
    BY DEF Writable
  <1>2. <<p, k>> \in Entry /\ \A e \in Entry : e[1] \in Object /\ (e[1] = p /\ e[2] = k <=> e = <<p, k>>)
    BY DEF Entry
  <1>3. /\ hd2 \in [Object -> Nat]
        /\ \A o \in Object : hd[o] = hd2[o] + (IF o = v THEN 1 ELSE 0)
    <2>1. CASE v = NoObject
      <3>1. \A o \in Object : o # v
        BY <2>1, ObjectsAssumption
      <3> QED BY <1>1, <2>1, <3>1
    <2>2. CASE v # NoObject
      BY <1>1, <2>2
    <2> QED BY <2>1, <2>2
  <1>4. \A e \in Entry : e # <<p, k>> /\ e[2] \in DOMAIN g.members[e[1]] =>
          e[2] \in DOMAIN g2.members[e[1]] /\ g2.members[e[1]][e[2]] = g.members[e[1]][e[2]]
    <2> SUFFICES ASSUME NEW e \in Entry, e # <<p, k>>, e[2] \in DOMAIN g.members[e[1]]
                 PROVE  e[2] \in DOMAIN g2.members[e[1]] /\ g2.members[e[1]][e[2]] = g.members[e[1]][e[2]]
      OBVIOUS
    <2>1. CASE e[1] = p
      BY <1>2, <2>1 DEF Written
    <2>2. CASE e[1] # p
      BY <1>2, <2>2 DEF Written
    <2> QED BY <2>1, <2>2
  <1>5. \A e \in Entry : e # <<p, k>> /\ e[2] \in DOMAIN g2.members[e[1]] =>
          e[2] \in DOMAIN g.members[e[1]] \/ g2.members[e[1]][e[2]] = NoObject
    <2> SUFFICES ASSUME NEW e \in Entry, e # <<p, k>>, e[2] \in DOMAIN g2.members[e[1]]
                 PROVE  e[2] \in DOMAIN g.members[e[1]] \/ g2.members[e[1]][e[2]] = NoObject
      OBVIOUS
    <2>1. CASE e[1] = p
      BY <1>2, <2>1 DEF Written
    <2>2. CASE e[1] # p
      BY <1>2, <2>2 DEF Written
    <2> QED BY <2>1, <2>2
  <1>6. k \in DOMAIN g2.members[p] /\ g2.members[p][k] = v
    BY DEF Written
  <1>7. Counted(g2, hd2, {})
    <2> SUFFICES ASSUME NEW o \in Object PROVE g2.count[o] = hd2[o] + Cardinality(Links(g2, o, {}))
      BY DEF Counted
    <2>1. IsFiniteSet(Links(g, o, X)) /\ Cardinality(Links(g, o, X)) \in Nat /\ hd2[o] \in Nat
      BY <1>3, LinksFinite
    <2>2. g2.count[o] = hd[o] + Cardinality(Links(g, o, X)) /\ hd[o] = hd2[o] + (IF o = v THEN 1 ELSE 0)
      BY <1>1, <1>3 DEF Counted, Written
    <2>3. o # NoObject
      BY ObjectsAssumption
    <2>4. \A e \in Entry \ X : e \in Links(g2, o, {}) <=> e \in Links(g, o, X)
      BY <1>4, <1>5, <2>3 DEF Links
    <2>5. <<p, k>> \in Links(g2, o, {}) <=> o = v
      BY <1>2, <1>6 DEF Links
    <2>6. Links(g, o, X) \subseteq Entry \ X /\ Links(g2, o, {}) \subseteq Entry
      BY DEF Links
    <2>7. CASE o = v
      <3>1. Links(g2, o, {}) = Links(g, o, X) \cup {<<p, k>>} /\ <<p, k>> \notin Links(g, o, X)
        BY <2>4, <2>5, <2>6, <2>7
      <3>2. Cardinality(Links(g2, o, {})) = Cardinality(Links(g, o, X)) + 1
        BY <2>1, <3>1, FS_AddElement
      <3> QED BY <2>1, <2>2, <2>7, <3>2
    <2>8. CASE o # v
      <3>1. Links(g2, o, {}) = Links(g, o, X)
        BY <2>4, <2>5, <2>6, <2>8
      <3> QED BY <2>1, <2>2, <2>8, <3>1
    <2> QED BY <2>7, <2>8
  <1>8. Orphans(g2) = {}
    <2> SUFFICES ASSUME NEW e \in Orphans(g2) PROVE FALSE
      OBVIOUS
    <2>1. e \in Entry /\ e[1] \in Object /\ g.count[e[1]] = 0 /\ e[2] \in DOMAIN g2.members[e[1]]
      BY <1>2 DEF Orphans, Written
    <2>2. e[1] # p
      BY <1>1, <2>1
    <2>3. e[2] \in DOMAIN g.members[e[1]]
      BY <2>1, <2>2 DEF Written
    <2> QED BY <1>1, <2>1, <2>3 DEF Orphans
  <1>9. Acyclic(g2)
    <2>1. \A o \in Object \ {p} : Members(g2, o) = Members(g, o)
      BY DEF Written, Members
    <2>2. Members(g2, p) \subseteq Members(g, p) \cup {v}
      <3> SUFFICES ASSUME NEW x \in Members(g2, p), x # v PROVE x \in Members(g, p)
        OBVIOUS
      <3>1. PICK j \in DOMAIN g2.members[p] : x = g2.members[p][j] /\ x # NoObject
        BY DEF Members
      <3>2. j # k
        BY <1>6, <3>1
      <3>3. j \in DOMAIN g.members[p]
        BY <3>1, <3>2 DEF Written
      <3>4. g.members[p][j] = x
        BY <3>1, <3>2, <3>3 DEF Written
      <3> QED BY <3>1, <3>3, <3>4 DEF Members
    <2> QED BY <1>1, <2>1, <2>2, AcyclicMore
  <1> QED BY <1>1, <1>3, <1>7, <1>8, <1>9 DEF RefInv, Written

(* g2 is g with other members for p. *)
Rewritten(g, p, m, g2) ==
    /\ g2 \in Heaps /\ g2.count = g.count /\ g2.misuse = g.misuse /\ g2.members[p] = m
    /\ \A o \in Object \ {p} : g2.members[o] = g.members[o]

(* The members of one object are written. *)
LEMMA WriteKinds ==
    ASSUME NEW g \in Heaps, NEW p \in Object, NEW m, m \in [DOMAIN m -> Object \cup {NoObject}],
           DOMAIN m \subseteq Index
    PROVE  Rewritten(g, p, m, [g EXCEPT !.members[p] = m])
  <1> DEFINE M == [g.members EXCEPT ![p] = m]
             r == [count |-> g.count, kind |-> g.kind, misuse |-> g.misuse, members |-> M]
  <1>1. /\ g.count \in [Object -> Int] /\ g.kind \in [Object -> Kind] /\ g.misuse \in BOOLEAN
        /\ g.members = [o \in Object |-> g.members[o]]
        /\ \A o \in Object : g.members[o] \in [DOMAIN g.members[o] -> Object \cup {NoObject}]
                             /\ DOMAIN g.members[o] \subseteq Index
        /\ g = [count |-> g.count, kind |-> g.kind, misuse |-> g.misuse, members |-> g.members]
    BY HeapKinds
  <1>2. [g EXCEPT !.members[p] = m] = r
    BY <1>1
  <1>3. M = [o \in Object |-> M[o]] /\ M[p] = m /\ \A o \in Object \ {p} : M[o] = g.members[o]
    BY <1>1
  <1> HIDE DEF M
  <1>4. \A o \in Object : M[o] \in [DOMAIN M[o] -> Object \cup {NoObject}] /\ DOMAIN M[o] \subseteq Index
    <2> SUFFICES ASSUME NEW o \in Object
                 PROVE  M[o] \in [DOMAIN M[o] -> Object \cup {NoObject}] /\ DOMAIN M[o] \subseteq Index
      OBVIOUS
    <2>1. CASE o = p
      BY <1>3, <2>1
    <2>2. CASE o # p
      BY <1>1, <1>3, <2>2
    <2> QED BY <2>1, <2>2
  <1>5. r \in Heaps
    BY <1>1, <1>3, <1>4, HeapMade
  <1>6. r.members = M /\ r.count = g.count /\ r.misuse = g.misuse
    OBVIOUS
  <1> HIDE DEF r
  <1> QED BY <1>2, <1>3, <1>5, <1>6 DEF Rewritten

(* A value is put into an object or an array. *)
LEMMA IntoInv ==
    ASSUME NEW h, NEW hd, RefInv(h, hd), NEW p \in Alive(h), NEW k \in Index,
           NEW v \in Object \cup {NoObject}, v # NoObject => hd[v] > 0 /\ p \notin Reach(h, {v}),
           NEW g, g = IF k \in DOMAIN h.members[p] THEN json_object_put(h, h.members[p][k]) ELSE h,
           NEW m, m \in [DOMAIN m -> Object \cup {NoObject}], DOMAIN m \subseteq Index,
           k \in DOMAIN m, m[k] = v,
           \A x \in DOMAIN h.members[p] : x \in DOMAIN m /\ (x # k => m[x] = h.members[p][x]),
           \A x \in DOMAIN m \ {k} : x \in DOMAIN h.members[p] \/ m[x] = NoObject,
           NEW hd2, hd2 = IF v = NoObject THEN hd ELSE [hd EXCEPT ![v] = @ - 1]
    PROVE  RefInv([g EXCEPT !.members[p] = m], hd2)
  <1> DEFINE g2 == [g EXCEPT !.members[p] = m]
  <1>1. Writable(g, hd, p, k) /\ Thinner(g, h) /\ g.members[p] = h.members[p] /\ p \in Object
    BY ReplaceReleases DEF Alive
  <1>2. g \in Heaps /\ h \in Heaps /\ Acyclic(h)
    BY <1>1 DEF Writable, RefInv
  <1>3. Rewritten(g, p, m, g2)
    BY <1>1, <1>2, WriteKinds
  <1> HIDE DEF g2
  <1>4. Written(g, p, k, v, g2)
    BY <1>1, <1>3 DEF Written, Rewritten
  <1>5. v \in Object => hd[v] > 0 /\ p \notin Reach(g, {v})
    <2> SUFFICES ASSUME v \in Object PROVE hd[v] > 0 /\ p \notin Reach(g, {v})
      OBVIOUS
    <2>1. v # NoObject
      BY ObjectsAssumption
    <2>2. \A o \in Object : Members(g, o) \subseteq Members(h, o)
      BY <1>1, <1>2, AcyclicLess
    <2>3. Reach(g, {v}) \subseteq Reach(h, {v})
      BY <1>2, <2>2, ReachLess
    <2> QED BY <2>1, <2>3
  <1>6. RefInv(g2, hd2)
    BY <1>1, <1>4, <1>5, WrittenKeeps
  <1> QED BY <1>6 DEF g2

(* The invariant of the run. *)
ObjectsInv == RefInv(heap, held)

(* It holds in the empty heap. *)
LEMMA ObjectsInit == ASSUME ObjInit PROVE ObjectsInv
  <1> DEFINE c == [o \in Object |-> 0]  kd == [o \in Object |-> "string"]  M == [o \in Object |-> NoMembers]
  <1>1. heap = [count |-> c, kind |-> kd, misuse |-> FALSE, members |-> M] /\ held = c
    BY DEF ObjInit, EmptyHeap
  <1>2. NoMembers \in [DOMAIN NoMembers -> Object \cup {NoObject}] /\ DOMAIN NoMembers = {}
    BY DEF NoMembers
  <1>3. heap \in Heaps
    <2>1. c \in [Object -> Int] /\ kd \in [Object -> Kind] /\ M = [o \in Object |-> M[o]]
      BY DEF Kind
    <2>2. \A o \in Object : M[o] \in [DOMAIN M[o] -> Object \cup {NoObject}] /\ DOMAIN M[o] \subseteq Index
      BY <1>2
    <2> HIDE DEF c, kd, M
    <2> QED BY <1>1, <2>1, <2>2, HeapMade
  <1>4. \A o \in Object : heap.count[o] = 0 /\ DOMAIN heap.members[o] = {} /\ held[o] = 0
    BY <1>1, <1>2
  <1>5. held \in [Object -> Nat] /\ ~heap.misuse
    BY <1>1
  <1>6. Counted(heap, held, {})
    <2> SUFFICES ASSUME NEW o \in Object PROVE heap.count[o] = held[o] + Cardinality(Links(heap, o, {}))
      BY DEF Counted
    <2>1. Links(heap, o, {}) = {}
      BY <1>4 DEF Links, Entry
    <2>2. Cardinality(Links(heap, o, {})) = 0
      BY <2>1, FS_EmptySet
    <2> QED BY <1>4, <2>2
  <1>7. Orphans(heap) = {}
    BY <1>4 DEF Orphans, Entry
  <1>8. Acyclic(heap)
    <2>1. \A o \in Object : Members(heap, o) = {}
      BY <1>4 DEF Members
    <2> QED BY <2>1 DEF Acyclic
  <1> QED BY <1>3, <1>5, <1>6, <1>7, <1>8 DEF ObjectsInv, RefInv

(* What creates or shares an object changes one count, and the references of the client
   with it. *)
LEMMA CountInv ==
    ASSUME NEW h, NEW hd, RefInv(h, hd), NEW o \in Object, NEW g \in Heaps,
           g.members = h.members, g.misuse = h.misuse,
           \A x \in Object : g.count[x] = IF x = o THEN h.count[x] + 1 ELSE h.count[x]
    PROVE  RefInv(g, [hd EXCEPT ![o] = @ + 1])
  <1> DEFINE hd2 == [hd EXCEPT ![o] = @ + 1]
  <1>1. hd \in [Object -> Nat] /\ h \in Heaps /\ ~h.misuse /\ Orphans(h) = {} /\ Acyclic(h) /\ Counted(h, hd, {})
    BY DEF RefInv
  <1>2. hd2 \in [Object -> Nat] /\ \A x \in Object : hd2[x] = IF x = o THEN hd[x] + 1 ELSE hd[x]
    BY <1>1
  <1> HIDE DEF hd2
  <1>3. Counted(g, hd2, {})
    <2> SUFFICES ASSUME NEW x \in Object PROVE g.count[x] = hd2[x] + Cardinality(Links(g, x, {}))
      BY DEF Counted
    <2>1. Cardinality(Links(h, x, {})) \in Nat /\ hd[x] \in Nat
      BY <1>1, LinksFinite
    <2>2. h.count[x] = hd[x] + Cardinality(Links(h, x, {}))
      BY <1>1 DEF Counted
    <2>3. Links(g, x, {}) = Links(h, x, {})
      BY DEF Links
    <2>4. CASE x = o
      BY <1>2, <2>1, <2>2, <2>3, <2>4
    <2>5. CASE x # o
      BY <1>2, <2>1, <2>2, <2>3, <2>5
    <2> QED BY <2>4, <2>5
  <1>4. Orphans(g) = {}
    <2> SUFFICES ASSUME NEW e \in Orphans(g) PROVE FALSE
      OBVIOUS
    <2>1. e \in Entry /\ e[1] \in Object /\ g.count[e[1]] = 0 /\ e[2] \in DOMAIN h.members[e[1]]
      BY DEF Orphans, Entry
    <2>2. h.count[e[1]] \in Nat
      BY <2>1, LinkedAlive
    <2>3. h.count[e[1]] = 0
      <3>1. CASE e[1] = o
        BY <2>1, <2>2, <3>1
      <3>2. CASE e[1] # o
        BY <2>1, <3>2
      <3> QED BY <3>1, <3>2
    <2> QED BY <1>1, <2>1, <2>3 DEF Orphans
  <1>5. Acyclic(g)
    <2>1. \A x \in Object : Members(g, x) = Members(h, x)
      BY DEF Members
    <2> QED BY <1>1, <2>1 DEF Acyclic
  <1>6. RefInv(g, hd2)
    BY <1>1, <1>2, <1>3, <1>4, <1>5 DEF RefInv
  <1> QED BY <1>6 DEF hd2

(* Each call keeps the invariant. *)
LEMMA ObjectsNext == ASSUME ObjectsInv, [ObjNext]_objVars PROVE ObjectsInv'
  <1>0. /\ RefInv(heap, held) /\ heap \in Heaps /\ held \in [Object -> Nat] /\ Orphans(heap) = {}
        /\ Known = Alive(heap)
    BY KnownAlive DEF ObjectsInv, RefInv, Known
  <1>a. /\ heap.count \in [Object -> Int] /\ heap.kind \in [Object -> Kind] /\ heap.misuse \in BOOLEAN
        /\ heap.members = [o \in Object |-> heap.members[o]]
        /\ \A o \in Object : heap.members[o] \in [DOMAIN heap.members[o] -> Object \cup {NoObject}]
                             /\ DOMAIN heap.members[o] \subseteq Index
        /\ heap = [count |-> heap.count, kind |-> heap.kind, misuse |-> heap.misuse, members |-> heap.members]
    BY <1>0, HeapKinds
  <1>1. ASSUME NEW kind \in Kind, New(kind) PROVE ObjectsInv'
    <2> DEFINE o == CHOOSE x \in Object \ Alive(heap) : TRUE
               c == [heap.count EXCEPT ![o] = 1]  kd == [heap.kind EXCEPT ![o] = kind]
               r == [count |-> c, kind |-> kd, misuse |-> heap.misuse, members |-> heap.members]
    <2>1. /\ Alive(heap) # Object /\ heap' = json_object_new(heap, o, kind)
          /\ held' = [held EXCEPT ![o] = 1]
      BY <1>1 DEF New
    <2>2. o \in Object \ Alive(heap)
      <3>1. Object \ Alive(heap) # {}
        BY <2>1 DEF Alive
      <3> QED BY <3>1
    <2> HIDE DEF o
    <2>3. ~(held[o] > 0) /\ heap.count[o] = 0 /\ held[o] \in Nat
      BY <1>0, <2>2, LinkedAlive
    <2>4. held' = [held EXCEPT ![o] = @ + 1]
      <3>1. held[o] = 0
        BY <2>3
      <3> QED BY <2>1, <3>1
    <2>5. heap' = r
      BY <1>a, <2>1 DEF json_object_new
    <2>6. /\ c \in [Object -> Int] /\ kd \in [Object -> Kind]
          /\ \A x \in Object : c[x] = IF x = o THEN heap.count[x] + 1 ELSE heap.count[x]
      BY <1>a, <2>2, <2>3
    <2> HIDE DEF c, kd
    <2>7. r \in Heaps
      BY <1>a, <2>6, HeapMade
    <2>8. r.members = heap.members /\ r.misuse = heap.misuse /\ r.count = c
      OBVIOUS
    <2> HIDE DEF r
    <2>9. RefInv(r, [held EXCEPT ![o] = @ + 1])
      BY <1>0, <2>2, <2>6, <2>7, <2>8, CountInv
    <2> QED BY <2>4, <2>5, <2>9 DEF ObjectsInv
  <1>2. ASSUME NEW o \in Object, Get(o) PROVE ObjectsInv'
    <2> DEFINE c == [heap.count EXCEPT ![o] = @ + 1]
               r == [count |-> c, kind |-> heap.kind, misuse |-> heap.misuse, members |-> heap.members]
    <2>1. heap' = r /\ held' = [held EXCEPT ![o] = @ + 1]
      BY <1>a, <1>2 DEF Get, json_object_get
    <2>2. /\ c \in [Object -> Int]
          /\ \A x \in Object : c[x] = IF x = o THEN heap.count[x] + 1 ELSE heap.count[x]
      BY <1>a
    <2> HIDE DEF c
    <2>3. r \in Heaps
      BY <1>a, <2>2, HeapMade
    <2>4. r.members = heap.members /\ r.misuse = heap.misuse /\ r.count = c
      OBVIOUS
    <2> HIDE DEF r
    <2>5. RefInv(r, [held EXCEPT ![o] = @ + 1])
      BY <1>0, <2>2, <2>3, <2>4, CountInv
    <2> QED BY <2>1, <2>5 DEF ObjectsInv
  <1>3. ASSUME NEW o \in Object, Put(o) PROVE ObjectsInv'
    <2>1. /\ held[o] > 0 /\ heap' = json_object_put(heap, o)
          /\ held' = [held EXCEPT ![o] = @ - 1]
      BY <1>3 DEF Put
    <2>2. RefInv(json_object_put(heap, o), [held EXCEPT ![o] = @ - 1])
      BY <1>0, <2>1, PutInv
    <2> QED BY <2>1, <2>2 DEF ObjectsInv
  <1>4. ASSUME NEW p \in Object, NEW v \in Object \cup {NoObject}, NEW k \in Field, ObjectAdd(p, k, v)
        PROVE  ObjectsInv'
    <2> DEFINE g == IF k \in DOMAIN heap.members[p] THEN json_object_put(heap, heap.members[p][k]) ELSE heap
               m == MemberSet(heap.members[p], k, v)
    <2>1. /\ p \in Alive(heap) /\ k \in Index
          /\ v # NoObject => held[v] > 0 /\ p \notin Reach(heap, {v})
          /\ held' = (IF v = NoObject THEN held ELSE [held EXCEPT ![v] = @ - 1])
          /\ heap' = [g EXCEPT !.members[p] = MemberSet(@, k, v)]
      BY <1>0, <1>4 DEF ObjectAdd, Hands, json_object_object_add, Index
    <2>2. /\ heap.members[p] \in [DOMAIN heap.members[p] -> Object \cup {NoObject}]
          /\ DOMAIN heap.members[p] \subseteq Index
      BY <1>a
    <2>3. /\ m \in [DOMAIN m -> Object \cup {NoObject}] /\ DOMAIN m \subseteq Index /\ k \in DOMAIN m /\ m[k] = v
          /\ \A x \in DOMAIN heap.members[p] : x \in DOMAIN m /\ (x # k => m[x] = heap.members[p][x])
          /\ \A x \in DOMAIN m \ {k} : x \in DOMAIN heap.members[p] \/ m[x] = NoObject
      BY <2>1, <2>2 DEF MemberSet
    <2> HIDE DEF g
    <2>4. g.members[p] = heap.members[p] /\ g \in Heaps
      <3>1. Writable(g, held, p, k) /\ g.members[p] = heap.members[p]
        BY <1>0, <2>1, ReplaceReleases DEF g
      <3> QED BY <3>1 DEF Writable
    <2>5. heap' = [g EXCEPT !.members[p] = m]
      BY <2>1, <2>4
    <2> HIDE DEF m
    <2>6. RefInv([g EXCEPT !.members[p] = m], held')
      BY <1>0, <2>1, <2>3, IntoInv DEF g
    <2> QED BY <2>5, <2>6 DEF ObjectsInv
  <1>5. ASSUME NEW p \in Object, NEW v \in Object \cup {NoObject}, NEW i \in 1 .. MaxIndex, ArrayPutIdx(p, i, v)
        PROVE  ObjectsInv'
    <2> DEFINE g == IF i \in DOMAIN heap.members[p] THEN json_object_put(heap, heap.members[p][i]) ELSE heap
               Grown(z) == [x \in DOMAIN z \cup 1 .. i |->
                              IF x = i THEN v ELSE IF x \in DOMAIN z THEN z[x] ELSE NoObject]
               m == Grown(heap.members[p])
    <2>1. /\ p \in Alive(heap) /\ i \in Index
          /\ v # NoObject => held[v] > 0 /\ p \notin Reach(heap, {v})
          /\ held' = (IF v = NoObject THEN held ELSE [held EXCEPT ![v] = @ - 1])
          /\ heap' = [g EXCEPT !.members[p] = Grown(@)]
      BY <1>0, <1>5 DEF ArrayPutIdx, Hands, json_object_array_put_idx, Index
    <2>2. /\ heap.members[p] \in [DOMAIN heap.members[p] -> Object \cup {NoObject}]
          /\ DOMAIN heap.members[p] \subseteq Index
      BY <1>a
    <2>3. 1 .. i \subseteq Index /\ i \in 1 .. i
      BY ObjectsAssumption DEF Index
    <2>4. /\ m \in [DOMAIN m -> Object \cup {NoObject}] /\ DOMAIN m \subseteq Index /\ i \in DOMAIN m /\ m[i] = v
          /\ \A x \in DOMAIN heap.members[p] : x \in DOMAIN m /\ (x # i => m[x] = heap.members[p][x])
          /\ \A x \in DOMAIN m \ {i} : x \in DOMAIN heap.members[p] \/ m[x] = NoObject
      BY <2>2, <2>3
    <2> HIDE DEF g
    <2>5. g.members[p] = heap.members[p] /\ g \in Heaps
      <3>1. Writable(g, held, p, i) /\ g.members[p] = heap.members[p]
        BY <1>0, <2>1, ReplaceReleases DEF g
      <3> QED BY <3>1 DEF Writable
    <2>6. heap' = [g EXCEPT !.members[p] = m]
      BY <2>1, <2>5
    <2> HIDE DEF m
    <2>7. RefInv([g EXCEPT !.members[p] = m], held')
      BY <1>0, <2>1, <2>4, IntoInv DEF g
    <2> QED BY <2>6, <2>7 DEF ObjectsInv
  <1>6. ASSUME NEW p \in Object, NEW k \in Field, ObjectDel(p, k) PROVE ObjectsInv'
    <2>1. /\ k \in DOMAIN heap.members[p] /\ heap' = json_object_object_del(heap, p, k)
          /\ held' = held
      BY <1>6 DEF ObjectDel
    <2>2. RefInv(json_object_object_del(heap, p, k), held)
      BY <1>0, <2>1, DelInv
    <2> QED BY <2>1, <2>2 DEF ObjectsInv
  <1>7. CASE UNCHANGED objVars
    BY <1>7 DEF ObjectsInv, objVars, RefInv
  <1> QED BY <1>1, <1>2, <1>3, <1>4, <1>5, <1>6, <1>7 DEF ObjNext

(* The counts are right and no object is inside itself, whatever a client does. *)
THEOREM ObjectsInvariant == ObjSpec => []ObjectsInv
  <1>1. ObjInit => ObjectsInv
    BY ObjectsInit
  <1>2. ObjectsInv /\ [ObjNext]_objVars => ObjectsInv'
    BY ObjectsNext
  <1> QED BY <1>1, <1>2, PTL DEF ObjSpec

(* json_object_get and json_object_put keep the count of every object at the references
   there are to it, so that what a client can still reach is exactly what lives. *)
THEOREM ReferencesAreCounted == ObjSpec => []ReferencesCounted
  <1>1. ObjectsInv => ReferencesCounted
    <2> SUFFICES ASSUME ObjectsInv PROVE ReferencesCounted
      OBVIOUS
    <2>1. ~heap.misuse /\ RefInv(heap, held) /\ Counted(heap, held, {})
      BY DEF ObjectsInv, RefInv
    <2>2. ASSUME NEW o \in Object
          PROVE  heap.count[o] = held[o] + Cardinality(
                   {e \in Alive(heap) \X Index :
                      e[2] \in DOMAIN heap.members[e[1]] /\ heap.members[e[1]][e[2]] = o})
      <3> DEFINE L == {e \in Alive(heap) \X Index :
                         e[2] \in DOMAIN heap.members[e[1]] /\ heap.members[e[1]][e[2]] = o}
      <3>1. Alive(heap) \X Index \subseteq Entry
        BY DEF Alive, Entry
      <3>2. ASSUME NEW e \in Entry, e[2] \in DOMAIN heap.members[e[1]] PROVE e \in Alive(heap) \X Index
        <4>1. e[1] \in Alive(heap)
          BY <2>1, <3>2, LinkedAlive
        <4> QED BY <4>1 DEF Entry
      <3>3. Links(heap, o, {}) = L
        BY <3>1, <3>2 DEF Links
      <3> HIDE DEF L
      <3>4. heap.count[o] = held[o] + Cardinality(L)
        BY <2>1, <3>3 DEF Counted
      <3> QED BY <3>4 DEF L
    <2>3. Known = Alive(heap)
      BY <2>1, KnownAlive DEF Known
    <2> QED BY <2>1, <2>2, <2>3 DEF ReferencesCounted
  <1> QED BY <1>1, ObjectsInvariant, PTL
=============================================================================
