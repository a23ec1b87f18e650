-------------------------------- MODULE Heap --------------------------------
(* base/heap.c: a binary heap in an array that grows by HEAPINCREMENT; AD.h    *)
(* makes a priority queue of it, whose delete is hp_delete of element 0.       *)
(* A call is one action; _siftup and _siftdown are repeated steps.             *)
EXTENDS Integers, Iteration

CONSTANTS Value,          \* the data, compared as numbers
          HEAPINCREMENT,
          MaxElements     \* bound on the elements

ASSUME HeapAssumption ==
    Value \subseteq Int /\ HEAPINCREMENT \in Nat \ {0} /\ MaxElements \in Nat

VARIABLES array,        \* the elements in use, from 0 on
          nextelement,  \* their number
          heapsize,     \* the elements allocated
          sideways      \* history: an element was deleted that was not above the last one

heapVars == <<array, nextelement, heapsize, sideways>>

hp_init == /\ array = [i \in {} |-> 0] /\ nextelement = 0
           /\ heapsize = HEAPINCREMENT /\ sideways = FALSE

Parent(i) == (i - 1) \div 2

\* What one call of a sift passes to the next: the array of n elements, and the
\* element that moves.
Sifting(n) == [a : [0 .. n - 1 -> Value], at : 0 .. n - 1]
Swapped(s, i) == [a |-> [s.a EXCEPT ![s.at] = s.a[i], ![i] = s.a[s.at]], at |-> i]

InPlace(s) == s.at = 0 \/ s.a[s.at] <= s.a[Parent(s.at)]
Up(n) == [s \in Sifting(n) |-> IF InPlace(s) THEN s ELSE Swapped(s, Parent(s.at))]
siftup(a, n, element) == Iterated(Up(n), [a |-> a, at |-> element], element).a

\* Mutant: the smaller child goes up.
BiggerChildSwapped(a, n, left) ==
    IF left + 1 < n /\ a[left] > a[left + 1] THEN left + 1 ELSE left

BiggerChild(a, n, left) ==
    IF left + 1 < n /\ a[left] <= a[left + 1] THEN left + 1 ELSE left

\* The child an element goes down to, itself when it stays.
Below(s, n) ==
    LET left == 2 * s.at + 1
        child == BiggerChild(s.a, n, left)
    IN IF left >= n THEN s.at ELSE IF s.a[s.at] >= s.a[child] THEN s.at ELSE child
Down(n) == [s \in Sifting(n) |-> IF Below(s, n) = s.at THEN s ELSE Swapped(s, Below(s, n))]
siftdown(a, n, parent) == Iterated(Down(n), [a |-> a, at |-> parent], n).a

hp_add(newdata) ==
    /\ nextelement < MaxElements
    /\ heapsize' = IF nextelement = heapsize THEN heapsize + HEAPINCREMENT ELSE heapsize
    /\ nextelement' = nextelement + 1
    /\ array' = siftup([i \in 0 .. nextelement |-> IF i = nextelement THEN newdata ELSE array[i]],
                       nextelement', nextelement)
    /\ UNCHANGED sideways

\* Whether element i is j or one of the elements above it.
Above(i, j) ==
    \A S \in SUBSET (0 .. j) : j \in S /\ (\A x \in S \ {0} : Parent(x) \in S) => i \in S

\* The last element takes the place of the deleted one and goes down; it never
\* goes up, which it would have to when it comes from another branch.
hp_delete(element) ==
    LET last == nextelement - 1
        rest == [i \in 0 .. last - 1 |-> array[i]]
    IN /\ element < nextelement
       /\ nextelement' = last
       /\ array' = IF element = last THEN rest
                   ELSE siftdown([rest EXCEPT ![element] = array[last]], last, element)
       /\ sideways' = (sideways \/ ~Above(element, last))
       /\ UNCHANGED heapsize

HeapNext == (\E v \in Value : hp_add(v)) \/ (\E i \in 0 .. MaxElements - 1 : hp_delete(i))

HeapSpec == hp_init /\ [][HeapNext]_heapVars

\* "the value of the node at the root of any subtree is greater than or equal to
\* the value of either of its children" (heap.c:26), whatever was added and deleted,
\* as long as a deletion took the place of an element above the last one, which a
\* priority queue's always does; the array never outgrows its allocation.
HeapOrder ==
    /\ nextelement <= heapsize
    /\ ~sideways => \A i \in 1 .. nextelement - 1 : array[i] <= array[Parent(i)]
=============================================================================
