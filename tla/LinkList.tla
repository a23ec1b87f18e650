------------------------------ MODULE LinkList ------------------------------
(* base/linklist.c and base/deque.c: circular singly linked lists, reached by  *)
(* their tails, whose nodes are atoms of one memory chunk (base/memchunk.c).   *)
(* The telemetry keeps its sources in one.                                     *)
(*                                                                             *)
(* A call is one action.  Every change is made under the mutex of its list,    *)
(* and a call on a list whose mutex was left locked does not return: it is not *)
(* enabled here.                                                               *)
EXTENDS MemChunk

CONSTANTS List, Element,
          MaxLength   \* bound on the nodes in use

VARIABLES tail,       \* the tail of each list, NoNode when it is empty
          listNext,   \* the next node of each node in use
          listData,
          locked,     \* the lists whose mutex is held between calls
          nodeChunk   \* the chunk of all nodes

listVars == <<tail, listNext, listData, locked, nodeChunk>>

NoNode == <<NoArea, 0>>
Live == DOMAIN listNext
head(l) == listNext[tail[l]]
empty(l) == tail[l] = NoNode

\* The steps from the node t around its ring, and the nodes on the way.
Around(f, t) ==
    CHOOSE k \in 1 .. Cardinality(DOMAIN f) :
        Iterated(f, t, k) = t /\ \A j \in 1 .. k - 1 : Iterated(f, t, j) # t
RingFrom(f, t) == IF t = NoNode THEN << >> ELSE [i \in 1 .. Around(f, t) |-> Iterated(f, t, i)]

\* The nodes of a list from its head to its tail.
NodesOf(l) == RingFrom(listNext, tail[l])
ll_count(l) == Len(NodesOf(l))

\* ll_find, ll_delete and ll_find_adj look from the head on for equal data.
Match(l, d) == SelectInSeq(NodesOf(l), LAMBDA n : listData[n] = d)
Previous(l, n) == CHOOSE p \in ToSet(NodesOf(l)) : listNext[p] = n

ListInit == /\ tail = [l \in List |-> NoNode] /\ listNext = [n \in {} |-> n] /\ listData = [n \in {} |-> n]
            /\ locked = {} /\ nodeChunk = mc_init

\* _allocate: the function of pointers with one node more.
With(f, n, x) == [m \in DOMAIN f \cup {n} |-> IF m = n THEN x ELSE f[m]]
Unlinking(f, N) == [m \in DOMAIN f \ N |-> f[m]]

\* _add: the new node comes after the tail, and an append makes it the tail.
add(l, d, append) ==
    LET r == mc_alloc(nodeChunk)
        n == r.mem
    IN /\ l \notin locked /\ Cardinality(Live) < MaxLength /\ ~Exhausted(nodeChunk)
       /\ nodeChunk' = r.c
       /\ listData' = With(listData, n, d)
       /\ listNext' = IF empty(l) THEN With(listNext, n, n) ELSE [With(listNext, n, head(l)) EXCEPT ![tail[l]] = n]
       /\ tail' = IF empty(l) \/ append THEN [tail EXCEPT ![l] = n] ELSE tail
       /\ UNCHANGED locked

ll_prepend(l, d) == add(l, d, FALSE)
ll_append(l, d) == add(l, d, TRUE)

\* The node found moves to the head; for the tail it is enough to turn the ring.
ll_find_adj(l, d) ==
    /\ l \notin locked /\ Match(l, d) > 1
    /\ LET n == NodesOf(l)[Match(l, d)]
           p == Previous(l, n)
       IN IF n = tail[l] THEN tail' = [tail EXCEPT ![l] = p] /\ UNCHANGED listNext
          ELSE /\ listNext' = [listNext EXCEPT ![p] = listNext[n], ![n] = head(l), ![tail[l]] = n]
               /\ UNCHANGED tail
    /\ UNCHANGED <<listData, locked, nodeChunk>>

\* Mutant: the list keeps the tail it had when the last node of several is deleted.
UnlinkedKeepsTail(l, n) ==
    LET p == Previous(l, n)
    IN /\ l \notin locked /\ n # p /\ n = tail[l]
       /\ tail' = [tail EXCEPT ![l] = head(l)]
       /\ listNext' = Unlinking([listNext EXCEPT ![p] = listNext[n]], {n})
       /\ listData' = Unlinking(listData, {n})
       /\ nodeChunk' = mc_free_atom(nodeChunk, n)
       /\ UNCHANGED locked

\* A node leaves the ring, and its atom goes back to the chunk.
Unlinked(l, n) ==
    LET p == Previous(l, n)
    IN /\ l \notin locked
       /\ tail' = IF p = n THEN [tail EXCEPT ![l] = NoNode]
                  ELSE IF n = tail[l] THEN [tail EXCEPT ![l] = p] ELSE tail
       /\ listNext' = Unlinking([listNext EXCEPT ![p] = listNext[n]], {n})
       /\ listData' = Unlinking(listData, {n})
       /\ nodeChunk' = mc_free_atom(nodeChunk, n)
       /\ UNCHANGED locked

ll_delete(l, d) == Match(l, d) > 0 /\ Unlinked(l, NodesOf(l)[Match(l, d)])
ll_delete_head(l) == ~empty(l) /\ Unlinked(l, head(l))  \* dq_pop
ll_delete_tail(l) == ~empty(l) /\ Unlinked(l, tail[l])  \* dq_eject

\* The nodes of a list go back to the chunk one by one.
Freeing == [c : Chunk, due : Seq(Atom)]
FreeFirst == [s \in Freeing |-> [c |-> mc_free_atom(s.c, Head(s.due)), due |-> Tail(s.due)]]
FreeAll(c, ns) == Iterated(FreeFirst, [c |-> c, due |-> ns], Len(ns)).c

\* ll_free, and ll_init for the next user of the name.
ll_free(l) ==
    /\ l \notin locked
    /\ nodeChunk' = FreeAll(nodeChunk, NodesOf(l))
    /\ listNext' = Unlinking(listNext, ToSet(NodesOf(l))) /\ listData' = Unlinking(listData, ToSet(NodesOf(l)))
    /\ tail' = [tail EXCEPT ![l] = NoNode]
    /\ UNCHANGED locked

\* Both mutexes stay locked when the destination is empty.
ll_merge(d, s) ==
    /\ d # s /\ ~empty(s) /\ {d, s} \cap locked = {}
    /\ tail' = [tail EXCEPT ![d] = tail[s], ![s] = NoNode]
    /\ listNext' = IF empty(d) THEN listNext ELSE [listNext EXCEPT ![tail[d]] = head(s), ![tail[s]] = head(d)]
    /\ locked' = IF empty(d) THEN locked \cup {d, s} ELSE locked
    /\ UNCHANGED <<listData, nodeChunk>>

ll_reverse(l) ==
    /\ ~empty(l) /\ l \notin locked
    /\ listNext' = [n \in Live |-> IF n \in ToSet(NodesOf(l)) THEN Previous(l, n) ELSE listNext[n]]
    /\ tail' = [tail EXCEPT ![l] = head(l)]
    /\ UNCHANGED <<listData, locked, nodeChunk>>

\* mc_clean has no caller; it is what the chunk's owner may do at any time.
Clean == nodeChunk' = mc_clean(nodeChunk) /\ UNCHANGED <<tail, listNext, listData, locked>>

ListNext ==
    \/ Clean
    \/ \E l \in List :
          \/ ll_delete_head(l) \/ ll_delete_tail(l) \/ ll_free(l) \/ ll_reverse(l)
          \/ \E s \in List : ll_merge(l, s)
          \/ \E d \in Element : ll_prepend(l, d) \/ ll_append(l, d) \/ ll_find_adj(l, d) \/ ll_delete(l, d)

ListSpec == ListInit /\ [][ListNext]_listVars

-----------------------------------------------------------------------------
\* The data of a list from its head to its tail.
Elements(l) == LET n == NodesOf(l) IN [i \in DOMAIN n |-> listData[n[i]]]

\* Every operation does to the lists what it does to sequences (linklist.c, deque.c).
AsSequences == INSTANCE Deques WITH seq <- [l \in List |-> Elements(l)], Datum <- Element
ListsAreSequences == AsSequences!Spec

\* No atom is used twice or lost, whatever is freed, cleaned and reused: the nodes in
\* use and the atoms on the free list account for every area (memchunk.c).
ChunkAccounts == Accounts(nodeChunk, Live)
=============================================================================
