------------------------------- MODULE DList -------------------------------
(* base/dlist.c: circular doubly linked lists.  A list is a pointer to one of  *)
(* its nodes that the caller keeps, and replaces by what each call returns.    *)
(* Node is the pool of nodes the chunk can give out.                           *)
EXTENDS Integers, FiniteSets

CONSTANTS Node, NULL, Datum

ASSUME NodeAssumption == NULL \notin Node

VARIABLES dlist,       \* the caller's pointer
          next, prev,  \* the links of the nodes in use
          data,
          dangling     \* the node of dlist was freed: the list is lost to the caller

dlistVars == <<dlist, next, prev, data, dangling>>

Used == DOMAIN data
Extend(f, n, x) == [m \in DOMAIN f \cup {n} |-> IF m = n THEN x ELSE f[m]]

Nothing == [n \in {} |-> n]

dl_init == /\ dlist = NULL /\ dangling = FALSE
           /\ next = Nothing /\ prev = Nothing /\ data = Nothing

\* Mutant: the old last node still leads to the first one.
LinkBeforeOneWay(n, d) ==
    /\ data' = Extend(data, n, d)
    /\ next' = Extend(next, n, IF dlist = NULL THEN n ELSE dlist)
    /\ prev' = IF dlist = NULL THEN Extend(prev, n, n)
               ELSE [Extend(prev, n, prev[dlist]) EXCEPT ![dlist] = n]

\* The new node comes before the node of dlist, which makes it the last one.
LinkBefore(n, d) ==
    /\ data' = Extend(data, n, d)
    /\ next' = IF dlist = NULL THEN Extend(next, n, n)
               ELSE [Extend(next, n, dlist) EXCEPT ![prev[dlist]] = n]
    /\ prev' = IF dlist = NULL THEN Extend(prev, n, n)
               ELSE [Extend(prev, n, prev[dlist]) EXCEPT ![dlist] = n]

\* dl_prepend returns the old first node, so it appends ...
dl_prepend(n, d) == /\ ~dangling /\ n \notin Used /\ LinkBefore(n, d)
                    /\ dlist' = IF dlist = NULL THEN n ELSE dlist
                    /\ UNCHANGED dangling

\* ... and dl_append, which returns the node before that, prepends.
dl_append(n, d) == /\ ~dangling /\ n \notin Used /\ LinkBefore(n, d)
                   /\ dlist' = n
                   /\ UNCHANGED dangling

\* The nodes that a walk from dlist along next comes to, if it ends at those of stops.
Reached(stops) ==
    {n \in Used : \A S \in SUBSET Used :
        dlist \in S /\ (\A m \in S \ stops : next[m] \in S) => n \in S}
Holding(d) == {n \in Used : data[n] = d}
FirstWith(d) == Reached(Holding(d)) \cap Holding(d)

Drop(f, n) == [m \in DOMAIN f \ {n} |-> f[m]]

\* The first node from dlist on with these data is unlinked and freed.  dlist
\* is returned also when it is that node; NULL, which the caller does not keep,
\* when there is none.  An empty list is read through NULL.
dl_delete(d) ==
    /\ ~dangling /\ dlist # NULL
    /\ \E n \in FirstWith(d) :
          /\ dangling' = (n = dlist)
          /\ next' = Drop([next EXCEPT ![prev[n]] = next[n]], n)
          /\ prev' = Drop([prev EXCEPT ![next[n]] = prev[n]], n)
          /\ data' = Drop(data, n)
    /\ UNCHANGED dlist

\* Every node of the ring goes back to the chunk; the caller starts again.
dl_free == /\ ~dangling /\ dlist # NULL /\ dlist' = NULL
           /\ next' = Nothing /\ prev' = Nothing /\ data' = Nothing /\ UNCHANGED dangling

DListNext == \/ dl_free
             \/ \E d \in Datum : \/ dl_delete(d)
                                 \/ \E n \in Node : dl_prepend(n, d) \/ dl_append(n, d)

DListSpec == dl_init /\ [][DListNext]_dlistVars

\* The nodes in use form one ring in both directions, which the caller's pointer
\* leads to unless the node it names was deleted (dlist.c:71 returns it all the same).
RingIntact ==
    /\ \A n \in Used : next[n] \in Used /\ prev[n] \in Used /\ prev[next[n]] = n
    /\ dlist # NULL /\ ~dangling => dlist \in Used /\ Reached({}) = Used
=============================================================================
