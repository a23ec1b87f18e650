----------------------------- MODULE OrderedMap -----------------------------
(* What the users of base/avltree.c rely on: a finite map from keys to data    *)
(* with one currency, the key that the last search or step arrived at.  The    *)
(* currency may be Nil (none) or Freed (a node that no longer exists).  With   *)
(* KeysStay, as in every tree of the server, a removal may take the data alone *)
(* away: the key stays, with the data of the key before it, which goes.        *)
EXTENDS Integers, FiniteSets

CONSTANTS Key, Datum, Nil, Freed, Cmp(_, _), KeysStay

VARIABLES map, currency

vars == <<map, currency>>

Before(a, b) == Cmp(a, b) < 0
Following(k) == {x \in DOMAIN map : Before(k, x)}
Preceding(k) == {x \in DOMAIN map : Before(x, k)}

\* The first and the last key of a set, Nil when it is empty.
FirstOf(S) == IF S = {} THEN Nil ELSE CHOOSE x \in S : \A y \in S : ~Before(y, x)
LastOf(S) == IF S = {} THEN Nil ELSE CHOOSE x \in S : \A y \in S : ~Before(x, y)
Found(k) == IF k \in DOMAIN map THEN k ELSE Nil

Init == map = [k \in {} |-> Nil] /\ currency = Nil

Insert(k) == /\ currency' = k /\ k \notin DOMAIN map
             /\ \E d \in Datum : map' = [x \in DOMAIN map \cup {k} |-> IF x = k THEN d ELSE map[x]]

Find(k) == currency' = Found(k) /\ UNCHANGED map
First == currency' = FirstOf(DOMAIN map) /\ UNCHANGED map
Last == currency' = LastOf(DOMAIN map) /\ UNCHANGED map
Next(k) == currency' = FirstOf(Following(k)) /\ UNCHANGED map
Prev(k) == currency' = LastOf(Preceding(k)) /\ UNCHANGED map
Clear == currency' = Nil /\ UNCHANGED map

Update(k) == /\ currency' = Found(k)
             /\ \E d \in Datum : map' = [x \in DOMAIN map |-> IF x = k THEN d ELSE map[x]]

\* After a removal there is no currency, or it was elsewhere, or it is lost.
Remove(k) == /\ k \in DOMAIN map
             /\ map' = [x \in DOMAIN map \ {k} |-> map[x]]
             /\ currency' \in {Nil, Freed, currency} \ {k}

\* A removal between others that takes the neighbour's key.
Displace(k) == /\ KeysStay /\ k \in DOMAIN map /\ Preceding(k) # {} /\ Following(k) # {}
               /\ \E p \in Preceding(k) :
                     /\ \A x \in Preceding(k) \ {p} : Before(x, p)
                     /\ map' = [x \in DOMAIN map \ {p} |-> IF x = k THEN map[p] ELSE map[x]]
               /\ currency' = Freed

Close == Init'

Step == \/ First \/ Last \/ Clear \/ Close
        \/ \E k \in Key : Insert(k) \/ Find(k) \/ Update(k) \/ Remove(k) \/ Displace(k)
        \/ \E k \in DOMAIN map : Next(k) \/ Prev(k)

Spec == Init /\ [][Step]_vars
=============================================================================
