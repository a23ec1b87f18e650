------------------------------- MODULE Deques -------------------------------
(* What the users of base/linklist.c and base/deque.c rely on: some lists,     *)
(* each a sequence of data from head to tail.                                  *)
EXTENDS Integers, Sequences, SequencesExt

CONSTANTS List, Datum

VARIABLE seq

\* The position of the first element equal to d, for d in s.
Where(s, d) == CHOOSE i \in 1 .. Len(s) : s[i] = d /\ \A j \in 1 .. i - 1 : s[j] # d

Init == seq = [l \in List |-> << >>]

Becomes(l, s) == seq' = [seq EXCEPT ![l] = s]

Append1(l, d) == Becomes(l, Append(seq[l], d))
Prepend1(l, d) == Becomes(l, <<d>> \o seq[l])
Delete(l, d) == Contains(seq[l], d) /\ Becomes(l, RemoveAt(seq[l], Where(seq[l], d)))
ToFront(l, d) == Contains(seq[l], d) /\ Becomes(l, <<d>> \o RemoveAt(seq[l], Where(seq[l], d)))
Pop(l) == seq[l] # << >> /\ Becomes(l, Tail(seq[l]))
Eject(l) == seq[l] # << >> /\ Becomes(l, Front(seq[l]))
Turn(l) == Becomes(l, Reverse(seq[l]))
Clear(l) == Becomes(l, << >>)
Merge(d, s) == d # s /\ seq' = [seq EXCEPT ![d] = @ \o seq[s], ![s] = << >>]

Next == \/ \E l \in List : \/ Pop(l) \/ Eject(l) \/ Turn(l) \/ Clear(l)
                           \/ \E s \in List : Merge(l, s)
                           \/ \E d \in Datum : Append1(l, d) \/ Prepend1(l, d) \/ Delete(l, d) \/ ToFront(l, d)

Spec == Init /\ [][Next]_seq
=============================================================================
