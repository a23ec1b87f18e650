------------------------------ MODULE LinkHash ------------------------------
(* json-c/linkhash.c with json_object_iterator.c: the table behind a JSON      *)
(* object.  Entries live in slots found by linear probing and form a list in   *)
(* the order of their insertion; a slot is named by its number, and a resize   *)
(* moves all entries to a new array.  A call of json_object.c is one action.   *)
EXTENDS Integers, Sequences, Iteration

CONSTANTS FieldName,  \* the keys
          Val,        \* what they are bound to
          hash_fn,    \* the hash of each key, a natural number
          EMPTY, FREED,
          NoEntry,    \* NULL
          InitialSize,
          MaxSize     \* bound on the size of the table

\* A table of three slots always has one left when it is not full (66 %); the code
\* starts with JSON_OBJECT_DEF_HASH_ENTRIES, which is 16.
ASSUME HashAssumption ==
    /\ hash_fn \in [FieldName -> Nat]
    /\ EMPTY \notin FieldName /\ FREED \notin FieldName /\ EMPTY # FREED
    /\ NoEntry \notin Nat
    /\ InitialSize \in Nat /\ InitialSize >= 3

VARIABLES table,      \* struct lh_table
          iter,       \* the slot an iterator is at, NoEntry at the end
          iterState,  \* "none", "valid", "cut" (its entry was deleted), "dangling" (resized)
          order,      \* history: the keys in the order of their insertion
          due         \* history: the keys the iterator has still to come to

hashVars == <<table, iter, iterState, order, due>>

Slot(size) == 0 .. size - 1
Link(size) == Slot(size) \cup {NoEntry}
HashTable(size) ==
    [size : {size}, count : Nat, head : Link(size), tail : Link(size),
     k : [Slot(size) -> FieldName \cup {EMPTY, FREED}], v : [Slot(size) -> Val \cup {NoEntry}],
     next : [Slot(size) -> Link(size)], prev : [Slot(size) -> Link(size)]]

lh_table_new(size) ==
    [size |-> size, count |-> 0, head |-> NoEntry, tail |-> NoEntry,
     k |-> [n \in 0 .. size - 1 |-> EMPTY], v |-> [n \in 0 .. size - 1 |-> NoEntry],
     next |-> [n \in 0 .. size - 1 |-> NoEntry], prev |-> [n \in 0 .. size - 1 |-> NoEntry]]

HashInit == /\ table = lh_table_new(InitialSize) /\ order = << >>
            /\ iter = NoEntry /\ iterState = "none" /\ due = << >>

\* The slot that is probed after i others for key k, and the first one that holds
\* one of the keys.
Probe(tb, k, i) == (hash_fn[k] + i) % tb.size
Hits(tb, k, keys) == {i \in Slot(tb.size) : tb.k[Probe(tb, k, i)] \in keys}
FirstSlot(tb, k, keys) ==
    LET hits == Hits(tb, k, keys)
    IN IF hits = {} THEN NoEntry ELSE Probe(tb, k, CHOOSE i \in hits : \A j \in hits : i <= j)

\* Mutant: an entry that was deleted ends the search.
LookupStopsAtFreed(tb, k) ==
    LET n == FirstSlot(tb, k, {k, EMPTY, FREED})
    IN IF n = NoEntry \/ tb.k[n] # k THEN NoEntry ELSE n

lh_table_lookup_entry(tb, k) ==
    LET n == FirstSlot(tb, k, {k, EMPTY})
    IN IF n = NoEntry \/ tb.k[n] # k THEN NoEntry ELSE n

\* The new entry takes the first slot that is empty or freed, and is the last.
Insert(tb, k, v) ==
    LET n == FirstSlot(tb, k, {EMPTY, FREED})
    IN [tb EXCEPT !.k[n] = k, !.v[n] = v, !.count = @ + 1, !.tail = n,
                  !.head = IF @ = NoEntry THEN n ELSE @,
                  !.prev[n] = tb.tail,
                  !.next = [m \in 0 .. tb.size - 1 |-> IF m = n THEN NoEntry ELSE IF m = tb.tail THEN n ELSE @[m]]]

\* The slots that a walk along a link comes to from slot n on.
Onward(tb, link) == [m \in Link(tb.size) |-> IF m = NoEntry THEN m ELSE link[m]]
Walk(tb, link, n) ==
    LET At(i) == Iterated(Onward(tb, link), n, i - 1)
    IN [i \in {j \in 1 .. tb.size : At(j) # NoEntry} |-> At(i)]
Forward(tb) == Walk(tb, tb.next, tb.head)
Backward(tb) == Walk(tb, tb.prev, tb.tail)
KeysAt(tb, slots) == [i \in DOMAIN slots |-> tb.k[slots[i]]]

\* Entry by entry into a new table.
Moved(tb, size) ==
    [s \in [to : HashTable(size), at : Link(tb.size)] |->
        IF s.at = NoEntry THEN s
        ELSE [to |-> Insert(s.to, tb.k[s.at], tb.v[s.at]), at |-> tb.next[s.at]]]
lh_table_resize(tb, size) ==
    Iterated(Moved(tb, size), [to |-> lh_table_new(size), at |-> tb.head], tb.size).to

Full(tb) == 100 * tb.count >= 66 * tb.size  \* LH_LOAD_FACTOR

\* Mutant: the entry before the deleted one still leads to it.
DeleteHalfLinked(tb, n) ==
    [tb EXCEPT !.k[n] = FREED, !.v[n] = NoEntry, !.count = @ - 1,
               !.head = IF @ = n THEN tb.next[n] ELSE @, !.tail = IF @ = n THEN tb.prev[n] ELSE @,
               !.prev = [m \in 0 .. tb.size - 1 |-> IF m = n THEN NoEntry ELSE IF m = tb.next[n] THEN tb.prev[n] ELSE @[m]]]

lh_table_delete_entry(tb, n) ==
    [tb EXCEPT !.k[n] = FREED, !.v[n] = NoEntry, !.count = @ - 1,
               !.head = IF @ = n THEN tb.next[n] ELSE @, !.tail = IF @ = n THEN tb.prev[n] ELSE @,
               !.next = [m \in 0 .. tb.size - 1 |-> IF m = n THEN NoEntry ELSE IF m = tb.prev[n] THEN tb.next[n] ELSE @[m]],
               !.prev = [m \in 0 .. tb.size - 1 |-> IF m = n THEN NoEntry ELSE IF m = tb.next[n] THEN tb.prev[n] ELSE @[m]]]

-----------------------------------------------------------------------------
\* json_object_object_add: the value of a known key is replaced, a new key is
\* inserted, after a resize when the table is full; the old array is freed.
Replace(k, v) ==
    LET n == lh_table_lookup_entry(table, k)
    IN /\ n # NoEntry
       /\ table' = [table EXCEPT !.v[n] = v]
       /\ UNCHANGED <<iter, iterState, order, due>>

InsertNew(k, v) ==
    /\ lh_table_lookup_entry(table, k) = NoEntry
    /\ Full(table) => 2 * table.size <= MaxSize
    /\ table' = Insert(IF Full(table) THEN lh_table_resize(table, 2 * table.size) ELSE table, k, v)
    /\ order' = Append(order, k)
    /\ iterState' = IF Full(table) /\ iter # NoEntry THEN "dangling" ELSE iterState
    /\ due' = IF iter # NoEntry THEN Append(due, k) ELSE due
    /\ UNCHANGED iter

Holds(s, k) == \E i \in 1 .. Len(s) : s[i] = k
Without(s, k) ==
    IF ~Holds(s, k) THEN s
    ELSE LET at == CHOOSE i \in 1 .. Len(s) : s[i] = k
         IN [i \in 1 .. Len(s) - 1 |-> IF i < at THEN s[i] ELSE s[i + 1]]

\* lh_table_delete: an iterator at the entry goes on from its cleared link.
Delete(k) ==
    LET n == lh_table_lookup_entry(table, k)
    IN /\ n # NoEntry
       /\ table' = lh_table_delete_entry(table, n)
       /\ order' = Without(order, k)
       /\ due' = Without(due, k)
       /\ iterState' = IF iterState = "valid" /\ iter = n THEN "cut" ELSE iterState
       /\ UNCHANGED iter

\* json_object_iter_begin; foreachC sets its entry the same way.
iter_begin == /\ iter' = table.head /\ iterState' = "valid" /\ due' = order
              /\ UNCHANGED <<table, order>>

\* The key at the iterator is used, then it moves on.  After its entry was
\* deleted it is at the end, or wherever the slot's next user is linked to.
iter_next ==
    /\ iter # NoEntry /\ iterState \in {"valid", "cut"}
    /\ iter' = table.next[iter]
    /\ due' = IF iterState = "valid" THEN Tail(due) ELSE due
    /\ UNCHANGED <<table, iterState, order>>

HashNext == \/ iter_begin \/ iter_next
            \/ \E k \in FieldName : Delete(k) \/ \E v \in Val : Replace(k, v) \/ InsertNew(k, v)

HashSpec == HashInit /\ [][HashNext]_hashVars

\* Whatever was inserted, replaced and deleted, and however the slots collided: the
\* list in both directions gives the keys in the order of their insertion (the order
\* a JSON object is written in), each key is found exactly when it is there, and a
\* slot is always left so that a probe ends.
OrderKept ==
    /\ KeysAt(table, Forward(table)) = order
    /\ Backward(table) = [i \in 1 .. Len(order) |-> Forward(table)[Len(order) + 1 - i]]
    /\ \A k \in FieldName : (lh_table_lookup_entry(table, k) # NoEntry) <=> Holds(order, k)
    /\ table.count = Len(order) /\ table.count < table.size

\* An iterator whose entry is in place has still to come to exactly the entries from
\* its own on, also those added or deleted behind its back; one that has come to the
\* end without its entry having been deleted has seen them all.
IteratorSeesAll ==
    iterState = "valid" => KeysAt(table, Walk(table, table.next, iter)) = due
=============================================================================
