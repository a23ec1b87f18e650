---------------------------- MODULE JsonObjects ----------------------------
(* The reference counts of json-c/json_object.c.  The heap is one value that   *)
(* the calls transform; an object is a number, with the members of an object   *)
(* or an array, and is free while its count is 0.  The client is any caller    *)
(* that keeps to json_object.h: it owns what it creates, object_add and        *)
(* array_put_idx take its reference over, and what a getter returns is lent.   *)
EXTENDS Integers, FiniteSets, Iteration

CONSTANTS Object,       \* the numbers of objects
          NoObject,     \* the NULL pointer, also the JSON null
          Field,        \* the names of fields
          MaxIndex,     \* bound on the indices of an array
          MaxHeld       \* bound on the references a client holds on an object

ASSUME ObjectsAssumption == /\ IsFiniteSet(Object) /\ NoObject \notin Object
                            /\ IsFiniteSet(Field) /\ MaxIndex \in Nat

VARIABLES heap,     \* count, kind and members of each object, and whether a freed one was released
          held      \* the references of the client

objVars == <<heap, held>>

Kind == {"string", "object", "array"}
Index == Field \cup 1 .. MaxIndex
Entry == Object \X Index

Heaps == [count : [Object -> Int], kind : [Object -> Kind], misuse : BOOLEAN,
          members : [Object -> UNION {[S -> Object \cup {NoObject}] : S \in SUBSET Index}]]

NoMembers == [k \in {} |-> NoObject]
EmptyHeap == [count |-> [o \in Object |-> 0], kind |-> [o \in Object |-> "string"],
              members |-> [o \in Object |-> NoMembers], misuse |-> FALSE]

Alive(h) == {o \in Object : h.count[o] > 0}
Members(h, o) == {h.members[o][k] : k \in DOMAIN h.members[o]} \ {NoObject}

\* One reference less.
Dropped(h, o) ==
    IF o = NoObject THEN h
    ELSE IF h.count[o] = 0 THEN [h EXCEPT !.misuse = TRUE]
    ELSE LET g == [h EXCEPT !.count[o] = @ - 1]
         IN IF g.count[o] = 0 THEN [g EXCEPT !.kind[o] = "string"] ELSE g

\* lh_table_free and array_list_free release the members of a deleted object one by
\* one; the order makes no difference.
Orphans(h) == {e \in Entry : h.count[e[1]] = 0 /\ e[2] \in DOMAIN h.members[e[1]]}
MemberCut(members, k) == [x \in DOMAIN members \ {k} |-> members[x]]
EntryCut(h, e) == [h EXCEPT !.members[e[1]] = MemberCut(@, e[2])]
ReleaseMember == [h \in Heaps |->
    LET e == CHOOSE x \in Orphans(h) : TRUE
    IN IF Orphans(h) = {} THEN h ELSE Dropped(EntryCut(h, e), h.members[e[1]][e[2]])]

\* json_object_put: the last reference deletes the object, and releases its members,
\* which may delete them in turn.
json_object_put(h, o) == Iterated(ReleaseMember, Dropped(h, o), Cardinality(Entry))

json_object_get(h, o) == [h EXCEPT !.count[o] = @ + 1]

json_object_new(h, o, kind) == [h EXCEPT !.count[o] = 1, !.kind[o] = kind]

MemberSet(members, k, v) == [x \in DOMAIN members \cup {k} |-> IF x = k THEN v ELSE members[x]]

\* Mutant: the value that is replaced is forgotten.
AddForgetsOld(h, p, k, v) == [h EXCEPT !.members[p] = MemberSet(@, k, v)]

\* json_object_object_add: the value a known field had is released first.
json_object_object_add(h, p, k, v) ==
    LET g == IF k \in DOMAIN h.members[p] THEN json_object_put(h, h.members[p][k]) ELSE h
    IN [g EXCEPT !.members[p] = MemberSet(@, k, v)]

\* lh_table_delete frees the entry, and with it the reference.
json_object_object_del(h, p, k) ==
    json_object_put(EntryCut(h, <<p, k>>), h.members[p][k])

\* array_list_put_idx: the array grows to the index, with NULL in between.
json_object_array_put_idx(h, p, i, v) ==
    LET g == IF i \in DOMAIN h.members[p] THEN json_object_put(h, h.members[p][i]) ELSE h
    IN [g EXCEPT !.members[p] = [x \in DOMAIN @ \cup 1 .. i |->
                                   IF x = i THEN v ELSE IF x \in DOMAIN @ THEN @[x] ELSE NoObject]]

-----------------------------------------------------------------------------
ObjInit == heap = EmptyHeap /\ held = [o \in Object |-> 0]

Closed(h, S) == \A o \in S : Members(h, o) \subseteq S
Reach(h, set) == {o \in Object : \A S \in SUBSET Object : set \subseteq S /\ Closed(h, S) => o \in S}
Known == Reach(heap, {o \in Object : held[o] > 0})

New(kind) == LET o == CHOOSE x \in Object \ Alive(heap) : TRUE
             IN /\ Alive(heap) # Object
                /\ heap' = json_object_new(heap, o, kind) /\ held' = [held EXCEPT ![o] = 1]
Get(o) == /\ o \in Known /\ held[o] < MaxHeld
          /\ heap' = json_object_get(heap, o) /\ held' = [held EXCEPT ![o] = @ + 1]
Put(o) == /\ held[o] > 0
          /\ heap' = json_object_put(heap, o) /\ held' = [held EXCEPT ![o] = @ - 1]

\* A reference that is handed over; a container is not put into itself.
Hands(p, v) == /\ p \in Known
               /\ v # NoObject => held[v] > 0 /\ p \notin Reach(heap, {v})
               /\ held' = IF v = NoObject THEN held ELSE [held EXCEPT ![v] = @ - 1]
ObjectAdd(p, k, v) == /\ heap.kind[p] = "object" /\ Hands(p, v)
                      /\ heap' = json_object_object_add(heap, p, k, v)
ObjectDel(p, k) == /\ p \in Known /\ heap.kind[p] = "object" /\ k \in DOMAIN heap.members[p]
                   /\ heap' = json_object_object_del(heap, p, k) /\ UNCHANGED held
ArrayPutIdx(p, i, v) == /\ heap.kind[p] = "array" /\ Hands(p, v)
                        /\ heap' = json_object_array_put_idx(heap, p, i, v)

ObjNext == \/ \E kind \in Kind : New(kind)
           \/ \E o \in Object : Get(o) \/ Put(o)
           \/ \E p \in Object, v \in Object \cup {NoObject} :
                 \/ \E k \in Field : ObjectAdd(p, k, v)
                 \/ \E i \in 1 .. MaxIndex : ArrayPutIdx(p, i, v)
           \/ \E p \in Object, k \in Field : ObjectDel(p, k)

ObjSpec == ObjInit /\ [][ObjNext]_objVars

\* Whatever a client builds, shares, replaces and takes apart, the count of every object
\* is the references there are to it, from the client and from containers that live: none
\* is deleted while something holds it, and none is left when nothing does.
ReferencesCounted ==
    /\ ~heap.misuse
    /\ \A o \in Object :
         heap.count[o] = held[o] + Cardinality(
             {e \in Alive(heap) \X Index :
                 e[2] \in DOMAIN heap.members[e[1]] /\ heap.members[e[1]][e[2]] = o})
    /\ Known = Alive(heap)
=============================================================================
