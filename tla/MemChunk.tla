------------------------------ MODULE MemChunk ------------------------------
(* base/memchunk.c: atoms of one size, carved out of memory areas.  Freed      *)
(* atoms go on a list of the chunk; an area whose last atom was freed is       *)
(* marked, its atoms leave the list one by one as they come up in mc_alloc,    *)
(* and then the area is kept in reserve (free_mem_area) or given back.         *)
(*                                                                             *)
(* The operators work on the record of one chunk.  Sizes count atoms, and an   *)
(* atom is <<area, position>>.                                                 *)
EXTENDS Integers, Sequences, SequencesExt, Iteration

CONSTANTS Area,       \* the areas malloc can return
          AreaAtoms,  \* area_size / atom_size
          NoArea      \* the NULL pointer

ASSUME ChunkAssumption == NoArea \notin Area /\ AreaAtoms \in Nat \ {0}

Atom == Area \X Nat

Chunk == [mem_areas : SUBSET Area, mem_area : Area \cup {NoArea}, free_mem_area : Area \cup {NoArea},
          free_atoms : Seq(Atom), num_mem_areas : Int, num_marked_areas : Int,
          area : [Area -> [index : Nat, free : Int, allocated : Int, mark : BOOLEAN]]]

FreshArea == [index |-> 0, free |-> AreaAtoms, allocated |-> 0, mark |-> FALSE]

\* mc_chunk_init, also mc_init_old after its rounding.
mc_init == [mem_areas |-> {}, mem_area |-> NoArea, free_mem_area |-> NoArea, free_atoms |-> << >>,
            num_mem_areas |-> 0, num_marked_areas |-> 0, area |-> [a \in Area |-> FreshArea]]

\* The area whose carved part holds the atom.
locateMemArea(c, mem) == CHOOSE a \in c.mem_areas : a = mem[1] /\ mem[2] < c.area[a].index

\* Mutant: the last atom does not mark its area.
FreeAtomUnmarked(c, mem) ==
    [c EXCEPT !.free_atoms = <<mem>> \o @, !.area[locateMemArea(c, mem)].allocated = @ - 1]

mc_free_atom(c, mem) ==
    LET a == locateMemArea(c, mem)
        c1 == [c EXCEPT !.free_atoms = <<mem>> \o @, !.area[a].allocated = @ - 1]
    IN IF c1.area[a].allocated # 0 THEN c1
       ELSE [c1 EXCEPT !.area[a].mark = TRUE, !.num_marked_areas = @ + 1]

\* An area goes back to the system.
GiveBack(c, a) ==
    [c EXCEPT !.num_mem_areas = @ - 1, !.area[a] = FreshArea, !.mem_areas = @ \ {a}]

\* All atoms of a marked area are back, and it is no longer the current one.
Emptied(c, a) == [c EXCEPT !.mem_area = IF @ = a THEN NoArea ELSE @, !.num_marked_areas = @ - 1]

\* It becomes the reserve, or is given back when there is a reserve already.
Retire(c, a) ==
    IF c.free_mem_area # NoArea THEN GiveBack(Emptied(c, a), a)
    ELSE [Emptied(c, a) EXCEPT !.free_mem_area = a]

\* The first free atom, which is of a marked area, is counted back into it.
CountedBack(c, a) == [c EXCEPT !.free_atoms = Tail(@), !.area[a].free = @ + 1]

FirstArea(c) == locateMemArea(c, Head(c.free_atoms))
Usable(c) == c.free_atoms = << >> \/ ~c.area[FirstArea(c)].mark

\* The loop of mc_alloc, until the first free atom is of an area that is not marked.
SkipMarked == [c \in Chunk |->
    LET a == FirstArea(c)
        c1 == CountedBack(c, a)
    IN IF Usable(c) THEN c ELSE IF c1.area[a].free = AreaAtoms THEN Retire(c1, a) ELSE c1]
Skipped(c) == Iterated(SkipMarked, c, Len(c.free_atoms))

NoRoom(c) == c.mem_area = NoArea \/ c.area[c.mem_area].index + 1 > AreaAtoms

\* No atom, no room, no reserve, no memory: cx_malloc ends the program.
Exhausted(c) == LET c1 == Skipped(c) IN /\ c1.free_atoms = << >> /\ NoRoom(c1)
                                        /\ c1.free_mem_area = NoArea /\ c1.mem_areas = Area

\* A new current area: the reserve, or memory from the system.
NextArea(c) ==
    LET a == IF c.free_mem_area # NoArea THEN c.free_mem_area ELSE CHOOSE x \in Area \ c.mem_areas : TRUE
        c1 == IF c.free_mem_area # NoArea THEN [c EXCEPT !.free_mem_area = NoArea]
              ELSE [c EXCEPT !.num_mem_areas = @ + 1, !.mem_areas = @ \cup {a}]
    IN [c1 EXCEPT !.mem_area = a, !.area[a] = FreshArea]

\* The next atom of the current area a.
Carve(c, a) ==
    [mem |-> <<a, c.area[a].index>>,
     c |-> [c EXCEPT !.area[a].index = @ + 1, !.area[a].free = @ - 1, !.area[a].allocated = @ + 1]]

\* The first free atom.
Reuse(c, a) ==
    [mem |-> Head(c.free_atoms), c |-> [c EXCEPT !.free_atoms = Tail(@), !.area[a].allocated = @ + 1]]

mc_alloc(chunk) ==
    LET c == Skipped(chunk)
        c1 == IF NoRoom(c) THEN NextArea(c) ELSE c
    IN IF c.free_atoms # << >> THEN Reuse(c, FirstArea(c)) ELSE Carve(c1, c1.mem_area)

\* mc_clean: the atoms of marked areas leave the free list, and every area
\* that is complete again is given back; the reserve is not touched.
Sweeping == [c : Chunk, kept : Seq(Atom)]
Sweep == [s \in Sweeping |->
    LET a == FirstArea(s.c)
        c1 == CountedBack(s.c, a)
    IN IF s.c.free_atoms = << >> THEN s
       ELSE IF ~s.c.area[a].mark
            THEN [c |-> [s.c EXCEPT !.free_atoms = Tail(@)], kept |-> Append(s.kept, Head(s.c.free_atoms))]
       ELSE [s EXCEPT !.c = IF c1.area[a].free = AreaAtoms THEN GiveBack(Emptied(c1, a), a) ELSE c1]]
mc_clean(c) ==
    LET s == Iterated(Sweep, [c |-> c, kept |-> << >>], Len(c.free_atoms))
    IN [s.c EXCEPT !.free_atoms = s.kept]

InUse(c) == c.mem_areas \ {c.free_mem_area}
Marked(c) == {a \in InUse(c) : c.area[a].mark}
AtomsOf(a, atoms) == {m \in atoms : m[1] = a}

\* Every atom is in use, on the free list once, or counted as free space of its
\* area; the counters of areas and marks are right, and the reserve is not in use.
Accounts(c, live) ==
    LET carved == live \cup ToSet(c.free_atoms)
    IN /\ IsInjective(c.free_atoms)
       /\ live \cap ToSet(c.free_atoms) = {}
       /\ \A m \in carved : m[1] \in InUse(c)
       /\ \A a \in InUse(c) :
             /\ c.area[a].allocated = Cardinality(AtomsOf(a, live))
             /\ c.area[a].free + Cardinality(AtomsOf(a, carved)) = AreaAtoms
             /\ c.area[a].mark <=> c.area[a].allocated = 0
       /\ c.num_mem_areas = Cardinality(c.mem_areas)
       /\ c.num_marked_areas = Cardinality(Marked(c))
=============================================================================
