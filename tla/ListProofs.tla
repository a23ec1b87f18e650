----------------------------- MODULE ListProofs -----------------------------
(***************************************************************************)
(* The memory chunk and the linked lists, for every set of areas, atoms to *)
(* an area, lists and data.                                                *)
(***************************************************************************)
EXTENDS LinkList, ContainerProofs, SequenceTheorems

(***************************************************************************)
(* The books of a chunk                                                    *)
(***************************************************************************)

(* What the counters and marks of a chunk say when the atoms live are in use and those of
   F are free; the list of free atoms itself is not looked at. *)
Pointers(c) ==
    /\ IsFiniteSet(c.mem_areas)
    /\ c.mem_area \in InUse(c) \cup {NoArea}
    /\ c.free_mem_area \in c.mem_areas \cup {NoArea}
    /\ c.num_mem_areas = Cardinality(c.mem_areas)
    /\ c.num_marked_areas = Cardinality(Marked(c))

Placed(c, atoms) == \A m \in atoms : m[1] \in InUse(c) /\ m[2] < c.area[m[1]].index

AreaBooks(s, a, live, F) ==
    /\ s.index <= AreaAtoms
    /\ s.allocated = Cardinality(AtomsOf(a, live))
    /\ s.free + Cardinality(AtomsOf(a, live \cup F)) = AreaAtoms
    /\ s.mark <=> s.allocated = 0
    /\ s.mark => AtomsOf(a, F) # {}

Apart(live, F) ==
    /\ live \in SUBSET Atom /\ IsFiniteSet(live)
    /\ F \in SUBSET Atom /\ IsFiniteSet(F)
    /\ live \cap F = {}

Books(c, live, F) ==
    /\ Apart(live, F) /\ Pointers(c) /\ Placed(c, live \cup F)
    /\ \A a \in InUse(c) : AreaBooks(c.area[a], a, live, F)

(* The invariant of a chunk. *)
ChunkInv(c, live) ==
    /\ c \in Chunk /\ IsInjective(c.free_atoms)
    /\ Books(c, live, ToSet(c.free_atoms))

(* Counting the atoms of an area. *)
LEMMA CountKinds ==
    ASSUME NEW S, IsFiniteSet(S), NEW a
    PROVE  /\ IsFiniteSet(AtomsOf(a, S))
           /\ Cardinality(AtomsOf(a, S)) \in Nat
           /\ Cardinality(AtomsOf(a, S)) = 0 <=> AtomsOf(a, S) = {}
  <1>1. AtomsOf(a, S) \in SUBSET S
    BY DEF AtomsOf
  <1>2. IsFiniteSet(AtomsOf(a, S))
    BY <1>1, FS_Subset
  <1> QED BY <1>2, FS_CardinalityType, FS_EmptySet

(* One atom more. *)
LEMMA CountAdd ==
    ASSUME NEW S, IsFiniteSet(S), NEW m, m \notin S, NEW a
    PROVE  Cardinality(AtomsOf(a, S \cup {m})) =
           IF m[1] = a THEN Cardinality(AtomsOf(a, S)) + 1 ELSE Cardinality(AtomsOf(a, S))
  <1>1. IsFiniteSet(AtomsOf(a, S))
    BY CountKinds
  <1>2. CASE m[1] = a
    <2>1. AtomsOf(a, S \cup {m}) = AtomsOf(a, S) \cup {m} /\ m \notin AtomsOf(a, S)
      BY <1>2 DEF AtomsOf
    <2>2. Cardinality(AtomsOf(a, S) \cup {m}) = Cardinality(AtomsOf(a, S)) + 1
      BY <1>1, <2>1, FS_AddElement
    <2> QED BY <1>2, <2>1, <2>2
  <1>3. CASE m[1] # a
    <2>1. AtomsOf(a, S \cup {m}) = AtomsOf(a, S)
      BY <1>3 DEF AtomsOf
    <2> QED BY <1>3, <2>1
  <1> QED BY <1>2, <1>3

(* One atom less. *)
LEMMA CountRemove ==
    ASSUME NEW S, IsFiniteSet(S), NEW m \in S, NEW a
    PROVE  Cardinality(AtomsOf(a, S \ {m})) =
           IF m[1] = a THEN Cardinality(AtomsOf(a, S)) - 1 ELSE Cardinality(AtomsOf(a, S))
  <1>1. IsFiniteSet(AtomsOf(a, S))
    BY CountKinds
  <1>2. CASE m[1] = a
    <2>1. AtomsOf(a, S \ {m}) = AtomsOf(a, S) \ {m} /\ m \in AtomsOf(a, S)
      BY <1>2 DEF AtomsOf
    <2> QED BY <1>1, <1>2, <2>1, FS_RemoveElement
  <1>3. CASE m[1] # a
    <2>1. AtomsOf(a, S \ {m}) = AtomsOf(a, S)
      BY <1>3 DEF AtomsOf
    <2> QED BY <1>3, <2>1
  <1> QED BY <1>2, <1>3

(* An atom is found in the area it was carved from. *)
LEMMA Located ==
    ASSUME NEW c, NEW live, NEW F, Books(c, live, F), NEW m \in live \cup F
    PROVE  /\ locateMemArea(c, m) = m[1] /\ m[1] \in InUse(c)
           /\ m \in Atom /\ m[1] \in Area
  <1>1. m[1] \in InUse(c) /\ m[2] < c.area[m[1]].index
    BY DEF Books, Placed
  <1>2. m[1] \in c.mem_areas
    BY <1>1 DEF InUse
  <1>3. m \in Atom /\ m[1] \in Area
    BY DEF Books, Apart, Atom
  <1>4. locateMemArea(c, m) = m[1]
    BY <1>1, <1>2 DEF locateMemArea
  <1> QED BY <1>1, <1>3, <1>4

(* r is c with another state of the area a. *)
Changed(c, r, a, s) ==
    /\ r.mem_areas = c.mem_areas /\ r.mem_area = c.mem_area /\ r.free_mem_area = c.free_mem_area
    /\ r.num_mem_areas = c.num_mem_areas
    /\ r.area = [c.area EXCEPT ![a] = s]

(* The atoms of the areas but a are what they were. *)
Elsewhere(a, S, T) == \A b : b # a => AtomsOf(b, S) = AtomsOf(b, T)

MarksAfter(c, r, a, s) == Marked(r) = IF s.mark THEN Marked(c) \cup {a} ELSE Marked(c) \ {a}

ChangedTo(c, r, a, s) ==
    /\ InUse(r) = InUse(c) /\ r.area[a] = s
    /\ \A b \in Area : b # a => r.area[b] = c.area[b]
    /\ MarksAfter(c, r, a, s)

(* Only the area a is another. *)
LEMMA ChangedKinds ==
    ASSUME NEW c \in Chunk, NEW r, NEW a \in InUse(c), NEW s, Changed(c, r, a, s), s.mark \in BOOLEAN
    PROVE  ChangedTo(c, r, a, s)
  <1>1. InUse(r) = InUse(c)
    BY DEF Changed, InUse
  <1>2. InUse(c) \subseteq Area
    BY DEF Chunk, InUse
  <1>3. DOMAIN c.area = Area /\ r.area = [c.area EXCEPT ![a] = s]
    BY DEF Chunk, Changed
  <1>4. r.area[a] = s /\ \A b \in Area : b # a => r.area[b] = c.area[b]
    BY <1>2, <1>3
  <1>5. MarksAfter(c, r, a, s)
    <2>1. ASSUME NEW b PROVE b \in Marked(r) <=> b \in InUse(c) /\ (IF b = a THEN s.mark ELSE c.area[b].mark)
      BY <1>1, <1>2, <1>4 DEF Marked
    <2>2. ASSUME NEW b PROVE b \in Marked(c) <=> b \in InUse(c) /\ c.area[b].mark
      BY DEF Marked
    <2> QED BY <2>1, <2>2 DEF MarksAfter
  <1> QED BY <1>1, <1>4, <1>5 DEF ChangedTo

(* The books, but for those of the area a. *)
BooksBut(c, a, live, F) ==
    /\ Pointers(c)
    /\ \A m \in live \cup F : m[1] # a => m[1] \in InUse(c) /\ m[2] < c.area[m[1]].index
    /\ \A b \in InUse(c) : b # a => AreaBooks(c.area[b], b, live, F)

(* The books are right again when those of the one area that changed are. *)
LEMMA ChangedBooks ==
    ASSUME NEW c \in Chunk, NEW live, NEW F, NEW a \in InUse(c), BooksBut(c, a, live, F),
           NEW r, NEW s, Changed(c, r, a, s), s.mark \in BOOLEAN, s.index \in Nat,
           NEW live2, NEW F2, Apart(live2, F2), Elsewhere(a, live2, live), Elsewhere(a, F2, F),
           \A m \in AtomsOf(a, live2 \cup F2) : m[2] < s.index,
           AreaBooks(s, a, live2, F2),
           r.num_marked_areas = Cardinality(Marked(r))
    PROVE  Books(r, live2, F2)
  <1>1. /\ InUse(r) = InUse(c) /\ r.area[a] = s
        /\ \A b \in Area : b # a => r.area[b] = c.area[b]
    BY ChangedKinds DEF ChangedTo
  <1>2. InUse(c) \subseteq Area
    BY DEF Chunk, InUse
  <1>3. Pointers(r)
    BY <1>1 DEF Pointers, Changed, BooksBut
  <1>4. ASSUME NEW m \in live2 \cup F2
        PROVE  m[1] \in InUse(r) /\ m[2] < r.area[m[1]].index
    <2>1. CASE m[1] = a
      BY <1>1, <2>1 DEF AtomsOf
    <2>2. CASE m[1] # a
      <3>1. m \in live \cup F
        BY <2>2 DEF Elsewhere, AtomsOf
      <3>2. m[1] \in InUse(c) /\ m[2] < c.area[m[1]].index
        BY <2>2, <3>1 DEF BooksBut
      <3> QED BY <3>2, <1>1, <1>2, <2>2
    <2> QED BY <2>1, <2>2
  <1>5. ASSUME NEW b \in InUse(r) PROVE AreaBooks(r.area[b], b, live2, F2)
    <2>1. CASE b = a
      BY <2>1, <1>1
    <2>2. CASE b # a
      <3>1. AtomsOf(b, live2) = AtomsOf(b, live) /\ AtomsOf(b, F2) = AtomsOf(b, F)
        BY <2>2 DEF Elsewhere
      <3>2. AtomsOf(b, live2 \cup F2) = AtomsOf(b, live2) \cup AtomsOf(b, F2)
            /\ AtomsOf(b, live \cup F) = AtomsOf(b, live) \cup AtomsOf(b, F)
        BY DEF AtomsOf
      <3>3. AreaBooks(c.area[b], b, live, F)
        BY <1>1, <1>5, <2>2 DEF BooksBut
      <3>4. r.area[b] = c.area[b]
        BY <1>1, <1>2, <2>2
      <3> QED BY <3>1, <3>2, <3>3, <3>4 DEF AreaBooks
    <2> QED BY <2>1, <2>2
  <1> QED BY <1>3, <1>4, <1>5 DEF Books, Placed

(* What a state of an area is made of. *)
LEMMA AreaKinds ==
    ASSUME NEW c \in Chunk, NEW a \in Area
    PROVE  /\ c.area[a] \in [index : Nat, free : Int, allocated : Int, mark : BOOLEAN]
           /\ c.area[a].index \in Nat /\ c.area[a].free \in Int
           /\ c.area[a].allocated \in Int /\ c.area[a].mark \in BOOLEAN
           /\ c.num_marked_areas \in Int /\ c.num_mem_areas \in Int
           /\ c.free_atoms \in Seq(Atom)
  BY DEF Chunk

(* The areas in use, and the marked ones, are finitely many. *)
LEMMA MarkedFinite ==
    ASSUME NEW c, Pointers(c)
    PROVE  IsFiniteSet(Marked(c)) /\ Cardinality(Marked(c)) \in Nat
  <1>1. Marked(c) \in SUBSET c.mem_areas /\ IsFiniteSet(c.mem_areas)
    BY DEF Marked, InUse, Pointers
  <1> QED BY <1>1, FS_Subset, FS_CardinalityType

-----------------------------------------------------------------------------
(***************************************************************************)
(* The operations of a chunk                                               *)
(***************************************************************************)

(* The state of the area of an atom that is freed. *)
AfterFree(s) == [s EXCEPT !.allocated = @ - 1, !.mark = IF s.allocated - 1 = 0 THEN TRUE ELSE @]

(* A chunk with another free list, other areas and another number of marks. *)
LEMMA ChunkWith ==
    ASSUME NEW c \in Chunk, NEW fs \in Seq(Atom), NEW n \in Int,
           NEW ar \in [Area -> [index : Nat, free : Int, allocated : Int, mark : BOOLEAN]]
    PROVE  [c EXCEPT !.free_atoms = fs, !.area = ar, !.num_marked_areas = n] \in Chunk
  BY DEF Chunk

(* What mc_free_atom writes: the free list, the area of the atom and the number of marks. *)
LEMMA FreeFields ==
    ASSUME NEW c \in Chunk, NEW m \in Atom, NEW a \in Area, locateMemArea(c, m) = a
    PROVE  /\ mc_free_atom(c, m) \in Chunk
           /\ mc_free_atom(c, m).free_atoms = <<m>> \o c.free_atoms
           /\ Changed(c, mc_free_atom(c, m), a, AfterFree(c.area[a]))
           /\ mc_free_atom(c, m).num_marked_areas =
              IF c.area[a].allocated - 1 = 0 THEN c.num_marked_areas + 1 ELSE c.num_marked_areas
  <1> DEFINE c1 == [c EXCEPT !.free_atoms = <<m>> \o @, !.area[a].allocated = @ - 1]
             k == c.area[a].allocated - 1
             c2 == [c1 EXCEPT !.area[a].mark = TRUE, !.num_marked_areas = @ + 1]
  <1>1. /\ c.area[a] \in [index : Nat, free : Int, allocated : Int, mark : BOOLEAN]
        /\ c.area \in [Area -> [index : Nat, free : Int, allocated : Int, mark : BOOLEAN]]
        /\ c.free_atoms \in Seq(Atom)
    BY AreaKinds DEF Chunk
  <1>2. <<m>> \o c.free_atoms \in Seq(Atom)
    <2>1. <<m>> \in Seq(Atom)
      OBVIOUS
    <2> QED BY <1>1, <2>1, ConcatProperties
  <1>3. c1 \in Chunk /\ c1.area[a].allocated = k
    <2> DEFINE ar == [c.area EXCEPT ![a].allocated = @ - 1]
    <2>1. ar \in [Area -> [index : Nat, free : Int, allocated : Int, mark : BOOLEAN]] /\ ar[a].allocated = k
      BY <1>1, SMTT(30)
    <2>2. c1 = [c EXCEPT !.free_atoms = <<m>> \o c.free_atoms, !.area = ar]
      BY DEF Chunk
    <2> HIDE DEF ar, c1
    <2>3. c1.area = ar
      BY <2>2 DEF Chunk
    <2>4. c1 \in Chunk
      BY <1>2, <2>1, <2>2 DEF Chunk
    <2> QED BY <2>1, <2>3, <2>4
  <1>4. mc_free_atom(c, m) = IF k # 0 THEN c1 ELSE c2
    BY <1>3 DEF mc_free_atom
  <1>5. CASE k # 0
    <2>1. AfterFree(c.area[a]) = [c.area[a] EXCEPT !.allocated = @ - 1]
      BY <1>1, <1>5 DEF AfterFree
    <2>2. c1.area = [c.area EXCEPT ![a] = AfterFree(c.area[a])]
      BY <1>1, <2>1 DEF Chunk
    <2>3. c1.free_atoms = <<m>> \o c.free_atoms /\ c1.num_marked_areas = c.num_marked_areas
      BY DEF Chunk
    <2>4. /\ c1.mem_areas = c.mem_areas /\ c1.mem_area = c.mem_area
          /\ c1.free_mem_area = c.free_mem_area /\ c1.num_mem_areas = c.num_mem_areas
      BY DEF Chunk
    <2> QED BY <1>3, <1>4, <1>5, <2>2, <2>3, <2>4 DEF Changed
  <1>6. CASE k = 0
    <2>1. AfterFree(c.area[a]) = [[c.area[a] EXCEPT !.allocated = @ - 1] EXCEPT !.mark = TRUE]
      BY <1>1, <1>6 DEF AfterFree
    <2>2. c1.area = [c.area EXCEPT ![a] = [c.area[a] EXCEPT !.allocated = @ - 1]]
      BY <1>1 DEF Chunk
    <2>3. c2.area = [c.area EXCEPT ![a] = AfterFree(c.area[a])]
      BY <1>1, <1>3, <2>1, <2>2 DEF Chunk
    <2>4. c2.free_atoms = <<m>> \o c.free_atoms /\ c2.num_marked_areas = c.num_marked_areas + 1
      BY DEF Chunk
    <2>5. /\ c2.mem_areas = c.mem_areas /\ c2.mem_area = c.mem_area
          /\ c2.free_mem_area = c.free_mem_area /\ c2.num_mem_areas = c.num_mem_areas
      BY DEF Chunk
    <2>6. c2 \in Chunk
      <3> DEFINE ar == [c1.area EXCEPT ![a].mark = TRUE]
      <3> HIDE DEF c1
      <3>1. /\ c1.area \in [Area -> [index : Nat, free : Int, allocated : Int, mark : BOOLEAN]]
            /\ c1.num_marked_areas \in Int
        BY <1>3 DEF Chunk
      <3>2. ar \in [Area -> [index : Nat, free : Int, allocated : Int, mark : BOOLEAN]]
        BY <3>1
      <3>3. c2 = [c1 EXCEPT !.free_atoms = c1.free_atoms, !.area = ar,
                            !.num_marked_areas = c1.num_marked_areas + 1]
        BY <1>3 DEF Chunk
      <3>4. c1.num_marked_areas + 1 \in Int /\ c1.free_atoms \in Seq(Atom)
        BY <1>3, <3>1 DEF Chunk
      <3> HIDE DEF ar, c2
      <3> QED BY <1>3, <3>2, <3>3, <3>4, ChunkWith
    <2> QED BY <1>4, <1>6, <2>3, <2>4, <2>5, <2>6 DEF Changed
  <1> QED BY <1>5, <1>6

(* Freeing an atom in use keeps the books. *)
LEMMA Freed ==
    ASSUME NEW c \in Chunk, NEW live, NEW F, Books(c, live, F), NEW m \in live
    PROVE  Books(mc_free_atom(c, m), live \ {m}, F \cup {m})
  <1> DEFINE r == mc_free_atom(c, m)  a == m[1]  s == AfterFree(c.area[a])
             live2 == live \ {m}  F2 == F \cup {m}
  <1>1. /\ locateMemArea(c, m) = a /\ a \in InUse(c) /\ m \in Atom /\ a \in Area
    BY Located
  <1>2. /\ Changed(c, r, a, s)
        /\ r.num_marked_areas = IF c.area[a].allocated - 1 = 0 THEN c.num_marked_areas + 1
                                ELSE c.num_marked_areas
    BY <1>1, FreeFields
  <1>3. /\ IsFiniteSet(live) /\ IsFiniteSet(F) /\ m \notin F /\ live \cap F = {}
        /\ live \in SUBSET Atom /\ F \in SUBSET Atom
    BY DEF Books, Apart
  <1>4. Apart(live2, F2)
    BY <1>1, <1>3, FS_RemoveElement, FS_AddElement DEF Apart
  <1>5. Elsewhere(a, live2, live) /\ Elsewhere(a, F2, F)
    BY DEF Elsewhere, AtomsOf
  <1>6. live2 \cup F2 = live \cup F
    OBVIOUS
  <1>7. AreaBooks(c.area[a], a, live, F)
    BY <1>1 DEF Books
  <1>8. /\ c.area[a] \in [index : Nat, free : Int, allocated : Int, mark : BOOLEAN]
        /\ c.area[a].allocated \in Int /\ c.num_marked_areas \in Int
    BY <1>1, AreaKinds
  <1>9. /\ s.index = c.area[a].index /\ s.free = c.area[a].free /\ s.allocated = c.area[a].allocated - 1
        /\ s.mark = IF c.area[a].allocated - 1 = 0 THEN TRUE ELSE c.area[a].mark
    BY <1>8 DEF AfterFree
  <1>10. /\ Cardinality(AtomsOf(a, live2)) = Cardinality(AtomsOf(a, live)) - 1
         /\ Cardinality(AtomsOf(a, live2)) \in Nat
    <2>1. IsFiniteSet(live2)
      BY <1>4 DEF Apart
    <2> QED BY <1>3, <2>1, CountRemove, CountKinds
  <1>11. ~c.area[a].mark /\ c.area[a].allocated - 1 \in Nat
    <2>1. c.area[a].allocated = Cardinality(AtomsOf(a, live)) /\ (c.area[a].mark <=> c.area[a].allocated = 0)
      BY <1>7 DEF AreaBooks
    <2>2. c.area[a].allocated - 1 \in Nat
      BY <1>10, <2>1
    <2> QED BY <2>1, <2>2
  <1>12. s.mark <=> s.allocated = 0
    BY <1>9, <1>11
  <1>13. AreaBooks(s, a, live2, F2)
    <2>1. AtomsOf(a, F2) # {}
      BY DEF AtomsOf
    <2> QED BY <1>6, <1>7, <1>9, <1>10, <1>12, <2>1 DEF AreaBooks
  <1>14. \A x \in AtomsOf(a, live2 \cup F2) : x[2] < s.index
    BY <1>6, <1>9 DEF Books, Placed, AtomsOf
  <1>15. r.num_marked_areas = Cardinality(Marked(r))
    <2>1. MarksAfter(c, r, a, s)
      <3>1. s.mark \in BOOLEAN
        BY <1>8, <1>9
      <3>2. Changed(c, r, a, s)
        BY <1>2
      <3> HIDE DEF r, s
      <3>3. ChangedTo(c, r, a, s)
        BY <1>1, <3>1, <3>2, ChangedKinds
      <3> QED BY <3>3 DEF ChangedTo
    <2>2. a \notin Marked(c)
      BY <1>11 DEF Marked
    <2>3. IsFiniteSet(Marked(c)) /\ c.num_marked_areas = Cardinality(Marked(c))
      BY MarkedFinite DEF Books, Pointers
    <2>4. CASE s.mark
      <3>1. Cardinality(Marked(c) \cup {a}) = Cardinality(Marked(c)) + 1
        BY <2>2, <2>3, FS_AddElement
      <3>2. Marked(r) = Marked(c) \cup {a}
        BY <2>1, <2>4 DEF MarksAfter
      <3> QED BY <1>2, <1>9, <1>12, <2>3, <2>4, <3>1, <3>2
    <2>5. CASE ~s.mark
      <3>1. Marked(r) = Marked(c)
        BY <2>1, <2>2, <2>5 DEF MarksAfter
      <3> QED BY <1>2, <1>9, <1>12, <2>3, <2>5, <3>1
    <2> QED BY <2>4, <2>5
  <1>16. s.mark \in BOOLEAN /\ s.index \in Nat
    BY <1>8, <1>9
  <1>17. BooksBut(c, a, live, F)
    BY DEF Books, BooksBut, Placed
  <1> HIDE DEF r, s, live2, F2, a
  <1>18. Books(r, live2, F2)
    BY <1>1, <1>2, <1>4, <1>5, <1>13, <1>14, <1>15, <1>16, <1>17, ChangedBooks
  <1> QED BY <1>18 DEF r, live2, F2

(* The state of a marked area when one of its atoms leaves the free list. *)
AfterBack(s) == [s EXCEPT !.free = @ + 1]

(* What the loop of mc_alloc writes when it counts the first free atom back. *)
LEMMA BackFields ==
    ASSUME NEW c \in Chunk, c.free_atoms # << >>, NEW a \in Area
    PROVE  /\ CountedBack(c, a) \in Chunk
           /\ CountedBack(c, a).free_atoms = Tail(c.free_atoms)
           /\ Changed(c, CountedBack(c, a), a, AfterBack(c.area[a]))
           /\ CountedBack(c, a).num_marked_areas = c.num_marked_areas
           /\ AfterBack(c.area[a]).index = c.area[a].index
           /\ AfterBack(c.area[a]).free = c.area[a].free + 1
           /\ AfterBack(c.area[a]).allocated = c.area[a].allocated
           /\ AfterBack(c.area[a]).mark = c.area[a].mark
  <1> DEFINE r == CountedBack(c, a)  ar == [c.area EXCEPT ![a].free = @ + 1]
  <1>1. /\ c.area[a] \in [index : Nat, free : Int, allocated : Int, mark : BOOLEAN]
        /\ c.area \in [Area -> [index : Nat, free : Int, allocated : Int, mark : BOOLEAN]]
        /\ c.free_atoms \in Seq(Atom) /\ c.num_marked_areas \in Int
    BY AreaKinds DEF Chunk
  <1>2. Tail(c.free_atoms) \in Seq(Atom)
    BY <1>1, HeadTailProperties
  <1>3. ar \in [Area -> [index : Nat, free : Int, allocated : Int, mark : BOOLEAN]]
    BY <1>1, SMTT(30)
  <1>4. r = [c EXCEPT !.free_atoms = Tail(c.free_atoms), !.area = ar,
                      !.num_marked_areas = c.num_marked_areas]
    BY DEF Chunk, CountedBack
  <1>5. ar = [c.area EXCEPT ![a] = AfterBack(c.area[a])]
    BY <1>1 DEF AfterBack
  <1>6. /\ AfterBack(c.area[a]).index = c.area[a].index
        /\ AfterBack(c.area[a]).free = c.area[a].free + 1
        /\ AfterBack(c.area[a]).allocated = c.area[a].allocated
        /\ AfterBack(c.area[a]).mark = c.area[a].mark
    BY <1>1 DEF AfterBack
  <1> HIDE DEF ar, r
  <1>7. r \in Chunk
    BY <1>1, <1>2, <1>3, <1>4, ChunkWith
  <1>8. /\ r.free_atoms = Tail(c.free_atoms) /\ r.area = ar /\ r.num_marked_areas = c.num_marked_areas
        /\ r.mem_areas = c.mem_areas /\ r.mem_area = c.mem_area /\ r.free_mem_area = c.free_mem_area
        /\ r.num_mem_areas = c.num_mem_areas
    BY <1>4 DEF Chunk
  <1> QED BY <1>5, <1>6, <1>7, <1>8 DEF Changed, r

(* One free atom less, in the area a. *)
LessOne(live, F, a, F2) ==
    /\ Apart(live, F2) /\ Elsewhere(a, F2, F) /\ IsFiniteSet(live \cup F2)
    /\ live \cup F2 \subseteq live \cup F
    /\ Cardinality(AtomsOf(a, live \cup F2)) = Cardinality(AtomsOf(a, live \cup F)) - 1

(* An atom that leaves the free list is one less in its area and changes no other. *)
LEMMA OneFreeLess ==
    ASSUME NEW live, NEW F, Apart(live, F), NEW m \in F
    PROVE  LessOne(live, F, m[1], F \ {m})
  <1>1. Apart(live, F \ {m})
    BY FS_RemoveElement DEF Apart
  <1>2. Elsewhere(m[1], F \ {m}, F)
    BY DEF Elsewhere, AtomsOf
  <1>3. live \cup (F \ {m}) = (live \cup F) \ {m} /\ m \in live \cup F
    BY DEF Apart
  <1>4. IsFiniteSet(live \cup F)
    BY FS_Union DEF Apart
  <1>5. IsFiniteSet(live \cup (F \ {m}))
    BY <1>3, <1>4, FS_RemoveElement
  <1>6. Cardinality(AtomsOf(m[1], (live \cup F) \ {m})) = Cardinality(AtomsOf(m[1], live \cup F)) - 1
    BY <1>3, <1>4, CountRemove
  <1> QED BY <1>1, <1>2, <1>3, <1>5, <1>6 DEF LessOne

(* An atom of a marked area leaves the free list, and others are still on it. *)
LEMMA Back ==
    ASSUME NEW c \in Chunk, c.free_atoms # << >>, NEW live, NEW F, Books(c, live, F), NEW m \in F,
           c.area[m[1]].mark, c.area[m[1]].free + 1 # AreaAtoms
    PROVE  Books(CountedBack(c, m[1]), live, F \ {m})
  <1> DEFINE a == m[1]  r == CountedBack(c, a)  s == AfterBack(c.area[a])  F2 == F \ {m}
  <1>1. a \in InUse(c) /\ a \in Area
    BY Located
  <1>2. /\ Changed(c, r, a, s)
        /\ r.num_marked_areas = c.num_marked_areas
        /\ s.index = c.area[a].index /\ s.free = c.area[a].free + 1
        /\ s.allocated = c.area[a].allocated /\ s.mark = c.area[a].mark
    BY <1>1, BackFields
  <1>3. Apart(live, F)
    BY DEF Books
  <1>4. /\ Apart(live, F2) /\ Elsewhere(a, F2, F) /\ live \cup F2 \subseteq live \cup F
        /\ Cardinality(AtomsOf(a, live \cup F2)) = Cardinality(AtomsOf(a, live \cup F)) - 1
        /\ IsFiniteSet(live \cup F2)
    <2>1. LessOne(live, F, a, F2)
      BY <1>3, OneFreeLess
    <2> QED BY <2>1 DEF LessOne
  <1>5. Elsewhere(a, live, live)
    BY DEF Elsewhere
  <1>6. AreaBooks(c.area[a], a, live, F)
    BY <1>1 DEF Books
  <1>7. /\ c.area[a].index \in Nat /\ c.area[a].free \in Int
        /\ c.area[a].allocated \in Int /\ c.area[a].mark \in BOOLEAN
    BY <1>1, AreaKinds
  <1>8. Cardinality(AtomsOf(a, live \cup F)) \in Nat /\ AreaAtoms \in Int
    <2>1. IsFiniteSet(live \cup F)
      BY <1>3, FS_Union DEF Apart
    <2> QED BY <2>1, CountKinds, ChunkAssumption
  <1>9. s.free + Cardinality(AtomsOf(a, live \cup F2)) = AreaAtoms
    <2>1. c.area[a].free + Cardinality(AtomsOf(a, live \cup F)) = AreaAtoms
      BY <1>6 DEF AreaBooks
    <2>2. Cardinality(AtomsOf(a, live \cup F2)) = Cardinality(AtomsOf(a, live \cup F)) - 1
      BY <1>4
    <2>3. s.free = c.area[a].free + 1
      BY <1>2
    <2> HIDE DEF s, a, F2
    <2> QED BY <2>1, <2>2, <2>3, <1>7, <1>8, SMTT(30)
  <1>10. AtomsOf(a, F2) # {}
    <2>1. AtomsOf(a, live \cup F2) # {}
      <3>1. s.free # AreaAtoms /\ s.free \in Int
        BY <1>2, <1>7
      <3>2. Cardinality(AtomsOf(a, live \cup F2)) # 0
        <4> HIDE DEF s, F2, a
        <4> QED BY <3>1, <1>8, <1>9
      <3> QED BY <3>2, FS_EmptySet
    <2>2. AtomsOf(a, live) = {}
      <3>1. Cardinality(AtomsOf(a, live)) = 0
        BY <1>6 DEF AreaBooks
      <3>2. IsFiniteSet(live)
        BY <1>3 DEF Apart
      <3> HIDE DEF a
      <3> QED BY <3>1, <3>2, CountKinds
    <2> QED BY <2>1, <2>2 DEF AtomsOf
  <1>11. AreaBooks(s, a, live, F2)
    <2> HIDE DEF s, a, F2
    <2> QED BY <1>2, <1>6, <1>9, <1>10 DEF AreaBooks
  <1>12. \A x \in AtomsOf(a, live \cup F2) : x[2] < s.index
    BY <1>2, <1>4 DEF Books, Placed, AtomsOf
  <1>13. r.num_marked_areas = Cardinality(Marked(r))
    <2>1. MarksAfter(c, r, a, s)
      <3>1. s.mark \in BOOLEAN
        BY <1>2, <1>7
      <3>2. Changed(c, r, a, s)
        BY <1>2
      <3> HIDE DEF r, s
      <3>3. ChangedTo(c, r, a, s)
        BY <1>1, <3>1, <3>2, ChangedKinds
      <3> QED BY <3>3 DEF ChangedTo
    <2>2. a \in Marked(c) /\ s.mark
      BY <1>1, <1>2 DEF Marked
    <2>3. Marked(r) = Marked(c)
      BY <2>1, <2>2 DEF MarksAfter
    <2>4. c.num_marked_areas = Cardinality(Marked(c))
      BY DEF Books, Pointers
    <2> QED BY <1>2, <2>3, <2>4
  <1>14. BooksBut(c, a, live, F)
    BY DEF Books, BooksBut, Placed
  <1> HIDE DEF r, s, F2, a
  <1>15. Books(r, live, F2)
    BY <1>1, <1>2, <1>4, <1>5, <1>7, <1>11, <1>12, <1>13, <1>14, ChangedBooks
  <1> QED BY <1>15 DEF r, F2, a

(* The area a leaves the areas in use. *)
Left(c, r, a) ==
    /\ InUse(r) = InUse(c) \ {a}
    /\ \A b \in Area : b # a => r.area[b] = c.area[b]
    /\ IsFiniteSet(r.mem_areas) /\ r.num_mem_areas = Cardinality(r.mem_areas)
    /\ r.free_mem_area \in r.mem_areas \cup {NoArea}
    /\ r.mem_area = IF c.mem_area = a THEN NoArea ELSE c.mem_area
    /\ r.num_marked_areas = c.num_marked_areas - 1

EmptiedFields(c, a, r) ==
    /\ r \in Chunk /\ r.free_atoms = c.free_atoms
    /\ r.mem_areas = c.mem_areas /\ r.area = c.area
    /\ r.mem_area = IF c.mem_area = a THEN NoArea ELSE c.mem_area
    /\ r.free_mem_area = c.free_mem_area
    /\ r.num_mem_areas = c.num_mem_areas /\ r.num_marked_areas = c.num_marked_areas - 1

(* A chunk with another current area, and one with other areas. *)
LEMMA ChunkMoved ==
    ASSUME NEW c \in Chunk, NEW x \in Area \cup {NoArea}, NEW n \in Int
    PROVE  [c EXCEPT !.mem_area = x, !.num_marked_areas = n] \in Chunk
  BY DEF Chunk

(* An area that is given back leaves a chunk. *)
LEMMA ChunkAreas ==
    ASSUME NEW c \in Chunk, NEW S \in SUBSET Area, NEW n \in Int,
           NEW ar \in [Area -> [index : Nat, free : Int, allocated : Int, mark : BOOLEAN]]
    PROVE  [c EXCEPT !.num_mem_areas = n, !.area = ar, !.mem_areas = S] \in Chunk
  BY DEF Chunk

(* What mc_alloc and mc_clean write before an area is given back or kept. *)
LEMMA EmptiedKinds ==
    ASSUME NEW c \in Chunk, NEW a \in Area
    PROVE  EmptiedFields(c, a, Emptied(c, a))
  <1> DEFINE r == Emptied(c, a)
  <1>1. /\ r.mem_areas = c.mem_areas /\ r.area = c.area /\ r.free_atoms = c.free_atoms
        /\ r.mem_area = (IF c.mem_area = a THEN NoArea ELSE c.mem_area)
        /\ r.free_mem_area = c.free_mem_area
        /\ r.num_mem_areas = c.num_mem_areas /\ r.num_marked_areas = c.num_marked_areas - 1
    BY DEF Emptied, Chunk
  <1>2. r \in Chunk
    <2> DEFINE x == IF c.mem_area = a THEN NoArea ELSE c.mem_area  n == c.num_marked_areas - 1
    <2>1. x \in Area \cup {NoArea} /\ n \in Int
      BY DEF Chunk
    <2>2. r = [c EXCEPT !.mem_area = x, !.num_marked_areas = n]
      BY DEF Emptied, Chunk
    <2> HIDE DEF x, n, r
    <2> QED BY <2>1, <2>2, ChunkMoved
  <1> QED BY <1>1, <1>2 DEF EmptiedFields

(* What mc_clean does with a complete area. *)
LEMMA GiveBackLeft ==
    ASSUME NEW c \in Chunk, NEW a \in InUse(c), Pointers(c)
    PROVE  LET r == GiveBack(Emptied(c, a), a)
           IN r \in Chunk /\ r.free_atoms = c.free_atoms /\ Left(c, r, a)
  <1> DEFINE e == Emptied(c, a)  r == GiveBack(e, a)
  <1>1. a \in Area /\ a \in c.mem_areas /\ a # c.free_mem_area
    BY DEF InUse, Chunk
  <1>2. EmptiedFields(c, a, e)
    BY <1>1, EmptiedKinds
  <1>3. FreshArea \in [index : Nat, free : Int, allocated : Int, mark : BOOLEAN]
    BY ChunkAssumption DEF FreshArea
  <1> HIDE DEF e
  <1>4. e \in Chunk
    BY <1>2 DEF EmptiedFields
  <1>5. r \in Chunk
    <2> DEFINE ar == [e.area EXCEPT ![a] = FreshArea]  n == e.num_mem_areas - 1  S == e.mem_areas \ {a}
    <2>1. /\ e.area \in [Area -> [index : Nat, free : Int, allocated : Int, mark : BOOLEAN]]
          /\ e.num_mem_areas \in Int /\ e.mem_areas \in SUBSET Area
      BY <1>4 DEF Chunk
    <2>2. ar \in [Area -> [index : Nat, free : Int, allocated : Int, mark : BOOLEAN]]
      BY <1>3, <2>1
    <2>3. n \in Int /\ S \in SUBSET Area
      BY <2>1
    <2>4. r = [e EXCEPT !.num_mem_areas = n, !.area = ar, !.mem_areas = S]
      BY <1>4 DEF Chunk, GiveBack
    <2> HIDE DEF ar, n, S, r
    <2> QED BY <1>4, <2>2, <2>3, <2>4, ChunkAreas
  <1>6. /\ r.mem_areas = e.mem_areas \ {a} /\ r.mem_area = e.mem_area
        /\ r.free_mem_area = e.free_mem_area /\ r.free_atoms = e.free_atoms
        /\ r.num_mem_areas = e.num_mem_areas - 1
        /\ r.num_marked_areas = e.num_marked_areas
        /\ r.area = [e.area EXCEPT ![a] = FreshArea]
    BY <1>4 DEF Chunk, GiveBack
  <1>7. \A b \in Area : b # a => r.area[b] = e.area[b]
    BY <1>4, <1>6 DEF Chunk
  <1> HIDE DEF r
  <1>8. InUse(r) = InUse(c) \ {a}
    BY <1>2, <1>6 DEF InUse, EmptiedFields
  <1>9. IsFiniteSet(r.mem_areas) /\ r.num_mem_areas = Cardinality(r.mem_areas)
    <2>1. IsFiniteSet(c.mem_areas) /\ c.num_mem_areas = Cardinality(c.mem_areas)
      BY DEF Pointers
    <2>2. r.mem_areas = c.mem_areas \ {a} /\ r.num_mem_areas = c.num_mem_areas - 1
      BY <1>2, <1>6 DEF EmptiedFields
    <2>3. IsFiniteSet(c.mem_areas \ {a}) /\ Cardinality(c.mem_areas \ {a}) = Cardinality(c.mem_areas) - 1
      BY <1>1, <2>1, FS_RemoveElement
    <2> QED BY <2>1, <2>2, <2>3
  <1>10. r.free_mem_area \in r.mem_areas \cup {NoArea}
    BY <1>1, <1>2, <1>6 DEF Pointers, EmptiedFields
  <1> QED BY <1>2, <1>5, <1>6, <1>7, <1>8, <1>9, <1>10 DEF Left, EmptiedFields, r, e

(* What mc_alloc does with it. *)
LEMMA RetireLeft ==
    ASSUME NEW c \in Chunk, NEW a \in InUse(c), Pointers(c)
    PROVE  Retire(c, a) \in Chunk /\ Retire(c, a).free_atoms = c.free_atoms /\ Left(c, Retire(c, a), a)
  <1>1. CASE c.free_mem_area # NoArea
    BY <1>1, GiveBackLeft DEF Retire
  <1>2. CASE c.free_mem_area = NoArea
    <2> DEFINE e == Emptied(c, a)  r == [e EXCEPT !.free_mem_area = a]
    <2>1. a \in Area /\ a \in c.mem_areas /\ c.mem_areas \subseteq Area
      BY DEF InUse, Chunk
    <2>2. EmptiedFields(c, a, e)
      BY <2>1, EmptiedKinds
    <2>3. Retire(c, a) = r
      BY <1>2 DEF Retire
    <2> HIDE DEF e
    <2>4. e \in Chunk
      BY <2>2 DEF EmptiedFields
    <2>5. r \in Chunk
      BY <2>1, <2>4 DEF Chunk
    <2>6. /\ r.mem_areas = e.mem_areas /\ r.mem_area = e.mem_area
          /\ r.free_mem_area = a /\ r.free_atoms = e.free_atoms
          /\ r.num_mem_areas = e.num_mem_areas
          /\ r.num_marked_areas = e.num_marked_areas /\ r.area = e.area
      BY <2>4 DEF Chunk
    <2> HIDE DEF r
    <2>7. InUse(r) = InUse(c) \ {a}
      BY <1>2, <2>1, <2>2, <2>6, ChunkAssumption DEF InUse, EmptiedFields
    <2>8. IsFiniteSet(r.mem_areas) /\ r.num_mem_areas = Cardinality(r.mem_areas)
      BY <2>2, <2>6 DEF Pointers, EmptiedFields
    <2> QED BY <2>1, <2>2, <2>3, <2>5, <2>6, <2>7, <2>8 DEF Left, EmptiedFields
  <1> QED BY <1>1, <1>2

(* The books without a marked area all of whose atoms are back. *)
LEMMA LeftBooks ==
    ASSUME NEW c \in Chunk, NEW live, NEW F, Books(c, live, F), NEW a \in InUse(c), c.area[a].mark,
           NEW c1, NEW s, Changed(c, c1, a, s), s.mark \in BOOLEAN,
           c1.num_marked_areas = c.num_marked_areas,
           NEW r, Left(c1, r, a),
           NEW F2, Apart(live, F2), F2 \subseteq F, Elsewhere(a, F2, F),
           AtomsOf(a, live \cup F2) = {}
    PROVE  Books(r, live, F2)
  <1>1. InUse(c1) = InUse(c) /\ \A b \in Area : b # a => c1.area[b] = c.area[b]
    <2>1. ChangedTo(c, c1, a, s)
      BY ChangedKinds
    <2> QED BY <2>1 DEF ChangedTo
  <1>2. InUse(c) \subseteq Area
    BY DEF Chunk, InUse
  <1>3. InUse(r) = InUse(c) \ {a} /\ \A b \in Area : b # a => r.area[b] = c.area[b]
    BY <1>1 DEF Left
  <1>4. Marked(r) = Marked(c) \ {a} /\ a \in Marked(c)
    BY <1>2, <1>3 DEF Marked
  <1>5. r.num_marked_areas = Cardinality(Marked(r))
    <2>1. IsFiniteSet(Marked(c)) /\ c.num_marked_areas = Cardinality(Marked(c))
      BY MarkedFinite DEF Books, Pointers
    <2>2. r.num_marked_areas = c.num_marked_areas - 1
      BY DEF Left
    <2> QED BY <1>4, <2>1, <2>2, FS_RemoveElement
  <1>6. r.mem_area \in InUse(r) \cup {NoArea}
    BY <1>3 DEF Left, Changed, Books, Pointers
  <1>7. Pointers(r)
    BY <1>5, <1>6 DEF Left, Pointers
  <1>8. ASSUME NEW m \in live \cup F2
        PROVE  m[1] \in InUse(r) /\ m[2] < r.area[m[1]].index
    <2>1. m \in live \cup F /\ m[1] # a
      BY DEF AtomsOf
    <2>2. m[1] \in InUse(c) /\ m[2] < c.area[m[1]].index
      BY <2>1 DEF Books, Placed
    <2> QED BY <1>2, <1>3, <2>1, <2>2
  <1>9. ASSUME NEW b \in InUse(r) PROVE AreaBooks(r.area[b], b, live, F2)
    <2>1. b # a /\ b \in InUse(c) /\ r.area[b] = c.area[b]
      BY <1>2, <1>3
    <2>2. AtomsOf(b, F2) = AtomsOf(b, F)
      BY <2>1 DEF Elsewhere
    <2>3. AtomsOf(b, live \cup F2) = AtomsOf(b, live) \cup AtomsOf(b, F2)
          /\ AtomsOf(b, live \cup F) = AtomsOf(b, live) \cup AtomsOf(b, F)
      BY DEF AtomsOf
    <2>4. AreaBooks(c.area[b], b, live, F)
      BY <2>1 DEF Books
    <2> QED BY <2>1, <2>2, <2>3, <2>4 DEF AreaBooks
  <1> QED BY <1>7, <1>8, <1>9 DEF Books, Placed

(* What becomes of c1 when an atom was counted back into the area a: a complete area is
   retired in mc_alloc, and given back in mc_clean. *)
BackTo(c1, a, r) ==
    /\ c1.area[a].free # AreaAtoms => r = c1
    /\ c1.area[a].free = AreaAtoms => r = Retire(c1, a) \/ r = GiveBack(Emptied(c1, a), a)

(* An atom of a marked area leaves the free list. *)
LEMMA Returned ==
    ASSUME NEW c \in Chunk, c.free_atoms # << >>, NEW live, NEW F, Books(c, live, F),
           NEW m \in F, c.area[m[1]].mark,
           NEW r, BackTo(CountedBack(c, m[1]), m[1], r)
    PROVE  r \in Chunk /\ r.free_atoms = Tail(c.free_atoms) /\ Books(r, live, F \ {m})
  <1> DEFINE a == m[1]  s == AfterBack(c.area[a])  F2 == F \ {m}
  <1>1. a \in InUse(c) /\ a \in Area
    BY Located
  <1>0. PICK c1 : c1 = CountedBack(c, a)
    OBVIOUS
  <1>2. /\ c1 \in Chunk /\ c1.free_atoms = Tail(c.free_atoms)
        /\ Changed(c, c1, a, s) /\ c1.num_marked_areas = c.num_marked_areas
        /\ s.free = c.area[a].free + 1 /\ s.mark = c.area[a].mark
    BY <1>0, <1>1, BackFields
  <1>3. /\ c.area[a].free \in Int /\ c.area[a].mark \in BOOLEAN /\ c.num_marked_areas \in Int
    BY <1>1, AreaKinds
  <1>4. InUse(c1) = InUse(c) /\ c1.area[a] = s /\ MarksAfter(c, c1, a, s)
    <2>1. s.mark \in BOOLEAN
      BY <1>2, <1>3
    <2>2. Changed(c, c1, a, s)
      BY <1>2
    <2> HIDE DEF s
    <2>3. ChangedTo(c, c1, a, s)
      BY <1>1, <2>1, <2>2, ChangedKinds
    <2> QED BY <2>3 DEF ChangedTo
  <1>5. c1.area[a].free = c.area[a].free + 1
    <2> HIDE DEF s
    <2> QED BY <1>2, <1>4
  <1>6. CASE c.area[a].free + 1 # AreaAtoms
    <2>1. r = c1
      BY <1>0, <1>5, <1>6 DEF BackTo
    <2>2. Books(c1, live, F2)
      BY <1>0, <1>6, Back
    <2> QED BY <1>2, <2>1, <2>2
  <1>7. CASE c.area[a].free + 1 = AreaAtoms
    <2>1. Pointers(c) /\ Apart(live, F) /\ AreaBooks(c.area[a], a, live, F)
      BY <1>1 DEF Books
    <2>2. Pointers(c1)
      <3>1. Marked(c1) = Marked(c)
        <4>1. a \in Marked(c) /\ s.mark
          BY <1>1, <1>2 DEF Marked
        <4> HIDE DEF s, a
        <4> QED BY <1>4, <4>1 DEF MarksAfter
      <3> HIDE DEF s, a
      <3> QED BY <1>2, <1>4, <2>1, <3>1 DEF Pointers, Changed
    <2>3. r = Retire(c1, a) \/ r = GiveBack(Emptied(c1, a), a)
      BY <1>0, <1>5, <1>7 DEF BackTo
    <2>4. a \in InUse(c1)
      BY <1>1, <1>4
    <2>5. r \in Chunk /\ r.free_atoms = c1.free_atoms /\ Left(c1, r, a)
      <3> HIDE DEF a
      <3>1. CASE r = Retire(c1, a)
        BY <1>2, <2>2, <2>4, <3>1, RetireLeft
      <3>2. CASE r = GiveBack(Emptied(c1, a), a)
        BY <1>2, <2>2, <2>4, <3>2, GiveBackLeft
      <3> QED BY <2>3, <3>1, <3>2
    <2>6. LessOne(live, F, a, F2)
      BY <2>1, OneFreeLess
    <2>7. AtomsOf(a, live \cup F2) = {}
      <3>1. c.area[a].free + Cardinality(AtomsOf(a, live \cup F)) = AreaAtoms
        BY <2>1 DEF AreaBooks
      <3>2. /\ Cardinality(AtomsOf(a, live \cup F2)) = Cardinality(AtomsOf(a, live \cup F)) - 1
            /\ IsFiniteSet(live \cup F2)
        BY <2>6 DEF LessOne
      <3>3. IsFiniteSet(live \cup F)
        BY <2>1, FS_Union DEF Apart
      <3>4. Cardinality(AtomsOf(a, live \cup F)) \in Nat
        <4> HIDE DEF a
        <4> QED BY <3>3, CountKinds
      <3>5. Cardinality(AtomsOf(a, live \cup F2)) = 0
        <4> HIDE DEF a, F2
        <4> QED BY <1>3, <1>7, <3>1, <3>2, <3>4
      <3> HIDE DEF a, F2
      <3> QED BY <3>2, <3>5, CountKinds
    <2>8. Apart(live, F2) /\ Elsewhere(a, F2, F) /\ F2 \subseteq F
      BY <2>6 DEF LessOne
    <2>9. s.mark \in BOOLEAN
      BY <1>2, <1>3
    <2> HIDE DEF s, F2
    <2>10. Books(r, live, F2)
      BY <1>1, <1>2, <2>5, <2>7, <2>8, <2>9, LeftBooks
    <2> QED BY <1>2, <2>5, <2>10 DEF F2
  <1> QED BY <1>6, <1>7

(* Free lists: the atoms of one, without its first, and with one more in front or behind. *)
LEMMA ListTail ==
    ASSUME NEW s \in Seq(Atom), s # << >>, IsInjective(s)
    PROVE  /\ Head(s) \in ToSet(s) /\ Head(s) \in Atom
           /\ Tail(s) \in Seq(Atom) /\ IsInjective(Tail(s)) /\ Len(Tail(s)) = Len(s) - 1
           /\ ToSet(Tail(s)) = ToSet(s) \ {Head(s)}
  <1>1. /\ Head(s) \in Atom /\ Tail(s) \in Seq(Atom) /\ Len(Tail(s)) = Len(s) - 1
        /\ \A i \in 1 .. Len(Tail(s)) : Tail(s)[i] = s[i + 1]
    BY HeadTailProperties
  <1>2. Len(s) \in Nat /\ DOMAIN s = 1 .. Len(s) /\ DOMAIN Tail(s) = 1 .. Len(s) - 1 /\ Len(s) # 0
    BY <1>1, LenProperties, EmptySeq
  <1>3. Head(s) = s[1] /\ 1 \in DOMAIN s
    BY <1>2
  <1>4. \A i, j \in DOMAIN s : s[i] = s[j] => i = j
    BY DEF IsInjective
  <1> DEFINE z == Tail(s)
  <1>5. DOMAIN z = 1 .. Len(s) - 1 /\ \A i \in DOMAIN z : z[i] = s[i + 1] /\ i + 1 \in DOMAIN s
    BY <1>1, <1>2
  <1> HIDE DEF z
  <1>6. \A i, j \in DOMAIN z : z[i] = z[j] => i = j
    <2> SUFFICES ASSUME NEW i \in DOMAIN z, NEW j \in DOMAIN z, z[i] = z[j] PROVE i = j
      OBVIOUS
    <2>1. i + 1 = j + 1
      BY <1>4, <1>5
    <2> QED BY <1>2, <1>5, <2>1
  <1>7. ToSet(z) = ToSet(s) \ {Head(s)}
    <2>1. ASSUME NEW x \in ToSet(z) PROVE x \in ToSet(s) \ {Head(s)}
      <3>1. PICK i \in DOMAIN z : x = z[i]
        BY DEF ToSet
      <3>2. x = s[i + 1] /\ i + 1 \in DOMAIN s /\ i + 1 # 1
        BY <1>2, <1>5, <3>1
      <3> QED BY <1>3, <1>4, <3>2 DEF ToSet
    <2>2. ASSUME NEW x \in ToSet(s) \ {Head(s)} PROVE x \in ToSet(z)
      <3>1. PICK i \in DOMAIN s : x = s[i]
        BY DEF ToSet
      <3>2. i # 1
        BY <1>3, <3>1
      <3>3. i - 1 \in DOMAIN z /\ (i - 1) + 1 = i
        BY <1>2, <1>5, <3>2
      <3>4. z[i - 1] = x
        BY <1>5, <3>1, <3>3
      <3> QED BY <3>3, <3>4 DEF ToSet
    <2> QED BY <2>1, <2>2
  <1>8. Head(s) \in ToSet(s)
    BY <1>3 DEF ToSet
  <1> QED BY <1>1, <1>6, <1>7, <1>8 DEF IsInjective, z

(* A list of atoms with another one at its front, *)
LEMMA ListCons ==
    ASSUME NEW s \in Seq(Atom), IsInjective(s), NEW m \in Atom, m \notin ToSet(s)
    PROVE  /\ <<m>> \o s \in Seq(Atom) /\ IsInjective(<<m>> \o s)
           /\ ToSet(<<m>> \o s) = ToSet(s) \cup {m}
  <1> DEFINE z == <<m>> \o s
  <1>1. <<m>> \in Seq(Atom) /\ Len(<<m>>) = 1 /\ <<m>>[1] = m
    OBVIOUS
  <1>2. /\ z \in Seq(Atom) /\ Len(z) = 1 + Len(s)
        /\ \A i \in 1 .. 1 + Len(s) : z[i] = IF i <= 1 THEN <<m>>[i] ELSE s[i - 1]
    BY <1>1, ConcatProperties
  <1>3. Len(s) \in Nat /\ DOMAIN s = 1 .. Len(s) /\ DOMAIN z = 1 .. 1 + Len(s)
    BY <1>2, LenProperties
  <1> HIDE DEF z
  <1>4. z[1] = m /\ 1 \in DOMAIN z
    BY <1>1, <1>2, <1>3
  <1>5. \A i \in DOMAIN z : i # 1 => i - 1 \in DOMAIN s /\ z[i] = s[i - 1]
    BY <1>2, <1>3
  <1>6. \A i \in DOMAIN s : i + 1 \in DOMAIN z /\ i + 1 # 1 /\ z[i + 1] = s[i]
    <2> SUFFICES ASSUME NEW i \in DOMAIN s PROVE i + 1 \in DOMAIN z /\ i + 1 # 1 /\ z[i + 1] = s[i]
      OBVIOUS
    <2>1. i + 1 \in DOMAIN z /\ i + 1 # 1 /\ (i + 1) - 1 = i
      BY <1>3
    <2> QED BY <1>5, <2>1
  <1>7. \A i, j \in DOMAIN s : s[i] = s[j] => i = j
    BY DEF IsInjective
  <1>8. \A i, j \in DOMAIN z : z[i] = z[j] => i = j
    <2> SUFFICES ASSUME NEW i \in DOMAIN z, NEW j \in DOMAIN z, z[i] = z[j] PROVE i = j
      OBVIOUS
    <2>1. \A k \in DOMAIN z : k # 1 => z[k] # m
      BY <1>5 DEF ToSet
    <2>2. CASE i = 1 \/ j = 1
      BY <1>4, <2>1, <2>2
    <2>3. CASE i # 1 /\ j # 1
      <3>1. i - 1 = j - 1
        BY <1>5, <1>7, <2>3
      <3> QED BY <1>3, <3>1
    <2> QED BY <2>2, <2>3
  <1>9. ToSet(z) = ToSet(s) \cup {m}
    <2>1. ASSUME NEW x \in ToSet(z) PROVE x \in ToSet(s) \cup {m}
      <3>1. PICK i \in DOMAIN z : x = z[i]
        BY DEF ToSet
      <3> QED BY <1>4, <1>5, <3>1 DEF ToSet
    <2>2. ASSUME NEW x \in ToSet(s) \cup {m} PROVE x \in ToSet(z)
      <3>1. CASE x = m
        BY <1>4, <3>1 DEF ToSet
      <3>2. CASE x \in ToSet(s)
        <4>1. PICK i \in DOMAIN s : x = s[i]
          BY <3>2 DEF ToSet
        <4> QED BY <1>6, <4>1 DEF ToSet
      <3> QED BY <3>1, <3>2
    <2> QED BY <2>1, <2>2
  <1> QED BY <1>2, <1>8, <1>9 DEF IsInjective, z

(* and at its end. *)
LEMMA ListAppend ==
    ASSUME NEW s \in Seq(Atom), IsInjective(s), NEW m \in Atom, m \notin ToSet(s)
    PROVE  /\ Append(s, m) \in Seq(Atom) /\ IsInjective(Append(s, m))
           /\ ToSet(Append(s, m)) = ToSet(s) \cup {m}
  <1> DEFINE z == Append(s, m)
  <1>1. /\ z \in Seq(Atom) /\ Len(z) = Len(s) + 1 /\ z[Len(s) + 1] = m
        /\ \A i \in 1 .. Len(s) : z[i] = s[i]
    BY AppendProperties
  <1>2. Len(s) \in Nat /\ DOMAIN s = 1 .. Len(s) /\ DOMAIN z = 1 .. Len(s) + 1
    BY <1>1, LenProperties
  <1> HIDE DEF z
  <1>3. \A i, j \in DOMAIN s : s[i] = s[j] => i = j
    BY DEF IsInjective
  <1>4. \A i \in DOMAIN s : s[i] # m
    BY DEF ToSet
  <1>5. \A i, j \in DOMAIN z : z[i] = z[j] => i = j
    BY <1>1, <1>2, <1>3, <1>4
  <1>6. ToSet(z) = ToSet(s) \cup {m}
    BY <1>1, <1>2 DEF ToSet
  <1> QED BY <1>1, <1>5, <1>6 DEF IsInjective, z

(* mc_free_atom keeps the invariant. *)
LEMMA FreeKeeps ==
    ASSUME NEW c, NEW live, ChunkInv(c, live), NEW m \in live
    PROVE  ChunkInv(mc_free_atom(c, m), live \ {m})
  <1> DEFINE r == mc_free_atom(c, m)
  <1>1. c \in Chunk /\ IsInjective(c.free_atoms) /\ Books(c, live, ToSet(c.free_atoms))
    BY DEF ChunkInv
  <1>2. m \in Atom /\ m \notin ToSet(c.free_atoms) /\ c.free_atoms \in Seq(Atom)
    BY <1>1 DEF Books, Apart, Chunk
  <1>3. locateMemArea(c, m) = m[1] /\ m[1] \in Area
    BY <1>1, Located
  <1>4. r \in Chunk /\ r.free_atoms = <<m>> \o c.free_atoms
    BY <1>1, <1>2, <1>3, FreeFields
  <1>5. Books(r, live \ {m}, ToSet(c.free_atoms) \cup {m})
    BY <1>1, Freed
  <1>6. IsInjective(r.free_atoms) /\ ToSet(r.free_atoms) = ToSet(c.free_atoms) \cup {m}
    BY <1>1, <1>2, <1>4, ListCons
  <1> HIDE DEF r
  <1>7. ChunkInv(r, live \ {m})
    BY <1>4, <1>5, <1>6 DEF ChunkInv
  <1> QED BY <1>7 DEF r

(* The first atom of the free list of c. *)
FirstFree(c, live, m) ==
    /\ c.free_atoms # << >> /\ m = Head(c.free_atoms) /\ m \in ToSet(c.free_atoms)
    /\ FirstArea(c) = m[1] /\ m[1] \in InUse(c) /\ m[1] \in Area /\ m \in Atom /\ m \notin live
    /\ Tail(c.free_atoms) \in Seq(Atom) /\ IsInjective(Tail(c.free_atoms))
    /\ Len(Tail(c.free_atoms)) = Len(c.free_atoms) - 1
    /\ ToSet(Tail(c.free_atoms)) = ToSet(c.free_atoms) \ {m}

(* The first free atom is one of an area in use, and nobody else's. *)
LEMMA FirstFreeKinds ==
    ASSUME NEW c, NEW live, ChunkInv(c, live), c.free_atoms # << >>
    PROVE  FirstFree(c, live, Head(c.free_atoms))
  <1> DEFINE m == Head(c.free_atoms)
  <1>1. /\ c \in Chunk /\ IsInjective(c.free_atoms) /\ Books(c, live, ToSet(c.free_atoms))
        /\ c.free_atoms \in Seq(Atom)
    BY DEF ChunkInv, Chunk
  <1>2. /\ m \in ToSet(c.free_atoms) /\ m \in Atom
        /\ Tail(c.free_atoms) \in Seq(Atom) /\ IsInjective(Tail(c.free_atoms))
        /\ Len(Tail(c.free_atoms)) = Len(c.free_atoms) - 1
        /\ ToSet(Tail(c.free_atoms)) = ToSet(c.free_atoms) \ {m}
    BY <1>1, ListTail
  <1>3. locateMemArea(c, m) = m[1] /\ m[1] \in InUse(c) /\ m[1] \in Area
    BY <1>1, <1>2, Located
  <1>4. m \notin live
    BY <1>1, <1>2 DEF Books, Apart
  <1> QED BY <1>2, <1>3, <1>4 DEF FirstFree, FirstArea

(* A step of the loop of mc_alloc drops an atom of a marked area. *)
LEMMA SkipStep ==
    ASSUME NEW c, NEW live, ChunkInv(c, live), ~Usable(c)
    PROVE  /\ ChunkInv(SkipMarked[c], live)
           /\ Len(SkipMarked[c].free_atoms) = Len(c.free_atoms) - 1
  <1> DEFINE m == Head(c.free_atoms)  c1 == CountedBack(c, m[1])  r == SkipMarked[c]
  <1>1. /\ c \in Chunk /\ Books(c, live, ToSet(c.free_atoms))
    BY DEF ChunkInv
  <1>2. c.free_atoms # << >> /\ c.area[FirstArea(c)].mark
    BY DEF Usable
  <1>3. FirstFree(c, live, m)
    BY <1>2, FirstFreeKinds
  <1>4. m \in ToSet(c.free_atoms) /\ FirstArea(c) = m[1] /\ c.area[m[1]].mark
    BY <1>2, <1>3 DEF FirstFree
  <1>5. r = IF c1.area[m[1]].free = AreaAtoms THEN Retire(c1, m[1]) ELSE c1
    BY <1>1, <1>4 DEF SkipMarked
  <1> HIDE DEF r
  <1>6. r \in Chunk /\ r.free_atoms = Tail(c.free_atoms) /\ Books(r, live, ToSet(c.free_atoms) \ {m})
    <2>1. BackTo(CountedBack(c, m[1]), m[1], r)
      BY <1>5 DEF BackTo
    <2> HIDE DEF m
    <2> QED BY <1>1, <1>2, <1>4, <2>1, Returned
  <1>7. ChunkInv(r, live) /\ Len(r.free_atoms) = Len(c.free_atoms) - 1
    <2> HIDE DEF m
    <2> QED BY <1>3, <1>6 DEF ChunkInv, FirstFree
  <1> QED BY <1>7 DEF r

(* After k steps of the loop it is done, or k atoms are gone. *)
Skipping(live, n) ==
    [k \in Nat |-> {c \in Chunk : ChunkInv(c, live) /\ (Usable(c) \/ Len(c.free_atoms) <= n - k)}]

(* The loop of mc_alloc keeps the books and ends at an atom that can be used. *)
LEMMA SkippedKeeps ==
    ASSUME NEW c, NEW live, ChunkInv(c, live)
    PROVE  ChunkInv(Skipped(c), live) /\ Usable(Skipped(c))
  <1> DEFINE n == Len(c.free_atoms)  P == Skipping(live, n)
  <1>1. c \in Chunk /\ n \in Nat
    BY LenProperties DEF ChunkInv, Chunk
  <1>2. c \in P[0]
    BY <1>1 DEF Skipping
  <1>3. ASSUME NEW k \in Nat, NEW d \in P[k] PROVE SkipMarked[d] \in P[k + 1]
    <2>1. d \in Chunk /\ ChunkInv(d, live) /\ (Usable(d) \/ Len(d.free_atoms) <= n - k)
      BY <1>3 DEF Skipping
    <2>2. CASE Usable(d)
      <3>1. SkipMarked[d] = d
        BY <2>1, <2>2 DEF SkipMarked
      <3> QED BY <2>1, <2>2, <3>1 DEF Skipping
    <2>3. CASE ~Usable(d)
      <3> DEFINE r == SkipMarked[d]
      <3>1. ChunkInv(r, live) /\ Len(r.free_atoms) = Len(d.free_atoms) - 1
        BY <2>1, <2>3, SkipStep
      <3>2. Len(d.free_atoms) \in Nat /\ Len(d.free_atoms) <= n - k
        BY <2>1, <2>3, LenProperties DEF Chunk
      <3> HIDE DEF r, n
      <3>3. Len(r.free_atoms) <= n - (k + 1)
        BY <1>1, <3>1, <3>2
      <3>4. r \in Chunk
        BY <3>1 DEF ChunkInv
      <3> QED BY <3>1, <3>3, <3>4 DEF Skipping, r
    <2> QED BY <2>2, <2>3
  <1> HIDE DEF P
  <1>4. Skipped(c) \in P[n]
    BY <1>1, <1>2, <1>3, IteratedIn DEF Skipped
  <1>5. ChunkInv(Skipped(c), live) /\ (Usable(Skipped(c)) \/ Len(Skipped(c).free_atoms) <= n - n)
    BY <1>1, <1>4 DEF P, Skipping
  <1>6. Skipped(c).free_atoms \in Seq(Atom)
    BY <1>5 DEF ChunkInv, Chunk
  <1>7. Len(Skipped(c).free_atoms) <= 0 => Usable(Skipped(c))
    <2>1. Len(Skipped(c).free_atoms) <= 0 => Skipped(c).free_atoms = << >>
      BY <1>6, EmptySeq
    <2> QED BY <2>1 DEF Usable
  <1>8. n - n = 0
    <2> HIDE DEF n
    <2> QED BY <1>1
  <1> QED BY <1>5, <1>7, <1>8

(* The state of the area of an atom that is taken from the free list, and of one from which
   an atom is carved. *)
AfterReuse(s) == [s EXCEPT !.allocated = @ + 1]
AfterCarve(s) == [index |-> s.index + 1, free |-> s.free - 1, allocated |-> s.allocated + 1, mark |-> s.mark]

(* A chunk with another free list and other areas. *)
LEMMA ChunkAtoms ==
    ASSUME NEW c \in Chunk, NEW fs \in Seq(Atom),
           NEW ar \in [Area -> [index : Nat, free : Int, allocated : Int, mark : BOOLEAN]]
    PROVE  [c EXCEPT !.free_atoms = fs, !.area = ar] \in Chunk
  BY DEF Chunk

(* The chunk r that mc_alloc leaves is c with another free list and another state of a. *)
Taken(c, r, a, s, fs) ==
    /\ r \in Chunk /\ r.free_atoms = fs /\ Changed(c, r, a, s)
    /\ r.num_marked_areas = c.num_marked_areas

(* What mc_alloc writes when it takes the first free atom, *)
LEMMA ReuseFields ==
    ASSUME NEW c \in Chunk, c.free_atoms # << >>, NEW a \in Area
    PROVE  Taken(c, Reuse(c, a).c, a, AfterReuse(c.area[a]), Tail(c.free_atoms))
  <1> DEFINE r == Reuse(c, a).c  ar == [c.area EXCEPT ![a].allocated = @ + 1]
  <1>1. /\ c.area[a] \in [index : Nat, free : Int, allocated : Int, mark : BOOLEAN]
        /\ c.area \in [Area -> [index : Nat, free : Int, allocated : Int, mark : BOOLEAN]]
        /\ c.free_atoms \in Seq(Atom)
    BY AreaKinds DEF Chunk
  <1>2. Tail(c.free_atoms) \in Seq(Atom)
    BY <1>1, HeadTailProperties
  <1>3. ar \in [Area -> [index : Nat, free : Int, allocated : Int, mark : BOOLEAN]]
    BY <1>1
  <1>4. r = [c EXCEPT !.free_atoms = Tail(c.free_atoms), !.area = ar]
    BY DEF Chunk, Reuse
  <1>5. ar = [c.area EXCEPT ![a] = AfterReuse(c.area[a])]
    BY <1>1 DEF AfterReuse
  <1> HIDE DEF ar, r
  <1>6. r \in Chunk
    BY <1>2, <1>3, <1>4, ChunkAtoms
  <1>7. /\ r.free_atoms = Tail(c.free_atoms) /\ r.area = ar /\ r.num_marked_areas = c.num_marked_areas
        /\ r.mem_areas = c.mem_areas /\ r.mem_area = c.mem_area /\ r.free_mem_area = c.free_mem_area
        /\ r.num_mem_areas = c.num_mem_areas
    BY <1>4 DEF Chunk
  <1> QED BY <1>5, <1>6, <1>7 DEF Changed, Taken, r

(* and when it carves one out of the current area. *)
LEMMA CarveFields ==
    ASSUME NEW c \in Chunk, NEW a \in Area
    PROVE  Taken(c, Carve(c, a).c, a, AfterCarve(c.area[a]), c.free_atoms)
  <1> DEFINE r == Carve(c, a).c
             ar == [c.area EXCEPT ![a] = AfterCarve(c.area[a])]
  <1>1. /\ c.area[a] \in [index : Nat, free : Int, allocated : Int, mark : BOOLEAN]
        /\ c.area \in [Area -> [index : Nat, free : Int, allocated : Int, mark : BOOLEAN]]
        /\ c.free_atoms \in Seq(Atom)
    BY AreaKinds DEF Chunk
  <1>3. ar \in [Area -> [index : Nat, free : Int, allocated : Int, mark : BOOLEAN]]
    <2>1. AfterCarve(c.area[a]) \in [index : Nat, free : Int, allocated : Int, mark : BOOLEAN]
      BY <1>1 DEF AfterCarve
    <2> QED BY <1>1, <2>1
  <1>4. r = [c EXCEPT !.free_atoms = c.free_atoms, !.area = ar]
    <2> DEFINE x == c.area[a]  x1 == [x EXCEPT !.index = @ + 1]  x2 == [x1 EXCEPT !.free = @ - 1]
               x3 == [x2 EXCEPT !.allocated = @ + 1]
               g1 == [c.area EXCEPT ![a].index = @ + 1]  g2 == [g1 EXCEPT ![a].free = @ - 1]
    <2>1. g1 = [c.area EXCEPT ![a] = x1]
      BY <1>1
    <2>2. g2 = [c.area EXCEPT ![a] = x2]
      BY <1>1, <2>1
    <2>3. [g2 EXCEPT ![a].allocated = @ + 1] = [c.area EXCEPT ![a] = x3]
      BY <1>1, <2>2
    <2>4. x3 = AfterCarve(x)
      <3>1. x = [index |-> x.index, free |-> x.free, allocated |-> x.allocated, mark |-> x.mark]
        BY <1>1
      <3>2. x1 = [index |-> x.index + 1, free |-> x.free, allocated |-> x.allocated, mark |-> x.mark]
        BY <3>1
      <3> HIDE DEF x1, x
      <3>3. x2 = [index |-> x.index + 1, free |-> x.free - 1, allocated |-> x.allocated, mark |-> x.mark]
        BY <3>2
      <3> HIDE DEF x2
      <3> QED BY <3>3 DEF AfterCarve, x
    <2>5. [[[c.area EXCEPT ![a].index = @ + 1] EXCEPT ![a].free = @ - 1] EXCEPT ![a].allocated = @ + 1] = ar
      BY <2>3, <2>4
    <2> QED BY <1>1, <2>5 DEF Chunk, Carve
  <1> HIDE DEF ar, r
  <1>6. r \in Chunk
    BY <1>1, <1>3, <1>4, ChunkAtoms
  <1>7. /\ r.free_atoms = c.free_atoms /\ r.area = ar /\ r.num_marked_areas = c.num_marked_areas
        /\ r.mem_areas = c.mem_areas /\ r.mem_area = c.mem_area /\ r.free_mem_area = c.free_mem_area
        /\ r.num_mem_areas = c.num_mem_areas
    BY <1>4 DEF Chunk
  <1> QED BY <1>6, <1>7 DEF Changed, Taken, r, ar

(* An atom m of the unmarked area a comes into use: it was free, or is carved now. *)
LEMMA TakenBooks ==
    ASSUME NEW c \in Chunk, NEW live, NEW F, Apart(live, F), NEW a \in InUse(c), BooksBut(c, a, live, F),
           ~c.area[a].mark, NEW r, NEW s, NEW fs, Taken(c, r, a, s, fs),
           s.index \in Nat, s.mark \in BOOLEAN, ~s.mark,
           s.index <= AreaAtoms, s.allocated = Cardinality(AtomsOf(a, live)) + 1,
           NEW m \in Atom, m \notin live, m[1] = a, NEW F2, Apart(live, F2), m \notin F2,
           Elsewhere(a, F2, F),
           \A x \in AtomsOf(a, live \cup {m} \cup F2) : x[2] < s.index,
           s.free + Cardinality(AtomsOf(a, live \cup {m} \cup F2)) = AreaAtoms
    PROVE  Books(r, live \cup {m}, F2)
  <1> DEFINE live2 == live \cup {m}
  <1>1. Changed(c, r, a, s) /\ r.num_marked_areas = c.num_marked_areas
    BY DEF Taken
  <1>2. Apart(live2, F2)
    BY FS_AddElement DEF Apart
  <1>3. Elsewhere(a, live2, live)
    BY DEF Elsewhere, AtomsOf
  <1>4. IsFiniteSet(live) /\ Cardinality(AtomsOf(a, live)) \in Nat
    BY CountKinds DEF Apart
  <1>5. Cardinality(AtomsOf(a, live2)) = Cardinality(AtomsOf(a, live)) + 1
    BY <1>4, CountAdd
  <1>6. s.allocated # 0
    BY <1>4
  <1>7. AreaBooks(s, a, live2, F2)
    BY <1>5, <1>6 DEF AreaBooks
  <1>8. r.num_marked_areas = Cardinality(Marked(r))
    <2>1. ChangedTo(c, r, a, s)
      BY <1>1, ChangedKinds
    <2>2. Marked(r) = Marked(c) \ {a}
      BY <2>1 DEF ChangedTo, MarksAfter
    <2>3. Marked(r) = Marked(c)
      BY <2>2 DEF Marked
    <2> QED BY <1>1, <2>3 DEF BooksBut, Pointers
  <1> HIDE DEF live2
  <1>9. (\A x \in AtomsOf(a, live2 \cup F2) : x[2] < s.index) => Books(r, live2, F2)
    BY <1>1, <1>2, <1>3, <1>7, <1>8, ChangedBooks
  <1> QED BY <1>9 DEF live2

(* What mc_alloc did: r.mem came into use, and r.c is the chunk now. *)
Allocated(r, live) == r.mem \in Atom \ live /\ ChunkInv(r.c, live \cup {r.mem})

(* The first free atom is used again. *)
LEMMA ReuseKeeps ==
    ASSUME NEW c, NEW live, ChunkInv(c, live), c.free_atoms # << >>, ~c.area[FirstArea(c)].mark
    PROVE  Allocated(Reuse(c, FirstArea(c)), live)
  <1> DEFINE m == Head(c.free_atoms)  a == m[1]  F == ToSet(c.free_atoms)  F2 == F \ {m}
             r == Reuse(c, a).c  s == AfterReuse(c.area[a])
  <1>1. c \in Chunk /\ Books(c, live, F) /\ Apart(live, F)
    BY DEF ChunkInv, Books
  <1>2. FirstFree(c, live, m)
    BY FirstFreeKinds
  <1>3. /\ FirstArea(c) = a /\ m \in F /\ a \in InUse(c) /\ a \in Area /\ m \in Atom /\ m \notin live
        /\ IsInjective(Tail(c.free_atoms)) /\ ToSet(Tail(c.free_atoms)) = F2
    BY <1>2 DEF FirstFree
  <1>4. Taken(c, r, a, s, Tail(c.free_atoms))
    BY <1>1, <1>3, ReuseFields
  <1>5. BooksBut(c, a, live, F) /\ AreaBooks(c.area[a], a, live, F)
    BY <1>1, <1>3 DEF Books, BooksBut, Placed
  <1>6. ~c.area[a].mark
    BY <1>3
  <1>7. /\ s.index = c.area[a].index /\ s.free = c.area[a].free
        /\ s.allocated = c.area[a].allocated + 1 /\ s.mark = c.area[a].mark
        /\ s.index \in Nat /\ s.mark \in BOOLEAN
    BY <1>1, <1>3, AreaKinds DEF AfterReuse
  <1>8. LessOne(live, F, a, F2)
    BY <1>1, <1>3, OneFreeLess
  <1>9. live \cup {m} \cup F2 = live \cup F
    BY <1>3
  <1>10. Apart(live, F2) /\ Elsewhere(a, F2, F) /\ m \notin F2
    BY <1>8 DEF LessOne
  <1>11. /\ \A x \in AtomsOf(a, live \cup {m} \cup F2) : x[2] < s.index
         /\ s.free + Cardinality(AtomsOf(a, live \cup {m} \cup F2)) = AreaAtoms
         /\ s.index <= AreaAtoms /\ s.allocated = Cardinality(AtomsOf(a, live)) + 1
    BY <1>1, <1>5, <1>7, <1>9 DEF Books, Placed, AtomsOf, AreaBooks
  <1>12. m[1] = a
    OBVIOUS
  <1>13. Reuse(c, a).mem = m
    BY DEF Reuse
  <1> HIDE DEF m, a, F, F2, r, s
  <1>14. Books(r, live \cup {m}, F2)
    BY <1>1, <1>3, <1>4, <1>5, <1>6, <1>7, <1>10, <1>11, <1>12, TakenBooks
  <1>15. ChunkInv(r, live \cup {m})
    BY <1>3, <1>4, <1>14 DEF ChunkInv, Taken
  <1> QED BY <1>3, <1>13, <1>15 DEF Allocated, r

(* The current area of r is a, which was not in use in c. *)
Opened(c, r, a) ==
    /\ r \in Chunk /\ r.free_atoms = c.free_atoms
    /\ a \in Area /\ a \notin InUse(c) /\ r.mem_area = a /\ InUse(r) = InUse(c) \cup {a}
    /\ r.area = [c.area EXCEPT ![a] = FreshArea]
    /\ IsFiniteSet(r.mem_areas) /\ r.num_mem_areas = Cardinality(r.mem_areas)
    /\ r.free_mem_area \in r.mem_areas \cup {NoArea}
    /\ r.num_marked_areas = c.num_marked_areas

(* A chunk with another current area in its fresh state. *)
LEMMA ChunkCurrent ==
    ASSUME NEW c \in Chunk, NEW a \in Area
    PROVE  LET r == [c EXCEPT !.mem_area = a, !.area[a] = FreshArea]
           IN /\ r \in Chunk /\ r.mem_area = a /\ r.area = [c.area EXCEPT ![a] = FreshArea]
              /\ r.mem_areas = c.mem_areas /\ r.free_mem_area = c.free_mem_area
              /\ r.free_atoms = c.free_atoms /\ r.num_mem_areas = c.num_mem_areas
              /\ r.num_marked_areas = c.num_marked_areas
  <1> DEFINE ar == [c.area EXCEPT ![a] = FreshArea]  r == [c EXCEPT !.mem_area = a, !.area = ar]
  <1>1. FreshArea \in [index : Nat, free : Int, allocated : Int, mark : BOOLEAN]
    BY ChunkAssumption DEF FreshArea
  <1>2. c.area \in [Area -> [index : Nat, free : Int, allocated : Int, mark : BOOLEAN]]
    BY DEF Chunk
  <1>3. ar \in [Area -> [index : Nat, free : Int, allocated : Int, mark : BOOLEAN]]
    BY <1>1, <1>2
  <1>4. [c EXCEPT !.mem_area = a, !.area[a] = FreshArea] = r
    BY DEF Chunk
  <1>5. r \in Chunk
    <2> HIDE DEF ar
    <2> QED BY <1>3 DEF Chunk
  <1>6. /\ r.mem_area = a /\ r.area = ar /\ r.mem_areas = c.mem_areas
        /\ r.free_mem_area = c.free_mem_area /\ r.free_atoms = c.free_atoms
        /\ r.num_mem_areas = c.num_mem_areas /\ r.num_marked_areas = c.num_marked_areas
    <2> HIDE DEF ar
    <2> QED BY DEF Chunk
  <1> QED BY <1>4, <1>5, <1>6

(* The reserve, or an area that the system has not given yet, is opened. *)
LEMMA NextAreaOpened ==
    ASSUME NEW c \in Chunk, Pointers(c), c.free_mem_area # NoArea \/ c.mem_areas # Area
    PROVE  \E a : Opened(c, NextArea(c), a)
  <1>1. /\ IsFiniteSet(c.mem_areas) /\ c.num_mem_areas = Cardinality(c.mem_areas)
        /\ c.free_mem_area \in c.mem_areas \cup {NoArea} /\ c.mem_areas \subseteq Area
        /\ c.num_mem_areas \in Int
    BY DEF Pointers, Chunk
  <1>2. CASE c.free_mem_area # NoArea
    <2> DEFINE a == c.free_mem_area  e == [c EXCEPT !.free_mem_area = NoArea]
               r == [e EXCEPT !.mem_area = a, !.area[a] = FreshArea]
    <2>1. NextArea(c) = r
      BY <1>2 DEF NextArea
    <2>2. a \in Area /\ a \in c.mem_areas
      BY <1>1, <1>2
    <2>3. /\ e \in Chunk /\ e.free_mem_area = NoArea /\ e.mem_areas = c.mem_areas /\ e.area = c.area
          /\ e.free_atoms = c.free_atoms /\ e.num_mem_areas = c.num_mem_areas
          /\ e.num_marked_areas = c.num_marked_areas
      BY DEF Chunk
    <2> HIDE DEF e
    <2>4. /\ r \in Chunk /\ r.mem_area = a /\ r.area = [e.area EXCEPT ![a] = FreshArea]
          /\ r.mem_areas = e.mem_areas /\ r.free_mem_area = e.free_mem_area
          /\ r.free_atoms = e.free_atoms /\ r.num_mem_areas = e.num_mem_areas
          /\ r.num_marked_areas = e.num_marked_areas
      BY <2>2, <2>3, ChunkCurrent
    <2> HIDE DEF r
    <2>5. a \notin InUse(c) /\ InUse(r) = InUse(c) \cup {a}
      BY <1>1, <2>2, <2>3, <2>4, ChunkAssumption DEF InUse
    <2>6. Opened(c, r, a)
      BY <1>1, <2>2, <2>3, <2>4, <2>5 DEF Opened
    <2> QED BY <2>1, <2>6
  <1>3. CASE c.free_mem_area = NoArea
    <2> DEFINE a == CHOOSE x \in Area \ c.mem_areas : TRUE
               S == c.mem_areas \cup {a}  n == c.num_mem_areas + 1
               e == [c EXCEPT !.num_mem_areas = @ + 1, !.mem_areas = @ \cup {a}]
               r == [e EXCEPT !.mem_area = a, !.area[a] = FreshArea]
    <2>1. NextArea(c) = r
      BY <1>3 DEF NextArea
    <2>2. a \in Area /\ a \notin c.mem_areas
      <3>1. \E x \in Area \ c.mem_areas : TRUE
        BY <1>1, <1>3
      <3> QED BY <3>1
    <2> HIDE DEF a
    <2>3. /\ e \in Chunk /\ e.free_mem_area = c.free_mem_area /\ e.mem_areas = S /\ e.area = c.area
          /\ e.free_atoms = c.free_atoms /\ e.num_mem_areas = n
          /\ e.num_marked_areas = c.num_marked_areas
      <3>1. S \in SUBSET Area /\ n \in Int
        BY <1>1, <2>2
      <3>2. e = [c EXCEPT !.num_mem_areas = n, !.mem_areas = S]
        BY DEF Chunk
      <3> HIDE DEF S, n
      <3> QED BY <3>1, <3>2 DEF Chunk
    <2> HIDE DEF e
    <2>4. /\ r \in Chunk /\ r.mem_area = a /\ r.area = [e.area EXCEPT ![a] = FreshArea]
          /\ r.mem_areas = e.mem_areas /\ r.free_mem_area = e.free_mem_area
          /\ r.free_atoms = e.free_atoms /\ r.num_mem_areas = e.num_mem_areas
          /\ r.num_marked_areas = e.num_marked_areas
      BY <2>2, <2>3, ChunkCurrent
    <2> HIDE DEF r
    <2>5. a \notin InUse(c) /\ InUse(r) = InUse(c) \cup {a}
      BY <1>3, <2>2, <2>3, <2>4, ChunkAssumption DEF InUse
    <2>6. IsFiniteSet(r.mem_areas) /\ r.num_mem_areas = Cardinality(r.mem_areas)
      BY <1>1, <2>2, <2>3, <2>4, FS_AddElement
    <2>7. Opened(c, r, a)
      BY <1>1, <2>2, <2>3, <2>4, <2>5, <2>6 DEF Opened
    <2> QED BY <2>1, <2>7
  <1> QED BY <1>2, <1>3

(* The current area a of c has room for one atom more. *)
Roomy(c, live, a) ==
    /\ c \in Chunk /\ c.free_atoms = << >> /\ Apart(live, {})
    /\ a = c.mem_area /\ a \in InUse(c) /\ a \in Area /\ BooksBut(c, a, live, {})
    /\ ~c.area[a].mark /\ c.area[a].index + 1 <= AreaAtoms
    /\ c.area[a].allocated = Cardinality(AtomsOf(a, live))
    /\ c.area[a].free + Cardinality(AtomsOf(a, live)) = AreaAtoms
    /\ \A m \in AtomsOf(a, live) : m[2] < c.area[a].index

(* An area that was opened has room, *)
LEMMA OpenedRoomy ==
    ASSUME NEW c, NEW live, ChunkInv(c, live), c.free_atoms = << >>, NEW r, NEW a, Opened(c, r, a)
    PROVE  Roomy(r, live, a)
  <1>1. ToSet(c.free_atoms) = {}
    BY DEF ToSet
  <1>2. c \in Chunk /\ Books(c, live, {})
    BY <1>1 DEF ChunkInv
  <1>3. Apart(live, {}) /\ IsFiniteSet(live) /\ Pointers(c)
    BY <1>2 DEF Books, Apart
  <1>4. /\ r \in Chunk /\ r.free_atoms = c.free_atoms
        /\ a \in Area /\ a \notin InUse(c) /\ r.mem_area = a /\ InUse(r) = InUse(c) \cup {a}
        /\ r.area = [c.area EXCEPT ![a] = FreshArea] /\ r.num_marked_areas = c.num_marked_areas
    BY DEF Opened
  <1>5. DOMAIN c.area = Area /\ InUse(c) \subseteq Area
    BY <1>2 DEF Chunk, InUse
  <1>6. r.area[a] = FreshArea /\ \A b \in InUse(c) : b # a /\ r.area[b] = c.area[b]
    BY <1>4, <1>5
  <1>7. AtomsOf(a, live) = {}
    BY <1>2, <1>4 DEF Books, Placed, AtomsOf
  <1>8. Cardinality(AtomsOf(a, live)) = 0
    BY <1>7, FS_EmptySet
  <1>9. /\ ~r.area[a].mark /\ r.area[a].index + 1 <= AreaAtoms
        /\ r.area[a].allocated = 0 /\ r.area[a].free + 0 = AreaAtoms
    BY <1>6, ChunkAssumption DEF FreshArea
  <1>10. Marked(r) = Marked(c)
    BY <1>4, <1>6, <1>9 DEF Marked
  <1>11. Pointers(r)
    <2>1. r.num_marked_areas = Cardinality(Marked(r))
      BY <1>3, <1>4, <1>10 DEF Pointers
    <2> QED BY <1>4, <2>1 DEF Pointers, Opened
  <1>12. ASSUME NEW m \in live PROVE m[1] \in InUse(r) /\ m[2] < r.area[m[1]].index
    <2>1. m[1] \in InUse(c) /\ m[2] < c.area[m[1]].index
      BY <1>2 DEF Books, Placed
    <2> QED BY <1>4, <1>6, <2>1
  <1>13. ASSUME NEW b \in InUse(r), b # a PROVE AreaBooks(r.area[b], b, live, {})
    <2>1. b \in InUse(c) /\ r.area[b] = c.area[b]
      BY <1>4, <1>6, <1>13
    <2> QED BY <1>2, <2>1 DEF Books
  <1>14. BooksBut(r, a, live, {})
    BY <1>11, <1>12, <1>13 DEF BooksBut
  <1> QED BY <1>3, <1>4, <1>7, <1>8, <1>9, <1>14 DEF Roomy

(* and so does the current one when mc_alloc finds room in it: it is not marked, because a
   marked area has atoms on the free list. *)
LEMMA CurrentRoomy ==
    ASSUME NEW c, NEW live, ChunkInv(c, live), c.free_atoms = << >>, ~NoRoom(c)
    PROVE  Roomy(c, live, c.mem_area)
  <1> DEFINE a == c.mem_area
  <1>1. ToSet(c.free_atoms) = {}
    BY DEF ToSet
  <1>2. c \in Chunk /\ Books(c, live, {})
    BY <1>1 DEF ChunkInv
  <1>3. Apart(live, {}) /\ Pointers(c)
    BY <1>2 DEF Books
  <1>4. a \in InUse(c) /\ a \in Area
    BY <1>2, <1>3 DEF Pointers, NoRoom, InUse, Chunk
  <1>5. AreaBooks(c.area[a], a, live, {}) /\ BooksBut(c, a, live, {})
    BY <1>2, <1>4 DEF Books, BooksBut, Placed
  <1>6. AtomsOf(a, {}) = {} /\ live \cup {} = live
    BY DEF AtomsOf
  <1>7. /\ ~c.area[a].mark
        /\ c.area[a].allocated = Cardinality(AtomsOf(a, live))
        /\ c.area[a].free + Cardinality(AtomsOf(a, live)) = AreaAtoms
    BY <1>5, <1>6 DEF AreaBooks
  <1>8. c.area[a].index + 1 <= AreaAtoms
    <2>1. c.area[a].index \in Nat /\ AreaAtoms \in Nat
      BY <1>2, <1>4, AreaKinds, ChunkAssumption
    <2>2. ~(c.area[a].index + 1 > AreaAtoms)
      BY DEF NoRoom
    <2> QED BY <2>1, <2>2
  <1>9. \A m \in AtomsOf(a, live) : m[2] < c.area[a].index
    BY <1>2 DEF Books, Placed, AtomsOf
  <1> QED BY <1>2, <1>3, <1>4, <1>5, <1>7, <1>8, <1>9 DEF Roomy

(* The next atom of the current area. *)
LEMMA CarveKeeps ==
    ASSUME NEW c, NEW live, NEW a, Roomy(c, live, a)
    PROVE  Allocated(Carve(c, a), live)
  <1> DEFINE k == c.area[a].index  m == <<a, k>>  r == Carve(c, a).c  s == AfterCarve(c.area[a])
  <1>1. /\ c \in Chunk /\ c.free_atoms = << >> /\ Apart(live, {}) /\ a \in InUse(c) /\ a \in Area
        /\ BooksBut(c, a, live, {}) /\ ~c.area[a].mark /\ k + 1 <= AreaAtoms
        /\ c.area[a].allocated = Cardinality(AtomsOf(a, live))
        /\ c.area[a].free + Cardinality(AtomsOf(a, live)) = AreaAtoms
        /\ \A x \in AtomsOf(a, live) : x[2] < k
    BY DEF Roomy
  <1>2. /\ k \in Nat /\ c.area[a].free \in Int /\ c.area[a].allocated \in Int
        /\ c.area[a].mark \in BOOLEAN
    BY <1>1, AreaKinds
  <1>3. /\ s.index = k + 1 /\ s.free = c.area[a].free - 1
        /\ s.allocated = c.area[a].allocated + 1 /\ s.mark = c.area[a].mark
    BY DEF AfterCarve
  <1>4. Taken(c, r, a, s, << >>)
    BY <1>1, CarveFields
  <1>5. m \in Atom /\ m[1] = a /\ m[2] = k /\ m \notin {}
    BY <1>1, <1>2 DEF Atom
  <1>6. \A x \in AtomsOf(a, live) : x[2] \in Nat /\ x[2] # k
    BY <1>1, <1>2 DEF Apart, Atom, AtomsOf
  <1>7. m \notin live
    BY <1>5, <1>6 DEF AtomsOf
  <1>8. live \cup {m} \cup {} = live \cup {m} /\ Elsewhere(a, {}, {})
    BY DEF Elsewhere
  <1>9. AtomsOf(a, live \cup {m}) = AtomsOf(a, live) \cup {m}
    BY <1>5 DEF AtomsOf
  <1>10. \A x \in AtomsOf(a, live \cup {m}) : x[2] < s.index
    <2> SUFFICES ASSUME NEW x \in AtomsOf(a, live \cup {m}) PROVE x[2] < s.index
      OBVIOUS
    <2>1. CASE x = m
      BY <1>2, <1>3, <1>5, <2>1
    <2>2. CASE x # m
      <3>1. x \in AtomsOf(a, live)
        BY <1>9, <2>2
      <3>2. x[2] \in Nat /\ x[2] < k
        BY <1>1, <1>6, <3>1
      <3> HIDE DEF s, k
      <3> QED BY <1>2, <1>3, <3>2
    <2> QED BY <2>1, <2>2
  <1>11. Cardinality(AtomsOf(a, live \cup {m})) = Cardinality(AtomsOf(a, live)) + 1
         /\ Cardinality(AtomsOf(a, live)) \in Nat
    <2>1. IsFiniteSet(live)
      BY <1>1 DEF Apart
    <2> QED BY <1>5, <1>7, <2>1, CountAdd, CountKinds
  <1>12. AreaAtoms \in Int
    BY ChunkAssumption
  <1>13. s.free + Cardinality(AtomsOf(a, live \cup {m})) = AreaAtoms
    <2> HIDE DEF s, m, k
    <2> QED BY <1>1, <1>2, <1>3, <1>11, <1>12
  <1>14. /\ s.index \in Nat /\ s.mark \in BOOLEAN /\ ~s.mark /\ s.index <= AreaAtoms
         /\ s.allocated = Cardinality(AtomsOf(a, live)) + 1
    <2> HIDE DEF s, m, k
    <2> QED BY <1>1, <1>2, <1>3
  <1>15. Carve(c, a).mem = m
    BY DEF Carve
  <1> HIDE DEF s, m, k, r
  <1>16. Books(r, live \cup {m}, {})
    BY <1>1, <1>4, <1>5, <1>7, <1>8, <1>10, <1>13, <1>14, TakenBooks
  <1>17. r \in Chunk /\ r.free_atoms = << >>
    BY <1>4 DEF Taken
  <1>18. IsInjective(r.free_atoms) /\ ToSet(r.free_atoms) = {}
    BY <1>17 DEF IsInjective, ToSet
  <1>19. ChunkInv(r, live \cup {m})
    BY <1>16, <1>17, <1>18 DEF ChunkInv
  <1> QED BY <1>5, <1>7, <1>15, <1>19 DEF Allocated, r

(* mc_alloc keeps the invariant; its atom was not in use. *)
LEMMA AllocKeeps ==
    ASSUME NEW chunk, NEW live, ChunkInv(chunk, live), ~Exhausted(chunk)
    PROVE  Allocated(mc_alloc(chunk), live)
  <1> DEFINE c == Skipped(chunk)  c1 == IF NoRoom(c) THEN NextArea(c) ELSE c
  <1>1. ChunkInv(c, live) /\ Usable(c)
    BY SkippedKeeps
  <1>2. ~(c.free_atoms = << >> /\ NoRoom(c) /\ c.free_mem_area = NoArea /\ c.mem_areas = Area)
    BY DEF Exhausted
  <1>3. mc_alloc(chunk) = IF c.free_atoms # << >> THEN Reuse(c, FirstArea(c)) ELSE Carve(c1, c1.mem_area)
    BY DEF mc_alloc
  <1> HIDE DEF c
  <1>4. CASE c.free_atoms # << >>
    <2>1. ~c.area[FirstArea(c)].mark
      BY <1>1, <1>4 DEF Usable
    <2>2. Allocated(Reuse(c, FirstArea(c)), live)
      BY <1>1, <1>4, <2>1, ReuseKeeps
    <2> QED BY <1>3, <1>4, <2>2
  <1>5. CASE c.free_atoms = << >> /\ NoRoom(c)
    <2>1. c \in Chunk /\ Pointers(c)
      BY <1>1 DEF ChunkInv, Books
    <2>2. PICK a : Opened(c, NextArea(c), a)
      BY <1>2, <1>5, <2>1, NextAreaOpened
    <2>3. Roomy(NextArea(c), live, a)
      BY <1>1, <1>5, <2>2, OpenedRoomy
    <2>4. a = c1.mem_area /\ c1 = NextArea(c)
      BY <1>5, <2>3 DEF Roomy
    <2>5. Allocated(Carve(NextArea(c), a), live)
      BY <2>3, CarveKeeps
    <2> QED BY <1>3, <1>5, <2>4, <2>5
  <1>6. CASE c.free_atoms = << >> /\ ~NoRoom(c)
    <2>1. Roomy(c, live, c.mem_area)
      BY <1>1, <1>6, CurrentRoomy
    <2>2. Allocated(Carve(c, c.mem_area), live)
      BY <2>1, CarveKeeps
    <2> QED BY <1>3, <1>6, <2>2
  <1> QED BY <1>4, <1>5, <1>6

(* The books do not look at the free list. *)
LEMMA OtherList ==
    ASSUME NEW c \in Chunk, NEW fs \in Seq(Atom), NEW live, NEW F, Books(c, live, F)
    PROVE  LET r == [c EXCEPT !.free_atoms = fs]
           IN r \in Chunk /\ r.free_atoms = fs /\ Books(r, live, F)
  <1> DEFINE r == [c EXCEPT !.free_atoms = fs]
  <1>1. /\ r \in Chunk /\ r.free_atoms = fs
        /\ r.area = c.area /\ r.num_marked_areas = c.num_marked_areas
        /\ r.mem_areas = c.mem_areas /\ r.mem_area = c.mem_area /\ r.free_mem_area = c.free_mem_area
        /\ r.num_mem_areas = c.num_mem_areas
    BY DEF Chunk
  <1> HIDE DEF r
  <1>2. InUse(r) = InUse(c)
    BY <1>1 DEF InUse
  <1>3. Marked(r) = Marked(c)
    BY <1>1, <1>2 DEF Marked
  <1>4. Pointers(r)
    BY <1>1, <1>2, <1>3 DEF Pointers, Books
  <1>5. Placed(r, live \cup F)
    BY <1>1, <1>2 DEF Books, Placed
  <1>6. Books(r, live, F)
    BY <1>1, <1>2, <1>4, <1>5 DEF Books
  <1> QED BY <1>1, <1>6 DEF r

(* While mc_clean runs, the free atoms are those still to be looked at and those kept. *)
SweepInv(s, live) ==
    /\ s \in Sweeping /\ IsInjective(s.c.free_atoms) /\ IsInjective(s.kept)
    /\ ToSet(s.c.free_atoms) \cap ToSet(s.kept) = {}
    /\ Books(s.c, live, ToSet(s.c.free_atoms) \cup ToSet(s.kept))

(* Each step looks at one atom. *)
LEMMA SweepStep ==
    ASSUME NEW s, NEW live, SweepInv(s, live), s.c.free_atoms # << >>
    PROVE  /\ SweepInv(Sweep[s], live)
           /\ Len(Sweep[s].c.free_atoms) = Len(s.c.free_atoms) - 1
  <1> DEFINE c == s.c  kept == s.kept  m == Head(c.free_atoms)  a == m[1]  z == Tail(c.free_atoms)
             F == ToSet(c.free_atoms) \cup ToSet(kept)  c1 == CountedBack(c, a)
             r == Sweep[s]
  <1>1. /\ s \in Sweeping /\ c \in Chunk /\ kept \in Seq(Atom) /\ c.free_atoms \in Seq(Atom)
        /\ IsInjective(c.free_atoms) /\ IsInjective(kept)
        /\ ToSet(c.free_atoms) \cap ToSet(kept) = {} /\ Books(c, live, F)
    BY DEF SweepInv, Sweeping, Chunk
  <1>2. /\ m \in ToSet(c.free_atoms) /\ m \in Atom /\ z \in Seq(Atom) /\ IsInjective(z)
        /\ Len(z) = Len(c.free_atoms) - 1 /\ ToSet(z) = ToSet(c.free_atoms) \ {m}
    BY <1>1, ListTail
  <1>3. locateMemArea(c, m) = a /\ m \in F /\ m \notin ToSet(kept)
    BY <1>1, <1>2, Located
  <1>4. FirstArea(c) = a
    BY <1>3 DEF FirstArea
  <1>5. CASE ~c.area[a].mark
    <2> DEFINE c2 == [c EXCEPT !.free_atoms = z]  kept2 == Append(kept, m)
    <2>1. r = [c |-> c2, kept |-> kept2]
      BY <1>1, <1>4, <1>5 DEF Sweep
    <2>2. kept2 \in Seq(Atom) /\ IsInjective(kept2) /\ ToSet(kept2) = ToSet(kept) \cup {m}
      BY <1>1, <1>2, <1>3, ListAppend
    <2>3. c2 \in Chunk /\ c2.free_atoms = z /\ Books(c2, live, F)
      BY <1>1, <1>2, OtherList
    <2>4. ToSet(z) \cup ToSet(kept2) = F /\ ToSet(z) \cap ToSet(kept2) = {}
      BY <1>1, <1>2, <1>3, <2>2
    <2> HIDE DEF c2, kept2, z, F
    <2>5. Books(c2, live, ToSet(z) \cup ToSet(kept2))
      BY <2>3, <2>4
    <2> HIDE DEF r
    <2>6. r \in Sweeping /\ r.c = c2 /\ r.kept = kept2
      BY <2>1, <2>2, <2>3 DEF Sweeping
    <2>7. SweepInv(r, live)
      BY <1>2, <2>2, <2>3, <2>4, <2>5, <2>6 DEF SweepInv
    <2> QED BY <1>2, <2>3, <2>6, <2>7 DEF r, z
  <1>6. CASE c.area[a].mark
    <2> DEFINE c2 == IF c1.area[a].free = AreaAtoms THEN GiveBack(Emptied(c1, a), a) ELSE c1
    <2>1. r = [s EXCEPT !.c = c2]
      BY <1>1, <1>4, <1>6 DEF Sweep
    <2>2. BackTo(c1, a, c2)
      BY DEF BackTo
    <2> HIDE DEF c2
    <2>3. c2 \in Chunk /\ c2.free_atoms = z /\ Books(c2, live, F \ {m})
      <3> HIDE DEF m, F
      <3> QED BY <1>1, <1>3, <1>6, <2>2, Returned
    <2>4. F \ {m} = ToSet(z) \cup ToSet(kept) /\ ToSet(z) \cap ToSet(kept) = {}
      BY <1>1, <1>2, <1>3
    <2> HIDE DEF z, F, m, r
    <2>5. Books(c2, live, ToSet(z) \cup ToSet(kept))
      BY <2>3, <2>4
    <2>6. r \in Sweeping /\ r.c = c2 /\ r.kept = kept
      BY <1>1, <2>1, <2>3 DEF Sweeping
    <2>7. SweepInv(r, live)
      BY <1>1, <1>2, <2>3, <2>4, <2>5, <2>6 DEF SweepInv
    <2> QED BY <1>2, <2>3, <2>6, <2>7 DEF r, z
  <1> QED BY <1>5, <1>6

(* After k steps of mc_clean all atoms, or k of them, were looked at. *)
Sweepings(live, n) ==
    [k \in Nat |-> {s \in Sweeping : SweepInv(s, live) /\ (s.c.free_atoms = << >> \/ Len(s.c.free_atoms) <= n - k)}]

(* mc_clean keeps the invariant. *)
LEMMA CleanKeeps ==
    ASSUME NEW c, NEW live, ChunkInv(c, live)
    PROVE  ChunkInv(mc_clean(c), live)
  <1> DEFINE n == Len(c.free_atoms)  P == Sweepings(live, n)  x == [c |-> c, kept |-> << >>]
             s == Iterated(Sweep, x, n)
  <1>1. c \in Chunk /\ c.free_atoms \in Seq(Atom) /\ n \in Nat /\ IsInjective(c.free_atoms)
        /\ Books(c, live, ToSet(c.free_atoms))
    BY LenProperties DEF ChunkInv, Chunk
  <1>2. x \in P[0]
    <2>1. x \in Sweeping /\ x.c = c /\ x.kept = << >>
      BY <1>1 DEF Sweeping
    <2>2. IsInjective(<< >>) /\ ToSet(<< >>) = {}
      BY DEF IsInjective, ToSet
    <2> HIDE DEF x
    <2>3. ToSet(x.c.free_atoms) \cup ToSet(x.kept) = ToSet(c.free_atoms)
      BY <2>1, <2>2
    <2>4. SweepInv(x, live)
      BY <1>1, <2>1, <2>2, <2>3 DEF SweepInv
    <2>5. Len(x.c.free_atoms) <= n - 0
      BY <1>1, <2>1
    <2> QED BY <2>1, <2>4, <2>5 DEF Sweepings
  <1>3. ASSUME NEW k \in Nat, NEW y \in P[k] PROVE Sweep[y] \in P[k + 1]
    <2>1. y \in Sweeping /\ SweepInv(y, live) /\ (y.c.free_atoms = << >> \/ Len(y.c.free_atoms) <= n - k)
      BY <1>3 DEF Sweepings
    <2>2. CASE y.c.free_atoms = << >>
      <3>1. Sweep[y] = y
        BY <2>1, <2>2 DEF Sweep
      <3> QED BY <2>1, <2>2, <3>1 DEF Sweepings
    <2>3. CASE y.c.free_atoms # << >>
      <3> DEFINE r == Sweep[y]
      <3>1. SweepInv(r, live) /\ Len(r.c.free_atoms) = Len(y.c.free_atoms) - 1
        BY <2>1, <2>3, SweepStep
      <3>2. Len(y.c.free_atoms) \in Nat /\ Len(y.c.free_atoms) <= n - k
        BY <2>1, <2>3, LenProperties DEF Sweeping, Chunk
      <3> HIDE DEF r, n
      <3>3. Len(r.c.free_atoms) <= n - (k + 1)
        BY <1>1, <3>1, <3>2
      <3>4. r \in Sweeping
        BY <3>1 DEF SweepInv
      <3>5. k + 1 \in Nat /\ Sweepings(live, n)[k + 1] =
            {z \in Sweeping : SweepInv(z, live) /\ (z.c.free_atoms = << >> \/ Len(z.c.free_atoms) <= n - (k + 1))}
        BY DEF Sweepings
      <3>6. r \in Sweepings(live, n)[k + 1]
        BY <3>1, <3>3, <3>4, <3>5
      <3> QED BY <3>6 DEF r
    <2> QED BY <2>2, <2>3
  <1>0. mc_clean(c) = [s.c EXCEPT !.free_atoms = s.kept]
    BY DEF mc_clean
  <1> HIDE DEF P, x
  <1>4. s \in P[n]
    BY <1>1, <1>2, <1>3, IteratedIn
  <1> HIDE DEF s
  <1>5. SweepInv(s, live) /\ (s.c.free_atoms = << >> \/ Len(s.c.free_atoms) <= n - n)
    BY <1>1, <1>4 DEF P, Sweepings
  <1>6. s.c \in Chunk /\ s.c.free_atoms \in Seq(Atom) /\ s.kept \in Seq(Atom) /\ IsInjective(s.kept)
    BY <1>5 DEF SweepInv, Sweeping, Chunk
  <1>7. s.c.free_atoms = << >>
    <2>1. n - n = 0 /\ Len(s.c.free_atoms) \in Nat
      <3> HIDE DEF n
      <3> QED BY <1>1, <1>6, LenProperties
    <2> QED BY <1>5, <1>6, <2>1, EmptySeq
  <1>8. ToSet(s.c.free_atoms) \cup ToSet(s.kept) = ToSet(s.kept)
    BY <1>7 DEF ToSet
  <1>9. Books(s.c, live, ToSet(s.kept))
    BY <1>5, <1>8 DEF SweepInv
  <1> DEFINE r == [s.c EXCEPT !.free_atoms = s.kept]
  <1>10. r \in Chunk /\ r.free_atoms = s.kept /\ Books(r, live, ToSet(s.kept))
    BY <1>6, <1>9, OtherList
  <1> HIDE DEF r
  <1>11. ChunkInv(r, live)
    BY <1>6, <1>10 DEF ChunkInv
  <1> QED BY <1>0, <1>11 DEF r

(* While ll_free runs, the nodes still due are in use, and the ones before them are not. *)
FreeInv(s, live, keep) ==
    /\ s \in Freeing /\ IsInjective(s.due) /\ ToSet(s.due) \cap keep = {}
    /\ live = keep \cup ToSet(s.due)
    /\ ChunkInv(s.c, live)

(* After k of n nodes. *)
Freeings(keep, n) ==
    [k \in Nat |-> {s \in Freeing : Len(s.due) = n - k /\ FreeInv(s, keep \cup ToSet(s.due), keep)}]

(* ll_free gives the nodes back one by one, and the books hold in between. *)
LEMMA FreeStep ==
    ASSUME NEW s, NEW keep, FreeInv(s, keep \cup ToSet(s.due), keep), s.due # << >>
    PROVE  /\ FreeInv(FreeFirst[s], keep \cup ToSet(FreeFirst[s].due), keep)
           /\ Len(FreeFirst[s].due) = Len(s.due) - 1
  <1> DEFINE m == Head(s.due)  r == FreeFirst[s]  z == Tail(s.due)  c2 == mc_free_atom(s.c, m)
  <1>1. /\ s \in Freeing /\ s.due \in Seq(Atom) /\ IsInjective(s.due) /\ ToSet(s.due) \cap keep = {}
        /\ ChunkInv(s.c, keep \cup ToSet(s.due))
    BY DEF FreeInv, Freeing
  <1>2. /\ m \in ToSet(s.due) /\ z \in Seq(Atom) /\ IsInjective(z) /\ Len(z) = Len(s.due) - 1
        /\ ToSet(z) = ToSet(s.due) \ {m}
    BY <1>1, ListTail
  <1>3. (keep \cup ToSet(s.due)) \ {m} = keep \cup ToSet(z)
    BY <1>1, <1>2
  <1>4. ChunkInv(c2, (keep \cup ToSet(s.due)) \ {m})
    BY <1>1, <1>2, FreeKeeps
  <1>5. r = [c |-> c2, due |-> z]
    BY <1>1 DEF FreeFirst
  <1> HIDE DEF c2, z, r
  <1>6. ChunkInv(c2, keep \cup ToSet(z)) /\ c2 \in Chunk
    BY <1>3, <1>4 DEF ChunkInv
  <1>7. r \in Freeing /\ r.c = c2 /\ r.due = z
    BY <1>2, <1>5, <1>6 DEF Freeing
  <1>8. FreeInv(r, keep \cup ToSet(r.due), keep)
    BY <1>1, <1>2, <1>6, <1>7 DEF FreeInv
  <1> QED BY <1>2, <1>7, <1>8 DEF r

(* ll_free keeps the invariant; the nodes of the list are no longer in use. *)
LEMMA FreeAllKeeps ==
    ASSUME NEW c, NEW live, NEW ns \in Seq(Atom), IsInjective(ns), ToSet(ns) \subseteq live,
           ChunkInv(c, live)
    PROVE  ChunkInv(FreeAll(c, ns), live \ ToSet(ns))
  <1> DEFINE n == Len(ns)  keep == live \ ToSet(ns)  P == Freeings(keep, n)
             x == [c |-> c, due |-> ns]  s == Iterated(FreeFirst, x, n)
  <1>1. c \in Chunk /\ n \in Nat
    BY LenProperties DEF ChunkInv
  <1>2. x \in P[0]
    <2>1. x \in Freeing /\ x.c = c /\ x.due = ns
      BY <1>1 DEF Freeing
    <2>2. keep \cup ToSet(ns) = live /\ ToSet(ns) \cap keep = {}
      OBVIOUS
    <2> HIDE DEF x, keep
    <2>3. FreeInv(x, keep \cup ToSet(x.due), keep)
      BY <2>1, <2>2 DEF FreeInv
    <2>4. Len(x.due) = n - 0
      BY <1>1, <2>1
    <2> QED BY <2>1, <2>3, <2>4 DEF Freeings
  <1>3. ASSUME NEW k \in Nat, k < n, NEW y \in P[k] PROVE FreeFirst[y] \in P[k + 1]
    <2>1. y \in Freeing /\ Len(y.due) = n - k /\ FreeInv(y, keep \cup ToSet(y.due), keep)
      BY <1>3 DEF Freeings
    <2> DEFINE r == FreeFirst[y]
    <2> HIDE DEF keep, n
    <2>2. y.due # << >>
      <3>1. Len(y.due) # 0
        BY <1>1, <1>3, <2>1
      <3> QED BY <3>1
    <2>3. FreeInv(r, keep \cup ToSet(r.due), keep) /\ Len(r.due) = Len(y.due) - 1
      BY <2>1, <2>2, FreeStep
    <2> HIDE DEF r
    <2>4. Len(r.due) = n - (k + 1) /\ r \in Freeing
      BY <1>1, <2>1, <2>3 DEF FreeInv
    <2>5. k + 1 \in Nat
      OBVIOUS
    <2> QED BY <2>3, <2>4, <2>5 DEF Freeings, r
  <1> HIDE DEF P
  <1>4. s \in P[n]
    BY <1>1, <1>2, <1>3, IteratedUpTo
  <1>5. FreeAll(c, ns) = s.c
    BY DEF FreeAll
  <1> HIDE DEF s
  <1>6. s \in Freeing /\ Len(s.due) = n - n /\ FreeInv(s, keep \cup ToSet(s.due), keep)
    BY <1>1, <1>4 DEF P, Freeings
  <1>7. n - n = 0
    <2> HIDE DEF n
    <2> QED BY <1>1
  <1>8. s.due = << >>
    BY <1>6, <1>7, EmptySeq DEF Freeing
  <1>9. keep \cup ToSet(s.due) = keep
    BY <1>8 DEF ToSet
  <1>10. ChunkInv(s.c, keep)
    BY <1>6, <1>9 DEF FreeInv
  <1> QED BY <1>5, <1>10

-----------------------------------------------------------------------------
(***************************************************************************)
(* Sequences                                                               *)
(***************************************************************************)

(* A sequence over the set of its elements. *)
LEMMA SeqOver ==
    ASSUME NEW S, NEW s \in Seq(S), NEW T, \A i \in 1 .. Len(s) : s[i] \in T
    PROVE  s \in Seq(T)
  <1>1. Len(s) \in Nat /\ s = [i \in 1 .. Len(s) |-> s[i]]
    BY LenProperties
  <1>2. [i \in 1 .. Len(s) |-> s[i]] \in Seq(T)
    BY <1>1, IsASeq
  <1> QED BY <1>1, <1>2

(* A sequence without its i-th element. *)
LEMMA RemoveAtIs ==
    ASSUME NEW S, NEW s \in Seq(S), NEW i \in 1 .. Len(s)
    PROVE  /\ RemoveAt(s, i) \in Seq(S) /\ Len(RemoveAt(s, i)) = Len(s) - 1
           /\ \A j \in 1 .. Len(s) - 1 : RemoveAt(s, i)[j] = IF j < i THEN s[j] ELSE s[j + 1]
  <1> DEFINE a == SubSeq(s, 1, i - 1)  b == SubSeq(s, i + 1, Len(s))
  <1>1. Len(s) \in Nat /\ \A j \in 1 .. Len(s) : s[j] \in S
    BY LenProperties, ElementOfSeq
  <1>2. /\ a \in Seq(S) /\ Len(a) = i - 1
        /\ \A j \in 1 .. i - 1 : a[j] = s[j]
    <2>1. \A j \in 1 .. i - 1 : s[j] \in S
      BY <1>1
    <2>2. /\ a \in Seq(S) /\ Len(a) = IF 1 <= i - 1 THEN (i - 1) - 1 + 1 ELSE 0
          /\ \A j \in 1 .. (i - 1) - 1 + 1 : a[j] = s[1 + j - 1]
      <3>1. 1 \in Int /\ i - 1 \in Int
        BY <1>1
      <3> QED BY <2>1, <3>1, SubSeqProperties
    <2> HIDE DEF a
    <2>3. \A j \in 1 .. i - 1 : j \in 1 .. (i - 1) - 1 + 1 /\ 1 + j - 1 = j
      BY <1>1
    <2> QED BY <1>1, <2>2, <2>3
  <1>3. /\ b \in Seq(S) /\ Len(b) = Len(s) - i
        /\ \A j \in 1 .. Len(s) - i : b[j] = s[i + j]
    <2>1. \A j \in i + 1 .. Len(s) : s[j] \in S
      BY <1>1
    <2>2. /\ b \in Seq(S) /\ Len(b) = IF i + 1 <= Len(s) THEN Len(s) - (i + 1) + 1 ELSE 0
          /\ \A j \in 1 .. Len(s) - (i + 1) + 1 : b[j] = s[(i + 1) + j - 1]
      <3>1. i + 1 \in Int /\ Len(s) \in Int
        BY <1>1
      <3> QED BY <2>1, <3>1, SubSeqProperties
    <2> HIDE DEF b
    <2>3. \A j \in 1 .. Len(s) - i : j \in 1 .. Len(s) - (i + 1) + 1 /\ (i + 1) + j - 1 = i + j
      BY <1>1
    <2> QED BY <1>1, <2>2, <2>3
  <1>4. RemoveAt(s, i) = a \o b
    BY DEF RemoveAt
  <1> HIDE DEF a, b
  <1>5. /\ a \o b \in Seq(S) /\ Len(a \o b) = Len(a) + Len(b)
        /\ \A j \in 1 .. Len(a) + Len(b) : (a \o b)[j] = IF j <= Len(a) THEN a[j] ELSE b[j - Len(a)]
    BY <1>2, <1>3, ConcatProperties
  <1>6. ASSUME NEW j \in 1 .. Len(s) - 1 PROVE (a \o b)[j] = IF j < i THEN s[j] ELSE s[j + 1]
    <2>1. j \in 1 .. Len(a) + Len(b)
      BY <1>1, <1>2, <1>3
    <2>2. CASE j < i
      <3>1. j <= Len(a) /\ j \in 1 .. i - 1
        BY <1>1, <1>2, <2>2
      <3> QED BY <1>2, <1>5, <2>1, <2>2, <3>1
    <2>3. CASE ~(j < i)
      <3>1. ~(j <= Len(a)) /\ j - Len(a) \in 1 .. Len(s) - i /\ i + (j - Len(a)) = j + 1
        BY <1>1, <1>2, <2>3
      <3> QED BY <1>3, <1>5, <2>1, <2>3, <3>1
    <2> QED BY <2>2, <2>3
  <1> QED BY <1>1, <1>2, <1>3, <1>4, <1>5, <1>6

(* The ends of a sequence. *)
LEMMA EndsAre ==
    ASSUME NEW S, NEW s \in Seq(S), s # << >>
    PROVE  /\ Len(s) \in Nat \ {0} /\ 1 \in 1 .. Len(s) /\ Len(s) \in 1 .. Len(s)
           /\ Tail(s) = RemoveAt(s, 1) /\ Front(s) = RemoveAt(s, Len(s))
  <1>1. Len(s) \in Nat \ {0} /\ 1 \in 1 .. Len(s) /\ Len(s) \in 1 .. Len(s)
    BY EmptySeq
  <1>2. /\ RemoveAt(s, 1) \in Seq(S) /\ Len(RemoveAt(s, 1)) = Len(s) - 1
        /\ \A j \in 1 .. Len(s) - 1 : RemoveAt(s, 1)[j] = IF j < 1 THEN s[j] ELSE s[j + 1]
    BY <1>1, RemoveAtIs
  <1>3. Tail(s) \in Seq(S) /\ Len(Tail(s)) = Len(s) - 1 /\ \A j \in 1 .. Len(Tail(s)) : Tail(s)[j] = s[j + 1]
    BY HeadTailProperties
  <1>4. Tail(s) = RemoveAt(s, 1)
    <2>1. \A j \in 1 .. Len(Tail(s)) : Tail(s)[j] = RemoveAt(s, 1)[j]
      BY <1>1, <1>2, <1>3
    <2> QED BY <1>2, <1>3, <2>1, SeqEqual
  <1>5. /\ RemoveAt(s, Len(s)) \in Seq(S) /\ Len(RemoveAt(s, Len(s))) = Len(s) - 1
        /\ \A j \in 1 .. Len(s) - 1 : RemoveAt(s, Len(s))[j] = IF j < Len(s) THEN s[j] ELSE s[j + 1]
    BY <1>1, RemoveAtIs
  <1>6. /\ Front(s) \in Seq(S) /\ Len(Front(s)) = Len(s) - 1
        /\ \A j \in 1 .. Len(s) - 1 : Front(s)[j] = s[j]
    <2>1. \A j \in 1 .. Len(s) - 1 : s[j] \in S
      BY <1>1, ElementOfSeq
    <2>2. /\ SubSeq(s, 1, Len(s) - 1) \in Seq(S)
          /\ Len(SubSeq(s, 1, Len(s) - 1)) = IF 1 <= Len(s) - 1 THEN (Len(s) - 1) - 1 + 1 ELSE 0
          /\ \A j \in 1 .. (Len(s) - 1) - 1 + 1 : SubSeq(s, 1, Len(s) - 1)[j] = s[1 + j - 1]
      <3>1. 1 \in Int /\ Len(s) - 1 \in Int
        BY <1>1
      <3> QED BY <2>1, <3>1, SubSeqProperties
    <2>3. \A j \in 1 .. Len(s) - 1 : j \in 1 .. (Len(s) - 1) - 1 + 1 /\ 1 + j - 1 = j
      BY <1>1
    <2>4. Front(s) = SubSeq(s, 1, Len(s) - 1)
      BY DEF Front
    <2> DEFINE q == SubSeq(s, 1, Len(s) - 1)
    <2> HIDE DEF q
    <2>5. q \in Seq(S) /\ \A j \in 1 .. Len(s) - 1 : q[j] = s[j]
      BY <1>1, <2>2, <2>3 DEF q
    <2>6. Len(q) = Len(s) - 1
      <3>1. Len(q) = IF 1 <= Len(s) - 1 THEN (Len(s) - 1) - 1 + 1 ELSE 0
        BY ONLY <2>2 DEF q
      <3>2. PICK n \in Nat : n = Len(s) /\ n # 0
        BY <1>1
      <3>3. CASE n = 1
        BY <3>1, <3>2, <3>3
      <3>4. CASE n # 1
        <4>1. 1 <= n - 1 /\ (n - 1) - 1 + 1 = n - 1
          BY <3>2, <3>4
        <4> QED BY <3>1, <3>2, <4>1
      <3> QED BY <3>3, <3>4
    <2> QED BY <2>4, <2>5, <2>6 DEF q
  <1>7. Front(s) = RemoveAt(s, Len(s))
    <2>1. \A j \in 1 .. Len(Front(s)) : Front(s)[j] = RemoveAt(s, Len(s))[j]
      BY <1>1, <1>5, <1>6
    <2> QED BY <1>5, <1>6, <2>1, SeqEqual
  <1> QED BY <1>1, <1>4, <1>7

(* A sequence with one element in front, *)
LEMMA ConsIs ==
    ASSUME NEW S, NEW s \in Seq(S), NEW x \in S
    PROVE  /\ <<x>> \o s \in Seq(S) /\ Len(<<x>> \o s) = Len(s) + 1
           /\ \A j \in 1 .. Len(s) + 1 : (<<x>> \o s)[j] = IF j = 1 THEN x ELSE s[j - 1]
  <1>1. <<x>> \in Seq(S) /\ Len(<<x>>) = 1 /\ <<x>>[1] = x
    OBVIOUS
  <1>2. /\ <<x>> \o s \in Seq(S) /\ Len(<<x>> \o s) = 1 + Len(s)
        /\ \A i \in 1 .. 1 + Len(s) : (<<x>> \o s)[i] = IF i <= 1 THEN <<x>>[i] ELSE s[i - 1]
    BY <1>1, ConcatProperties
  <1>3. Len(s) \in Nat
    BY LenProperties
  <1>4. ASSUME NEW j \in 1 .. Len(s) + 1 PROVE (<<x>> \o s)[j] = IF j = 1 THEN x ELSE s[j - 1]
    <2>1. j \in 1 .. 1 + Len(s) /\ (j <= 1 <=> j = 1)
      BY <1>3
    <2> QED BY <1>1, <1>2, <2>1
  <1>5. Len(<<x>> \o s) = Len(s) + 1
    BY <1>2, <1>3
  <1> QED BY <1>2, <1>4, <1>5

(* and the same from the other end. *)
LEMMA ReverseIs ==
    ASSUME NEW S, NEW s \in Seq(S)
    PROVE  /\ Reverse(s) \in Seq(S) /\ Len(Reverse(s)) = Len(s)
           /\ \A j \in 1 .. Len(s) : Reverse(s)[j] = s[Len(s) - j + 1] /\ Len(s) - j + 1 \in 1 .. Len(s)
  <1>1. Len(s) \in Nat /\ \A j \in 1 .. Len(s) : s[j] \in S
    BY LenProperties, ElementOfSeq
  <1>2. \A j \in 1 .. Len(s) : Len(s) - j + 1 \in 1 .. Len(s)
    BY <1>1
  <1>3. Reverse(s) = [j \in 1 .. Len(s) |-> s[(Len(s) - j) + 1]]
    BY DEF Reverse
  <1>4. \A j \in 1 .. Len(s) : s[(Len(s) - j) + 1] \in S
    BY <1>1, <1>2
  <1>5. Reverse(s) \in Seq(S)
    BY <1>1, <1>3, <1>4, IsASeq
  <1>6. DOMAIN Reverse(s) = 1 .. Len(s)
    BY <1>3
  <1>7. Len(Reverse(s)) = Len(s)
    BY <1>1, <1>5, <1>6, LenProperties
  <1> QED BY <1>2, <1>3, <1>5, <1>7

(* The data of the nodes of s. *)
Data(f, s) == [i \in DOMAIN s |-> f[s[i]]]

(* They are a sequence over E of the length of s. *)
DataOver(E, f, s) ==
    /\ Data(f, s) \in Seq(E) /\ Len(Data(f, s)) = Len(s) /\ Len(s) \in Nat
    /\ \A i \in 1 .. Len(s) : Data(f, s)[i] = f[s[i]]

(* What the data of nodes are when each node has data in E. *)
LEMMA DataIs ==
    ASSUME NEW D, NEW E, NEW f \in [D -> E], NEW s \in Seq(D)
    PROVE  DataOver(E, f, s)
  <1>1. Len(s) \in Nat /\ DOMAIN s = 1 .. Len(s) /\ \A j \in 1 .. Len(s) : s[j] \in D
    BY LenProperties, ElementOfSeq
  <1>2. Data(f, s) = [i \in 1 .. Len(s) |-> f[s[i]]]
    BY <1>1 DEF Data
  <1>3. \A i \in 1 .. Len(s) : f[s[i]] \in E
    BY <1>1
  <1>4. Data(f, s) \in Seq(E)
    BY <1>1, <1>2, <1>3, IsASeq
  <1>5. Len(Data(f, s)) = Len(s)
    <2>1. DOMAIN Data(f, s) = 1 .. Len(s)
      BY <1>2
    <2> QED BY <1>1, <1>4, <2>1, LenProperties
  <1>6. \A i \in 1 .. Len(s) : Data(f, s)[i] = f[s[i]]
    BY <1>2
  <1> QED BY <1>1, <1>4, <1>5, <1>6 DEF DataOver

-----------------------------------------------------------------------------
(***************************************************************************)
(* The ring of a list                                                      *)
(***************************************************************************)

(* Positions in a ring of n nodes: the next one, and the one before. *)
After(n, i) == IF i = n THEN 1 ELSE i + 1
Before(n, i) == IF i = 1 THEN n ELSE i - 1

(* The nodes of s, each once and from head to tail, are a ring of f with the tail z. *)
Ring(f, z, s) ==
    /\ s \in Seq(DOMAIN f) /\ IsInjective(s)
    /\ z = IF s = << >> THEN NoNode ELSE s[Len(s)]
    /\ \A i \in 1 .. Len(s) : f[s[i]] = s[After(Len(s), i)]

(* What the elements of a ring are. *)
LEMMA RingKinds ==
    ASSUME NEW f, NEW z, NEW s, Ring(f, z, s)
    PROVE  /\ s \in Seq(DOMAIN f) /\ Len(s) \in Nat /\ DOMAIN s = 1 .. Len(s)
           /\ \A i \in 1 .. Len(s) : s[i] \in DOMAIN f /\ After(Len(s), i) \in 1 .. Len(s) /\ s[i] \in ToSet(s)
           /\ \A i, j \in 1 .. Len(s) : s[i] = s[j] => i = j
           /\ \A n \in ToSet(s) : n \in DOMAIN f /\ \E i \in 1 .. Len(s) : n = s[i]
  <1>1. s \in Seq(DOMAIN f) /\ Len(s) \in Nat /\ DOMAIN s = 1 .. Len(s)
    BY LenProperties DEF Ring
  <1>2. \A i \in 1 .. Len(s) : s[i] \in DOMAIN f
    BY <1>1, ElementOfSeq
  <1>3. \A i \in 1 .. Len(s) : After(Len(s), i) \in 1 .. Len(s)
    <2> SUFFICES ASSUME NEW i \in 1 .. Len(s) PROVE After(Len(s), i) \in 1 .. Len(s)
      OBVIOUS
    <2>1. CASE i = Len(s)
      BY <1>1, <2>1 DEF After
    <2>2. CASE i # Len(s)
      <3>1. After(Len(s), i) = i + 1
        BY <2>2 DEF After
      <3>2. Len(s) \in Nat
        BY <1>1
      <3>3. i + 1 \in 1 .. Len(s)
        BY <2>2, <3>2
      <3> QED BY <3>1, <3>3
    <2> QED BY <2>1, <2>2
  <1>4. \A i, j \in 1 .. Len(s) : s[i] = s[j] => i = j
    BY <1>1 DEF Ring, IsInjective
  <1>5. \A i \in 1 .. Len(s) : s[i] \in ToSet(s)
    BY <1>1 DEF ToSet
  <1>6. \A n \in ToSet(s) : \E i \in 1 .. Len(s) : n = s[i]
    BY <1>1 DEF ToSet
  <1> QED BY <1>1, <1>2, <1>3, <1>4, <1>5, <1>6

(* The walk from the tail around the ring gives its nodes. *)
LEMMA RingIs ==
    ASSUME NEW f, IsFiniteSet(DOMAIN f), NoNode \notin DOMAIN f, NEW z, NEW s, Ring(f, z, s)
    PROVE  RingFrom(f, z) = s
  <1>1. /\ s \in Seq(DOMAIN f) /\ Len(s) \in Nat /\ DOMAIN s = 1 .. Len(s)
        /\ \A i \in 1 .. Len(s) : s[i] \in DOMAIN f
        /\ \A i, j \in 1 .. Len(s) : s[i] = s[j] => i = j
    BY RingKinds
  <1>2. z = (IF s = << >> THEN NoNode ELSE s[Len(s)]) /\ \A i \in 1 .. Len(s) : f[s[i]] = s[After(Len(s), i)]
    BY DEF Ring
  <1>3. CASE s = << >>
    BY <1>2, <1>3 DEF RingFrom
  <1>4. CASE s # << >>
    <2> DEFINE L == Len(s)  P == [n \in Nat |-> IF n = 0 THEN {z} ELSE {s[n]}]
    <2>1. L \in Nat \ {0} /\ z = s[L] /\ z \in DOMAIN f /\ z # NoNode
      <3>1. L \in Nat \ {0}
        BY <1>1, <1>4, EmptySeq
      <3>2. L \in 1 .. L
        BY <3>1
      <3> QED BY <1>1, <1>2, <1>4, <3>1, <3>2
    <2>2. ASSUME NEW k \in 1 .. L PROVE Iterated(f, z, k) = s[k]
      <3>1. z \in P[0] /\ k \in Nat
        OBVIOUS
      <3>2. ASSUME NEW n \in Nat, n < k, NEW x \in P[n] PROVE f[x] \in P[n + 1]
        <4>1. n + 1 \in Nat /\ n + 1 # 0 /\ P[n + 1] = {s[n + 1]}
          OBVIOUS
        <4>2. CASE n = 0
          <5>1. x = s[L] /\ L \in 1 .. L /\ After(Len(s), L) = 1
            BY <2>1, <3>2, <4>2 DEF After
          <5>2. f[x] = s[1]
            BY <1>2, <5>1
          <5> QED BY <4>1, <4>2, <5>2
        <4>3. CASE n # 0
          <5>1. x = s[n] /\ n \in 1 .. L /\ n # L
            BY <2>1, <3>2, <4>3
          <5>2. f[x] = s[n + 1]
            BY <1>2, <5>1 DEF After
          <5> QED BY <4>1, <5>2
        <4> QED BY <4>2, <4>3
      <3> HIDE DEF P
      <3>3. Iterated(f, z, k) \in P[k]
        BY <3>1, <3>2, IteratedUpTo
      <3>4. P[k] = {s[k]}
        BY <3>1 DEF P
      <3> QED BY <3>3, <3>4
    <2>3. L <= Cardinality(DOMAIN f) /\ Cardinality(DOMAIN f) \in Nat
      <3>1. s \in Injection(1 .. L, DOMAIN f)
        <4>1. s \in [1 .. L -> DOMAIN f]
          BY <1>1, LenProperties
        <4> QED BY <1>1, <4>1 DEF Injection, IsInjective
      <3>2. Cardinality(1 .. L) <= Cardinality(DOMAIN f)
        BY <3>1, FS_Injection
      <3>3. Cardinality(1 .. L) = L
        <4>1. 1 \in Int /\ L \in Int
          BY <2>1
        <4>2. Cardinality(1 .. L) = IF 1 > L THEN 0 ELSE L - 1 + 1
          BY <4>1, FS_Interval
        <4> QED BY <2>1, <4>2
      <3> QED BY <3>2, <3>3, FS_CardinalityType
    <2> DEFINE K == 1 .. Cardinality(DOMAIN f)
               Whole(k) == Iterated(f, z, k) = z /\ \A j \in 1 .. k - 1 : Iterated(f, z, j) # z
    <2>4. L \in K /\ Whole(L)
      <3>1. L \in K
        BY <2>1, <2>3
      <3>2. L \in 1 .. L /\ Iterated(f, z, L) = z
        <4>1. L \in 1 .. L
          BY <2>1
        <4> QED BY <2>1, <2>2, <4>1
      <3>3. ASSUME NEW j \in 1 .. L - 1 PROVE Iterated(f, z, j) # z
        <4>1. j \in 1 .. L /\ j # L
          BY <2>1
        <4>2. Iterated(f, z, j) = s[j]
          BY <2>2, <4>1
        <4> QED BY <1>1, <2>1, <3>2, <4>1, <4>2
      <3> QED BY <3>1, <3>2, <3>3
    <2>5. ASSUME NEW k \in K, Whole(k) PROVE k = L
      <3>1. k \in Nat /\ k # 0
        BY <2>3
      <3>2. CASE k < L
        <4>1. k \in 1 .. L /\ L \in 1 .. L /\ k # L
          BY <2>1, <3>1, <3>2
        <4>2. s[k] = s[L]
          BY <2>1, <2>2, <2>5, <4>1
        <4> QED BY <1>1, <4>1, <4>2
      <3>3. CASE L < k
        <4>1. L \in 1 .. k - 1
          BY <2>1, <3>1, <3>3
        <4> QED BY <2>4, <2>5, <4>1
      <3> QED BY <2>1, <3>1, <3>2, <3>3
    <2>6. Around(f, z) = CHOOSE k \in K : Whole(k)
      BY DEF Around
    <2> HIDE DEF K, Whole
    <2>7. Around(f, z) = L
      BY <2>4, <2>5, <2>6
    <2>8. RingFrom(f, z) = [i \in 1 .. L |-> Iterated(f, z, i)]
      BY <2>1, <2>7 DEF RingFrom
    <2>9. s = [i \in 1 .. L |-> s[i]]
      BY <1>1, LenProperties
    <2> HIDE DEF L
    <2> QED BY <2>2, <2>8, <2>9
  <1> QED BY <1>3, <1>4

(* A ring stays one when its nodes keep their pointers. *)
LEMMA RingKept ==
    ASSUME NEW f, NEW z, NEW s, Ring(f, z, s), NEW g,
           \A n \in ToSet(s) : n \in DOMAIN g /\ g[n] = f[n]
    PROVE  Ring(g, z, s)
  <1>1. /\ s \in Seq(DOMAIN f) /\ Len(s) \in Nat /\ DOMAIN s = 1 .. Len(s)
        /\ \A i \in 1 .. Len(s) : s[i] \in ToSet(s)
    BY RingKinds
  <1>2. s \in Seq(DOMAIN g)
    <2>1. \A i \in 1 .. Len(s) : s[i] \in DOMAIN g
      BY <1>1
    <2> QED BY <1>1, <2>1, SeqOver
  <1>3. \A i \in 1 .. Len(s) : g[s[i]] = s[After(Len(s), i)]
    BY <1>1 DEF Ring
  <1> QED BY <1>2, <1>3 DEF Ring

-----------------------------------------------------------------------------
(***************************************************************************)
(* All lists together                                                      *)
(***************************************************************************)

(* The rings of the lists share no node, and every node is on one: S[l] are the nodes of l. *)
Lists(f, T, S) ==
    /\ IsFiniteSet(DOMAIN f) /\ DOMAIN f \subseteq Atom
    /\ T = [l \in List |-> T[l]] /\ S = [l \in List |-> S[l]]
    /\ \A l \in List : Ring(f, T[l], S[l])
    /\ \A l, k \in List : l # k => ToSet(S[l]) \cap ToSet(S[k]) = {}
    /\ \A n \in DOMAIN f : \E l \in List : n \in ToSet(S[l])

Nodes == [l \in List |-> NodesOf(l)]

(* The invariant of the lists and their chunk. *)
ListInv ==
    /\ Lists(listNext, tail, Nodes)
    /\ listData \in [Live -> Element]
    /\ ChunkInv(nodeChunk, Live)

(* The nodes of the lists are the ones their rings hold. *)
LEMMA ListsAre ==
    ASSUME NEW f, NEW T, NEW S, Lists(f, T, S), NEW l \in List
    PROVE  RingFrom(f, T[l]) = S[l]
  <1>1. IsFiniteSet(DOMAIN f) /\ Ring(f, T[l], S[l]) /\ DOMAIN f \subseteq Atom
    BY DEF Lists
  <1>2. NoNode \notin DOMAIN f
    BY <1>1, ChunkAssumption DEF NoNode, Atom
  <1> QED BY <1>1, <1>2, RingIs

(* What the rings have to do with the whole. *)
LEMMA ListsKinds ==
    ASSUME NEW f, NEW T, NEW S, Lists(f, T, S), NEW l \in List
    PROVE  /\ Ring(f, T[l], S[l]) /\ ToSet(S[l]) \subseteq DOMAIN f /\ DOMAIN f \subseteq Atom
           /\ \A k \in List : k # l => ToSet(S[k]) \subseteq DOMAIN f \ ToSet(S[l])
  <1>1. /\ DOMAIN f \subseteq Atom /\ \A k \in List : Ring(f, T[k], S[k])
        /\ \A k \in List : l # k => ToSet(S[l]) \cap ToSet(S[k]) = {}
    BY DEF Lists
  <1>2. ASSUME NEW k \in List PROVE ToSet(S[k]) \subseteq DOMAIN f
    <2>1. Ring(f, T[k], S[k])
      BY <1>1
    <2>2. \A n \in ToSet(S[k]) : n \in DOMAIN f
      BY <2>1, RingKinds
    <2> QED BY <2>2
  <1> QED BY <1>1, <1>2

(* A step changes the ring s of one list into s2, and leaves the other nodes alone. *)
OneChanged(f, g, s, s2) ==
    /\ DOMAIN g = (DOMAIN f \ ToSet(s)) \cup ToSet(s2)
    /\ (DOMAIN f \ ToSet(s)) \cap ToSet(s2) = {}
    /\ ToSet(s2) \subseteq Atom /\ IsFiniteSet(DOMAIN g)
    /\ \A n \in DOMAIN f \ ToSet(s) : g[n] = f[n]

(* A step that changes the ring of one list leaves the others as they are. *)
LEMMA OneList ==
    ASSUME NEW f, NEW T, NEW S, Lists(f, T, S), NEW l \in List,
           NEW g, NEW z, NEW s, OneChanged(f, g, S[l], s), Ring(g, z, s)
    PROVE  Lists(g, [T EXCEPT ![l] = z], [S EXCEPT ![l] = s])
  <1> DEFINE T2 == [T EXCEPT ![l] = z]  S2 == [S EXCEPT ![l] = s]
  <1>1. /\ ToSet(S[l]) \subseteq DOMAIN f /\ DOMAIN f \subseteq Atom
        /\ \A k \in List : k # l => ToSet(S[k]) \subseteq DOMAIN f \ ToSet(S[l])
    BY ListsKinds
  <1>2. /\ T = [k \in List |-> T[k]] /\ S = [k \in List |-> S[k]]
        /\ \A k \in List : Ring(f, T[k], S[k])
        /\ \A j, k \in List : j # k => ToSet(S[j]) \cap ToSet(S[k]) = {}
        /\ \A n \in DOMAIN f : \E k \in List : n \in ToSet(S[k])
    BY DEF Lists
  <1>3. /\ DOMAIN g = (DOMAIN f \ ToSet(S[l])) \cup ToSet(s)
        /\ (DOMAIN f \ ToSet(S[l])) \cap ToSet(s) = {}
        /\ ToSet(s) \subseteq Atom /\ IsFiniteSet(DOMAIN g)
        /\ \A n \in DOMAIN f \ ToSet(S[l]) : g[n] = f[n]
    BY DEF OneChanged
  <1>4. /\ T2 = [k \in List |-> T2[k]] /\ S2 = [k \in List |-> S2[k]]
        /\ T2[l] = z /\ S2[l] = s
        /\ \A k \in List : k # l => T2[k] = T[k] /\ S2[k] = S[k]
    BY <1>2
  <1> HIDE DEF T2, S2
  <1>5. DOMAIN g \subseteq Atom
    BY <1>1, <1>3
  <1>6. ASSUME NEW k \in List PROVE Ring(g, T2[k], S2[k])
    <2>1. CASE k = l
      BY <1>4, <2>1
    <2>2. CASE k # l
      <3>1. \A n \in ToSet(S[k]) : n \in DOMAIN g /\ g[n] = f[n]
        BY <1>1, <1>3, <2>2
      <3>2. Ring(f, T[k], S[k])
        BY <1>2
      <3>3. Ring(g, T[k], S[k])
        BY <3>1, <3>2, RingKept
      <3> QED BY <1>4, <2>2, <3>3
    <2> QED BY <2>1, <2>2
  <1>7. ASSUME NEW j \in List, NEW k \in List, j # k PROVE ToSet(S2[j]) \cap ToSet(S2[k]) = {}
    <2>1. CASE j # l /\ k # l
      BY <1>2, <1>4, <1>7, <2>1
    <2>2. CASE j = l
      <3>1. k # l /\ ToSet(S[k]) \subseteq DOMAIN f \ ToSet(S[l])
        BY <1>1, <1>7, <2>2
      <3> QED BY <1>3, <1>4, <2>2, <3>1
    <2>3. CASE k = l
      <3>1. j # l /\ ToSet(S[j]) \subseteq DOMAIN f \ ToSet(S[l])
        BY <1>1, <1>7, <2>3
      <3> QED BY <1>3, <1>4, <2>3, <3>1
    <2> QED BY <2>1, <2>2, <2>3
  <1>8. ASSUME NEW n \in DOMAIN g PROVE \E k \in List : n \in ToSet(S2[k])
    <2>1. CASE n \in ToSet(s)
      BY <1>4, <2>1
    <2>2. CASE n \in DOMAIN f \ ToSet(S[l])
      <3>1. PICK k \in List : n \in ToSet(S[k])
        BY <1>2, <2>2
      <3>2. k # l
        BY <2>2, <3>1
      <3> QED BY <1>4, <3>1, <3>2
    <2> QED BY <1>3, <2>1, <2>2
  <1>9. Lists(g, T2, S2)
    BY <1>3, <1>4, <1>5, <1>6, <1>7, <1>8 DEF Lists
  <1> QED BY <1>9 DEF T2, S2

-----------------------------------------------------------------------------
(***************************************************************************)
(* What the operations do to a ring                                        *)
(***************************************************************************)

(* Positions of a ring, and of the ring without its i-th node. *)
Old(i, j) == IF j < i THEN j ELSE j + 1

(* The nodes that stay keep their order, *)
LEMMA RemovedPositions ==
    ASSUME NEW n \in Nat, NEW i \in 1 .. n, NEW j \in 1 .. n - 1
    PROVE  /\ Old(i, j) \in 1 .. n /\ Old(i, j) # i /\ After(n - 1, j) \in 1 .. n - 1
           /\ After(n, Old(i, j)) # i => Old(i, After(n - 1, j)) = After(n, Old(i, j))
           /\ After(n, Old(i, j)) = i => Old(i, After(n - 1, j)) = After(n, i)
  BY DEF Old, After

(* and going on and back undo each other. *)
LEMMA NextPositions ==
    ASSUME NEW n \in Nat, NEW i \in 1 .. n
    PROVE  /\ After(n, i) \in 1 .. n /\ Before(n, i) \in 1 .. n
           /\ After(n, Before(n, i)) = i /\ Before(n, After(n, i)) = i
           /\ i = n => After(n, i) = 1
           /\ i = 1 => Before(n, i) = n
           /\ \A j \in 1 .. n : After(n, j) = i => j = Before(n, i)
  BY DEF After, Before

(* The node before the i-th one is found by its pointer. *)
LEMMA PreviousIs ==
    ASSUME NEW f, NEW z, NEW s, Ring(f, z, s), NEW i \in 1 .. Len(s)
    PROVE  (CHOOSE p \in ToSet(s) : f[p] = s[i]) = s[Before(Len(s), i)]
  <1> DEFINE n == Len(s)  b == Before(n, i)
  <1>1. /\ n \in Nat /\ \A j \in 1 .. n : s[j] \in ToSet(s)
        /\ \A j, k \in 1 .. n : s[j] = s[k] => j = k
        /\ \A p \in ToSet(s) : \E j \in 1 .. n : p = s[j]
    BY RingKinds
  <1>2. \A j \in 1 .. n : f[s[j]] = s[After(n, j)]
    BY DEF Ring
  <1>3. b \in 1 .. n /\ After(n, b) = i /\ \A j \in 1 .. n : After(n, j) = i => j = b
    BY <1>1, NextPositions
  <1>4. \A j \in 1 .. n : After(n, j) \in 1 .. n
    BY <1>1, NextPositions
  <1> HIDE DEF n, b
  <1>5. s[b] \in ToSet(s) /\ f[s[b]] = s[i]
    BY <1>1, <1>2, <1>3
  <1>6. ASSUME NEW p \in ToSet(s), f[p] = s[i] PROVE p = s[b]
    <2>1. PICK j \in 1 .. n : p = s[j]
      BY <1>1
    <2>2. s[After(n, j)] = s[i]
      BY <1>2, <1>6, <2>1
    <2>3. i \in 1 .. n
      BY DEF n
    <2>4. After(n, j) = i
      BY <1>1, <1>4, <2>2, <2>3
    <2> QED BY <1>3, <2>1, <2>4
  <1>7. (CHOOSE p \in ToSet(s) : f[p] = s[i]) = s[b]
    BY <1>5, <1>6
  <1> QED BY <1>7 DEF n, b

(* A node alone is a ring. *)
LEMMA RingOfOne ==
    ASSUME NEW g, NEW n \in DOMAIN g, g[n] = n
    PROVE  Ring(g, n, <<n>>) /\ ToSet(<<n>>) = {n}
  <1>1. <<n>> \in Seq(DOMAIN g) /\ Len(<<n>>) = 1 /\ <<n>>[1] = n /\ <<n>> # << >> /\ DOMAIN <<n>> = {1}
    OBVIOUS
  <1>2. IsInjective(<<n>>) /\ ToSet(<<n>>) = {n}
    BY <1>1 DEF IsInjective, ToSet
  <1>3. \A i \in 1 .. 1 : i = 1 /\ After(1, i) = 1
    BY DEF After
  <1> QED BY <1>1, <1>2, <1>3 DEF Ring

(* g is f without the i-th node n of the ring s, which follows p. *)
RingLess(f, z, s, i, n, p, g) ==
    /\ Ring(g, IF p = n THEN NoNode ELSE IF n = z THEN p ELSE z, RemoveAt(s, i))
    /\ DOMAIN g = DOMAIN f \ {n} /\ p \in DOMAIN f /\ n \in DOMAIN f
    /\ ToSet(RemoveAt(s, i)) = ToSet(s) \ {n}
    /\ \A x \in DOMAIN g : g[x] = IF x = p THEN f[n] ELSE f[x]

(* The ring without its i-th node. *)
LEMMA RingWithout ==
    ASSUME NEW f, NEW z, NEW s, Ring(f, z, s), DOMAIN f \subseteq Atom, NEW i \in 1 .. Len(s),
           NEW n, n = s[i], NEW p, p = s[Before(Len(s), i)],
           NEW g, g = Unlinking([f EXCEPT ![p] = f[n]], {n})
    PROVE  RingLess(f, z, s, i, n, p, g)
  <1> DEFINE N == Len(s)  b == Before(N, i)  r == RemoveAt(s, i)
             u == IF p = n THEN NoNode ELSE IF n = z THEN p ELSE z
  <1>1. /\ s \in Seq(DOMAIN f) /\ N \in Nat /\ DOMAIN s = 1 .. N
        /\ \A j \in 1 .. N : s[j] \in DOMAIN f /\ s[j] \in ToSet(s)
        /\ \A j, k \in 1 .. N : s[j] = s[k] => j = k
        /\ \A x \in ToSet(s) : \E j \in 1 .. N : x = s[j]
    BY RingKinds
  <1>2. s # << >> /\ z = s[N] /\ \A j \in 1 .. N : f[s[j]] = s[After(N, j)]
    <2>1. s # << >>
      OBVIOUS
    <2> QED BY <2>1 DEF Ring
  <1>3. b \in 1 .. N /\ After(N, b) = i /\ \A j \in 1 .. N : After(N, j) = i => j = b
    BY <1>1, NextPositions
  <1>4. /\ r \in Seq(DOMAIN f) /\ Len(r) = N - 1
        /\ \A j \in 1 .. N - 1 : r[j] = s[Old(i, j)]
    <2>0. s \in Seq(DOMAIN f)
      BY <1>1
    <2>1. /\ r \in Seq(DOMAIN f) /\ Len(r) = N - 1
          /\ \A j \in 1 .. N - 1 : r[j] = IF j < i THEN s[j] ELSE s[j + 1]
      BY <2>0, RemoveAtIs
    <2> HIDE DEF r, N
    <2> QED BY <2>1 DEF Old
  <1>5. i \in 1 .. N /\ n = s[i] /\ p = s[b]
    OBVIOUS
  <1>6. \A j \in 1 .. N - 1 : /\ Old(i, j) \in 1 .. N /\ Old(i, j) # i /\ After(N - 1, j) \in 1 .. N - 1
                              /\ After(N, Old(i, j)) # i => Old(i, After(N - 1, j)) = After(N, Old(i, j))
                              /\ After(N, Old(i, j)) = i => Old(i, After(N - 1, j)) = After(N, i)
    BY <1>1, <1>5, RemovedPositions
  <1>7. DOMAIN g = DOMAIN f \ {n} /\ \A x \in DOMAIN g : g[x] = IF x = p THEN f[n] ELSE f[x]
    BY <1>1, <1>3, <1>5 DEF Unlinking
  <1>8. p \in DOMAIN f /\ n \in DOMAIN f
    BY <1>1, <1>3, <1>5
  <1> HIDE DEF N, b, r, u
  <1>9. \A j \in 1 .. N - 1 : r[j] \in DOMAIN g
    BY <1>1, <1>4, <1>5, <1>6, <1>7
  <1>10. r \in Seq(DOMAIN g) /\ DOMAIN r = 1 .. N - 1
    <2>1. DOMAIN r = 1 .. Len(r)
      BY <1>4, LenProperties
    <2>2. \A j \in 1 .. Len(r) : r[j] \in DOMAIN g
      BY <1>4, <1>9
    <2> QED BY <1>4, <2>1, <2>2, SeqOver
  <1>11. IsInjective(r)
    <2> SUFFICES ASSUME NEW j \in 1 .. N - 1, NEW k \in 1 .. N - 1, r[j] = r[k] PROVE j = k
      BY <1>10 DEF IsInjective
    <2>1. Old(i, j) = Old(i, k)
      BY <1>1, <1>4, <1>6
    <2>2. i \in Int /\ j \in Int /\ k \in Int
      BY <1>1, <1>5
    <2> QED BY <2>1, <2>2 DEF Old
  <1>12. ToSet(r) = ToSet(s) \ {n}
    <2>1. ASSUME NEW x \in ToSet(r) PROVE x \in ToSet(s) \ {n}
      <3>1. PICK j \in 1 .. N - 1 : x = r[j]
        BY <1>10 DEF ToSet
      <3> QED BY <1>1, <1>4, <1>5, <1>6, <3>1
    <2>2. ASSUME NEW x \in ToSet(s) \ {n} PROVE x \in ToSet(r)
      <3>1. PICK j \in 1 .. N : x = s[j]
        BY <1>1
      <3>2. j # i
        BY <1>5, <3>1
      <3>3. PICK k \in 1 .. N - 1 : Old(i, k) = j
        <4>1. CASE j < i
          <5>1. j \in 1 .. N - 1 /\ Old(i, j) = j
            BY <1>1, <1>5, <4>1 DEF Old
          <5> QED BY <5>1
        <4>2. CASE ~(j < i)
          <5>1. j - 1 \in 1 .. N - 1 /\ Old(i, j - 1) = j
            BY <1>1, <1>5, <3>2, <4>2 DEF Old
          <5> QED BY <5>1
        <4> QED BY <4>1, <4>2
      <3>4. r[k] = x /\ k \in DOMAIN r
        BY <1>4, <1>10, <3>1, <3>3
      <3> QED BY <3>4 DEF ToSet
    <2> QED BY <2>1, <2>2
  <1>13. ASSUME NEW j \in 1 .. N - 1 PROVE g[r[j]] = r[After(N - 1, j)]
    <2> DEFINE k == Old(i, j)  a == After(N - 1, j)
    <2>1. /\ k \in 1 .. N /\ a \in 1 .. N - 1
          /\ After(N, k) # i => Old(i, a) = After(N, k)
          /\ After(N, k) = i => Old(i, a) = After(N, i)
      BY <1>6
    <2>2. r[j] = s[k] /\ r[a] = s[Old(i, a)] /\ r[j] \in DOMAIN g
      BY <1>4, <1>9, <2>1
    <2> HIDE DEF k, a
    <2>3. CASE After(N, k) = i
      <3>1. s[k] = p
        BY <1>3, <1>5, <2>1, <2>3
      <3>2. g[r[j]] = f[n]
        BY <1>7, <2>2, <3>1
      <3>3. f[n] = s[After(N, i)]
        BY <1>2, <1>5
      <3> QED BY <2>1, <2>2, <2>3, <3>2, <3>3 DEF a
    <2>4. CASE After(N, k) # i
      <3>1. s[k] # p
        BY <1>1, <1>3, <1>5, <2>1, <2>4
      <3>2. g[r[j]] = f[s[k]]
        BY <1>7, <2>2, <3>1
      <3>3. f[s[k]] = s[After(N, k)]
        BY <1>2, <2>1
      <3> QED BY <2>1, <2>2, <2>4, <3>2, <3>3 DEF a
    <2> QED BY <2>3, <2>4
  <1>14. u = IF r = << >> THEN NoNode ELSE r[Len(r)]
    <2>1. p = n <=> N = 1
      <3>1. p = n <=> b = i
        BY <1>1, <1>3, <1>5
      <3>2. b = i <=> N = 1
        BY <1>1, <1>5 DEF b, Before
      <3> QED BY <3>1, <3>2
    <2>2. r = << >> <=> N = 1
      <3>1. r = << >> <=> Len(r) = 0
        BY <1>4, EmptySeq
      <3> QED BY <1>1, <1>4, <3>1
    <2>3. CASE N = 1
      BY <2>1, <2>2, <2>3 DEF u
    <2>4. CASE N # 1 /\ i = N
      <3>1. n = z
        BY <1>2, <1>5, <2>4
      <3>2. b = N - 1 /\ N - 1 \in 1 .. N - 1 /\ Old(i, N - 1) = N - 1
        BY <1>1, <1>5, <2>4 DEF b, Before, Old
      <3>3. r[N - 1] = p
        BY <1>4, <1>5, <3>2
      <3> QED BY <1>4, <2>1, <2>2, <2>4, <3>1, <3>3 DEF u
    <2>5. CASE N # 1 /\ i # N
      <3>1. n # z /\ N \in 1 .. N
        BY <1>1, <1>2, <1>5, <2>5
      <3>2. N - 1 \in 1 .. N - 1 /\ Old(i, N - 1) = N
        BY <1>1, <1>5, <2>5 DEF Old
      <3>3. r[N - 1] = z
        BY <1>2, <1>4, <3>2
      <3> QED BY <1>4, <2>1, <2>2, <2>5, <3>1, <3>3 DEF u
    <2> QED BY <2>3, <2>4, <2>5
  <1>15. Ring(g, u, r)
    BY <1>4, <1>10, <1>11, <1>13, <1>14 DEF Ring
  <1> QED BY <1>7, <1>8, <1>12, <1>15 DEF RingLess, u, r

(* g is f with a new node n between the tail and the head of the ring s. *)
RingAdded(f, z, s, n, g) ==
    /\ Ring(g, n, Append(s, n)) /\ Ring(g, z, <<n>> \o s)
    /\ DOMAIN g = DOMAIN f \cup {n}
    /\ ToSet(Append(s, n)) = ToSet(s) \cup {n} /\ ToSet(<<n>> \o s) = ToSet(s) \cup {n}
    /\ \A x \in DOMAIN f : x # z => g[x] = f[x]

(* A new node comes after the tail: it may be the tail, or the head. *)
LEMMA RingWith ==
    ASSUME NEW f, NEW z, NEW s, Ring(f, z, s), s # << >>, DOMAIN f \subseteq Atom,
           NEW n \in Atom, n \notin DOMAIN f,
           NEW g, g = [With(f, n, f[z]) EXCEPT ![z] = n]
    PROVE  RingAdded(f, z, s, n, g)
  <1> DEFINE N == Len(s)  a == Append(s, n)  c == <<n>> \o s
  <1>1. /\ s \in Seq(DOMAIN f) /\ N \in Nat \ {0} /\ DOMAIN s = 1 .. N
        /\ \A j \in 1 .. N : s[j] \in DOMAIN f /\ s[j] \in ToSet(s)
        /\ \A j, k \in 1 .. N : s[j] = s[k] => j = k
        /\ \A x \in ToSet(s) : x \in DOMAIN f
    BY RingKinds, EmptySeq
  <1>2. z = s[N] /\ IsInjective(s) /\ \A j \in 1 .. N : f[s[j]] = s[After(N, j)]
    BY DEF Ring
  <1>3. s \in Seq(Atom) /\ s \in Seq(DOMAIN f \cup {n}) /\ n \notin ToSet(s)
    BY <1>1, SeqMonotonic
  <1>4. N \in 1 .. N /\ 1 \in 1 .. N /\ After(N, N) = 1
    BY <1>1 DEF After
  <1>5. z \in DOMAIN f /\ z # n /\ f[z] = s[1]
    BY <1>1, <1>2, <1>4
  <1>6. /\ DOMAIN g = DOMAIN f \cup {n} /\ g[z] = n /\ g[n] = s[1]
        /\ \A x \in DOMAIN f : x # z => g[x] = f[x]
    BY <1>5 DEF With
  <1>7. /\ IsInjective(a) /\ ToSet(a) = ToSet(s) \cup {n}
        /\ IsInjective(c) /\ ToSet(c) = ToSet(s) \cup {n}
    BY <1>2, <1>3, ListAppend, ListCons
  <1>8. /\ a \in Seq(DOMAIN f \cup {n}) /\ a # << >> /\ Len(a) = N + 1
        /\ \A j \in 1 .. N : a[j] = s[j]
        /\ a[N + 1] = n
    BY <1>3, AppendProperties
  <1>9. /\ c \in Seq(DOMAIN f \cup {n}) /\ Len(c) = N + 1
        /\ \A j \in 1 .. N + 1 : c[j] = IF j = 1 THEN n ELSE s[j - 1]
    BY <1>3, ConsIs
  <1> HIDE DEF N, a, c
  <1>10. \A j \in 1 .. N : j # N => g[s[j]] = s[j + 1] /\ s[j] # z
    <2> SUFFICES ASSUME NEW j \in 1 .. N, j # N PROVE g[s[j]] = s[j + 1] /\ s[j] # z
      OBVIOUS
    <2>1. After(N, j) = j + 1
      BY DEF After
    <2>2. s[j] # z /\ s[j] \in DOMAIN f
      BY <1>1, <1>2, <1>4
    <2> QED BY <1>2, <1>6, <2>1, <2>2
  <1>11. Ring(g, n, a)
    <2>1. ASSUME NEW j \in 1 .. N + 1 PROVE g[a[j]] = a[After(N + 1, j)]
      <3>0. /\ j # N + 1 => j \in 1 .. N
            /\ After(N + 1, j) = IF j = N + 1 THEN 1 ELSE j + 1
            /\ j \in 1 .. N /\ j # N => j + 1 \in 1 .. N
        BY <1>1 DEF After
      <3>1. CASE j = N + 1
        BY <1>4, <1>6, <1>8, <3>0, <3>1
      <3>2. CASE j = N
        <4>1. a[j] = z /\ N # N + 1
          BY <1>1, <1>2, <1>4, <1>8, <3>2
        <4>2. a[After(N + 1, j)] = n
          BY <1>8, <3>0, <3>2, <4>1
        <4> QED BY <1>6, <4>1, <4>2
      <3>3. CASE j # N + 1 /\ j # N
        BY <1>8, <1>10, <3>0, <3>3
      <3> QED BY <3>1, <3>2, <3>3
    <2> QED BY <1>6, <1>7, <1>8, <2>1 DEF Ring
  <1>12. Ring(g, z, c)
    <2>0. c # << >> /\ c[N + 1] = z
      <3>1. N + 1 \in 1 .. N + 1 /\ N + 1 # 1 /\ (N + 1) - 1 = N
        BY <1>1
      <3>2. c[N + 1] = z
        BY <1>2, <1>9, <3>1
      <3>3. c # << >>
        BY <1>1, <1>9
      <3> QED BY <3>2, <3>3
    <2>1. ASSUME NEW j \in 1 .. N + 1 PROVE g[c[j]] = c[After(N + 1, j)]
      <3>0. /\ After(N + 1, j) = IF j = N + 1 THEN 1 ELSE j + 1
            /\ j # 1 => j - 1 \in 1 .. N
            /\ j # 1 /\ j # N + 1 => j - 1 # N
            /\ 1 \in 1 .. N + 1 /\ 2 \in 1 .. N + 1 /\ 1 # N + 1
            /\ j # N + 1 => j + 1 \in 1 .. N + 1 /\ j + 1 # 1 /\ (j + 1) - 1 = j
            /\ (j - 1) + 1 = j
        BY <1>1 DEF After
      <3>1. CASE j = 1
        <4>1. c[j] = n /\ After(N + 1, j) = 2
          BY <1>9, <3>0, <3>1
        <4>2. c[2] = s[1]
          BY <1>9, <3>0
        <4> QED BY <1>6, <4>1, <4>2
      <3>2. CASE j = N + 1
        <4>1. c[j] = z /\ After(N + 1, j) = 1 /\ c[1] = n
          BY <1>9, <2>0, <3>0, <3>2
        <4> QED BY <1>6, <4>1
      <3>3. CASE j # 1 /\ j # N + 1
        <4>1. c[j] = s[j - 1] /\ After(N + 1, j) = j + 1 /\ c[j + 1] = s[j]
          BY <1>9, <3>0, <3>3
        <4>2. g[s[j - 1]] = s[(j - 1) + 1]
          BY <1>10, <3>0, <3>3
        <4> QED BY <3>0, <4>1, <4>2
      <3> QED BY <3>1, <3>2, <3>3
    <2> QED BY <1>6, <1>7, <1>9, <2>0, <2>1 DEF Ring
  <1> QED BY <1>6, <1>7, <1>11, <1>12 DEF RingAdded, a, c

(* Turning a ring by one node makes its tail the head. *)
LEMMA RingTurned ==
    ASSUME NEW f, NEW z, NEW s, Ring(f, z, s), DOMAIN f \subseteq Atom, Len(s) > 1
    PROVE  LET s2 == <<z>> \o RemoveAt(s, Len(s))
           IN Ring(f, s[Len(s) - 1], s2) /\ ToSet(s2) = ToSet(s)
  <1> DEFINE N == Len(s)  r == RemoveAt(s, N)  c == <<z>> \o r
  <1>1. /\ s \in Seq(DOMAIN f) /\ N \in Nat /\ DOMAIN s = 1 .. N
        /\ \A j \in 1 .. N : s[j] \in DOMAIN f /\ s[j] \in ToSet(s)
        /\ \A j, k \in 1 .. N : s[j] = s[k] => j = k
        /\ \A x \in ToSet(s) : \E j \in 1 .. N : x = s[j]
    BY RingKinds
  <1>2. N \in 1 .. N /\ s # << >>
    BY <1>1, EmptySeq
  <1>3. z = s[N] /\ z \in DOMAIN f /\ \A j \in 1 .. N : f[s[j]] = s[After(N, j)]
    BY <1>1, <1>2 DEF Ring
  <1>4. /\ r \in Seq(DOMAIN f) /\ Len(r) = N - 1
        /\ \A j \in 1 .. N - 1 : r[j] = s[j]
    <2>1. /\ r \in Seq(DOMAIN f) /\ Len(r) = N - 1
          /\ \A j \in 1 .. N - 1 : r[j] = IF j < N THEN s[j] ELSE s[j + 1]
      BY <1>1, <1>2, RemoveAtIs
    <2> HIDE DEF r, N
    <2> QED BY <1>1, <2>1
  <1> HIDE DEF r
  <1>5. /\ c \in Seq(DOMAIN f) /\ Len(c) = Len(r) + 1
        /\ \A j \in 1 .. Len(r) + 1 : c[j] = IF j = 1 THEN z ELSE r[j - 1]
    BY <1>3, <1>4, ConsIs
  <1> HIDE DEF N, c
  <1>6. /\ Len(c) = N /\ c[1] = s[N] /\ \A j \in 1 .. N : j # 1 => c[j] = s[j - 1] /\ j - 1 \in 1 .. N
        /\ DOMAIN c = 1 .. N
    <2>1. Len(c) = N
      BY <1>1, <1>4, <1>5
    <2>2. \A j \in 1 .. N : j # 1 => j - 1 \in 1 .. N - 1 /\ j \in 1 .. Len(r) + 1 /\ j - 1 \in 1 .. N
      BY <1>1, <1>4
    <2>3. 1 \in 1 .. Len(r) + 1
      BY <1>1, <1>2, <1>4
    <2>4. DOMAIN c = 1 .. Len(c)
      BY <1>5, LenProperties
    <2> QED BY <1>3, <1>4, <1>5, <2>1, <2>2, <2>3, <2>4
  <1>7. \A j \in 1 .. N : c[j] = s[Before(N, j)] /\ Before(N, j) \in 1 .. N
    <2> SUFFICES ASSUME NEW j \in 1 .. N PROVE c[j] = s[Before(N, j)] /\ Before(N, j) \in 1 .. N
      OBVIOUS
    <2>1. CASE j = 1
      BY <1>2, <1>6, <2>1 DEF Before
    <2>2. CASE j # 1
      BY <1>6, <2>2 DEF Before
    <2> QED BY <2>1, <2>2
  <1>8. \A j \in 1 .. N : /\ After(N, j) \in 1 .. N /\ After(N, Before(N, j)) = j
                          /\ Before(N, After(N, j)) = j
    BY <1>1, NextPositions
  <1>9. ASSUME NEW j \in 1 .. N PROVE f[c[j]] = c[After(N, j)]
    <2>1. c[j] = s[Before(N, j)] /\ Before(N, j) \in 1 .. N
      BY <1>7
    <2>2. f[c[j]] = s[j]
      BY <1>3, <1>8, <2>1
    <2>3. After(N, j) \in 1 .. N /\ Before(N, After(N, j)) = j
      BY <1>8
    <2>4. c[After(N, j)] = s[j]
      BY <1>7, <2>3
    <2> QED BY <2>2, <2>4
  <1>10. IsInjective(c)
    <2>1. \A j, k \in 1 .. N : c[j] = c[k] => j = k
      BY <1>1, <1>7, <1>8
    <2> QED BY <1>6, <2>1 DEF IsInjective
  <1>11. ToSet(c) = ToSet(s)
    <2>1. ASSUME NEW x \in ToSet(c) PROVE x \in ToSet(s)
      <3>1. PICK j \in 1 .. N : x = c[j]
        BY <1>6 DEF ToSet
      <3> QED BY <1>1, <1>7, <3>1
    <2>2. ASSUME NEW x \in ToSet(s) PROVE x \in ToSet(c)
      <3>1. PICK j \in 1 .. N : x = s[j]
        BY <1>1
      <3>2. After(N, j) \in 1 .. N /\ c[After(N, j)] = x
        BY <1>7, <1>8, <3>1
      <3> QED BY <1>6, <3>2 DEF ToSet
    <2> QED BY <2>1, <2>2
  <1>12. c # << >> /\ c[N] = s[N - 1]
    <2>1. N # 1 /\ N # 0
      BY <1>1 DEF N
    <2> QED BY <1>2, <1>6, <2>1
  <1>13. Ring(f, s[N - 1], c)
    BY <1>5, <1>6, <1>9, <1>10, <1>12 DEF Ring
  <1> QED BY <1>11, <1>13 DEF N, c, r

(* Pointers that lead to the nodes before are the ring the other way round. *)
LEMMA RingReversed ==
    ASSUME NEW f, NEW z, NEW s, Ring(f, z, s), s # << >>, NEW g,
           \A i \in 1 .. Len(s) : s[i] \in DOMAIN g /\ g[s[i]] = s[Before(Len(s), i)]
    PROVE  Ring(g, f[z], Reverse(s)) /\ ToSet(Reverse(s)) = ToSet(s)
  <1> DEFINE N == Len(s)  r == Reverse(s)  m(j) == N - j + 1
  <1>1. /\ s \in Seq(DOMAIN f) /\ N \in Nat \ {0} /\ DOMAIN s = 1 .. N
        /\ \A j \in 1 .. N : s[j] \in DOMAIN f /\ s[j] \in ToSet(s)
        /\ \A j, k \in 1 .. N : s[j] = s[k] => j = k
        /\ \A x \in ToSet(s) : \E j \in 1 .. N : x = s[j]
    BY RingKinds, EmptySeq
  <1>2. z = s[N] /\ \A j \in 1 .. N : f[s[j]] = s[After(N, j)]
    BY DEF Ring
  <1>3. f[z] = s[1]
    <2>1. N \in 1 .. N /\ After(N, N) = 1
      BY <1>1 DEF After
    <2> QED BY <1>2, <2>1
  <1>4. /\ r \in Seq(DOMAIN f) /\ Len(r) = N /\ \A j \in 1 .. N : r[j] = s[m(j)] /\ m(j) \in 1 .. N
    BY <1>1, ReverseIs
  <1>5. \A i \in 1 .. N : s[i] \in DOMAIN g /\ g[s[i]] = s[Before(N, i)]
    OBVIOUS
  <1> HIDE DEF r, N
  <1>6. r \in Seq(DOMAIN g) /\ DOMAIN r = 1 .. N
    <2>1. \A j \in 1 .. Len(r) : r[j] \in DOMAIN g
      BY <1>4, <1>5
    <2> QED BY <1>4, <2>1, SeqOver, LenProperties
  <1>7. \A j \in 1 .. N : After(N, j) \in 1 .. N /\ m(After(N, j)) = Before(N, m(j)) /\ m(m(j)) = j
    <2> SUFFICES ASSUME NEW j \in 1 .. N
                 PROVE  After(N, j) \in 1 .. N /\ m(After(N, j)) = Before(N, m(j)) /\ m(m(j)) = j
      OBVIOUS
    <2>1. CASE j = N
      BY <1>1, <2>1 DEF After, Before
    <2>2. CASE j # N
      BY <1>1, <2>2 DEF After, Before
    <2> QED BY <2>1, <2>2
  <1>8. m(N) = 1 /\ N \in 1 .. N
    BY <1>1
  <1> HIDE DEF m
  <1>9. ASSUME NEW j \in 1 .. N PROVE g[r[j]] = r[After(N, j)]
    <2>1. r[j] = s[m(j)] /\ m(j) \in 1 .. N
      BY <1>4
    <2>2. g[r[j]] = s[Before(N, m(j))]
      BY <1>5, <2>1
    <2>3. After(N, j) \in 1 .. N /\ m(After(N, j)) = Before(N, m(j))
      BY <1>7
    <2> QED BY <1>4, <2>2, <2>3
  <1>10. IsInjective(r)
    <2>1. \A j, k \in 1 .. N : r[j] = r[k] => j = k
      BY <1>1, <1>4, <1>7
    <2> QED BY <1>6, <2>1 DEF IsInjective
  <1>11. ToSet(r) = ToSet(s)
    <2>1. ASSUME NEW x \in ToSet(r) PROVE x \in ToSet(s)
      <3>1. PICK j \in 1 .. N : x = r[j]
        BY <1>6 DEF ToSet
      <3> QED BY <1>1, <1>4, <3>1
    <2>2. ASSUME NEW x \in ToSet(s) PROVE x \in ToSet(r)
      <3>1. PICK j \in 1 .. N : x = s[j]
        BY <1>1
      <3>2. m(j) \in 1 .. N /\ r[m(j)] = x
        BY <1>4, <1>7, <3>1
      <3> QED BY <1>6, <3>2 DEF ToSet
    <2> QED BY <2>1, <2>2
  <1>12. r # << >> /\ r[N] = f[z]
    BY <1>1, <1>3, <1>4, <1>8
  <1>13. Ring(g, f[z], r)
    BY <1>4, <1>6, <1>9, <1>10, <1>12 DEF Ring
  <1> QED BY <1>11, <1>13 DEF r

(* The rings s1 and s2 of f are one in g, and nothing else is changed. *)
RingsJoined(f, s1, t2, s2, g) ==
    /\ Ring(g, t2, s1 \o s2) /\ ToSet(s1 \o s2) = ToSet(s1) \cup ToSet(s2)
    /\ DOMAIN g = DOMAIN f
    /\ \A x \in DOMAIN f \ (ToSet(s1) \cup ToSet(s2)) : g[x] = f[x]

(* Two rings become one: each tail is followed by the head of the other. *)
LEMMA RingsMerged ==
    ASSUME NEW f, NEW t1, NEW s1, Ring(f, t1, s1), s1 # << >>,
           NEW t2, NEW s2, Ring(f, t2, s2), s2 # << >>,
           ToSet(s1) \cap ToSet(s2) = {},
           NEW g, g = [f EXCEPT ![t1] = f[t2], ![t2] = f[t1]]
    PROVE  RingsJoined(f, s1, t2, s2, g)
  <1> DEFINE N == Len(s1)  M == Len(s2)  c == s1 \o s2
  <1>1. /\ s1 \in Seq(DOMAIN f) /\ N \in Nat \ {0} /\ DOMAIN s1 = 1 .. N
        /\ \A j \in 1 .. N : s1[j] \in DOMAIN f /\ s1[j] \in ToSet(s1)
        /\ \A j, k \in 1 .. N : s1[j] = s1[k] => j = k
        /\ \A x \in ToSet(s1) : \E j \in 1 .. N : x = s1[j]
    BY RingKinds, EmptySeq
  <1>2. /\ s2 \in Seq(DOMAIN f) /\ M \in Nat \ {0} /\ DOMAIN s2 = 1 .. M
        /\ \A j \in 1 .. M : s2[j] \in DOMAIN f /\ s2[j] \in ToSet(s2)
        /\ \A j, k \in 1 .. M : s2[j] = s2[k] => j = k
        /\ \A x \in ToSet(s2) : \E j \in 1 .. M : x = s2[j]
    BY RingKinds, EmptySeq
  <1>3. t1 = s1[N] /\ \A j \in 1 .. N : f[s1[j]] = s1[After(N, j)]
    BY DEF Ring
  <1>4. t2 = s2[M] /\ \A j \in 1 .. M : f[s2[j]] = s2[After(M, j)]
    BY DEF Ring
  <1>5. /\ c \in Seq(DOMAIN f) /\ Len(c) = N + M
        /\ \A i \in 1 .. N + M : c[i] = IF i <= N THEN s1[i] ELSE s2[i - N]
    BY <1>1, <1>2, ConcatProperties
  <1> HIDE DEF N, M, c
  <1>6. /\ N \in 1 .. N /\ M \in 1 .. M /\ After(N, N) = 1 /\ After(M, M) = 1
        /\ N \in Nat /\ M \in Nat /\ 1 \in 1 .. N /\ 1 \in 1 .. M
    BY <1>1, <1>2 DEF After
  <1>7. f[t1] = s1[1] /\ f[t2] = s2[1] /\ t1 \in ToSet(s1) /\ t2 \in ToSet(s2) /\ t1 # t2
        /\ t1 \in DOMAIN f /\ t2 \in DOMAIN f
    BY <1>1, <1>2, <1>3, <1>4, <1>6
  <1>8. /\ DOMAIN g = DOMAIN f /\ g[t1] = s2[1] /\ g[t2] = s1[1]
        /\ \A x \in DOMAIN f : x # t1 /\ x # t2 => g[x] = f[x]
    BY <1>7
  <1>9. DOMAIN c = 1 .. N + M
    BY <1>5, LenProperties
  <1>10. \A i \in 1 .. N : i \in 1 .. N + M /\ c[i] = s1[i]
    BY <1>5, <1>6
  <1>11. \A i \in 1 .. M : N + i \in 1 .. N + M /\ c[N + i] = s2[i]
    <2> SUFFICES ASSUME NEW i \in 1 .. M PROVE N + i \in 1 .. N + M /\ c[N + i] = s2[i]
      OBVIOUS
    <2>1. N + i \in 1 .. N + M /\ ~(N + i <= N) /\ (N + i) - N = i
      BY <1>6
    <2> QED BY <1>5, <2>1
  <1>12. \A i \in 1 .. N + M : i \in 1 .. N \/ (i - N \in 1 .. M /\ N + (i - N) = i)
    BY <1>6
  <1>13. ToSet(c) = ToSet(s1) \cup ToSet(s2)
    <2>1. ASSUME NEW x \in ToSet(c) PROVE x \in ToSet(s1) \cup ToSet(s2)
      <3>1. PICK i \in 1 .. N + M : x = c[i]
        BY <1>9 DEF ToSet
      <3>2. CASE i \in 1 .. N
        BY <1>1, <1>10, <3>1, <3>2
      <3>3. CASE i - N \in 1 .. M /\ N + (i - N) = i
        BY <1>2, <1>11, <3>1, <3>3
      <3> QED BY <1>12, <3>2, <3>3
    <2>2. ASSUME NEW x \in ToSet(s1) PROVE x \in ToSet(c)
      <3>1. PICK i \in 1 .. N : x = s1[i]
        BY <1>1
      <3> QED BY <1>9, <1>10, <3>1 DEF ToSet
    <2>3. ASSUME NEW x \in ToSet(s2) PROVE x \in ToSet(c)
      <3>1. PICK i \in 1 .. M : x = s2[i]
        BY <1>2
      <3> QED BY <1>9, <1>11, <3>1 DEF ToSet
    <2> QED BY <2>1, <2>2, <2>3
  <1>14. IsInjective(c)
    <2> SUFFICES ASSUME NEW i \in 1 .. N + M, NEW j \in 1 .. N + M, c[i] = c[j] PROVE i = j
      BY <1>9 DEF IsInjective
    <2>1. CASE i \in 1 .. N /\ j \in 1 .. N
      BY <1>1, <1>10, <2>1
    <2>2. CASE i \in 1 .. N /\ j - N \in 1 .. M /\ N + (j - N) = j
      <3>1. c[i] \in ToSet(s1) /\ c[j] \in ToSet(s2)
        BY <1>1, <1>2, <1>10, <1>11, <2>2
      <3> QED BY <3>1
    <2>3. CASE j \in 1 .. N /\ i - N \in 1 .. M /\ N + (i - N) = i
      <3>1. c[j] \in ToSet(s1) /\ c[i] \in ToSet(s2)
        BY <1>1, <1>2, <1>10, <1>11, <2>3
      <3> QED BY <3>1
    <2>4. CASE i - N \in 1 .. M /\ N + (i - N) = i /\ j - N \in 1 .. M /\ N + (j - N) = j
      <3>1. s2[i - N] = s2[j - N]
        BY <1>11, <2>4
      <3>2. i - N = j - N
        BY <1>2, <2>4, <3>1
      <3> QED BY <2>4, <3>2
    <2> QED BY <1>12, <2>1, <2>2, <2>3, <2>4
  <1>15. ASSUME NEW i \in 1 .. N + M PROVE g[c[i]] = c[After(N + M, i)]
    <2>1. CASE i \in 1 .. N /\ i # N
      <3>1. After(N, i) = i + 1 /\ i + 1 \in 1 .. N /\ After(N + M, i) = i + 1
        BY <1>6, <2>1 DEF After
      <3>2. s1[i] # t1 /\ s1[i] # t2 /\ s1[i] \in DOMAIN f
        BY <1>1, <1>3, <1>6, <1>7, <2>1
      <3>3. g[s1[i]] = s1[i + 1]
        BY <1>3, <1>8, <2>1, <3>1, <3>2
      <3> QED BY <1>10, <2>1, <3>1, <3>3
    <2>2. CASE i = N
      <3>1. After(N + M, i) = N + 1
        BY <1>2, <1>6, <2>2 DEF After
      <3> QED BY <1>3, <1>6, <1>8, <1>10, <1>11, <2>2, <3>1
    <2>3. CASE i - N \in 1 .. M /\ N + (i - N) = i /\ i # N + M
      <3> DEFINE k == i - N
      <3>1. k # M /\ After(M, k) = k + 1 /\ k + 1 \in 1 .. M /\ After(N + M, i) = N + (k + 1)
        BY <1>6, <2>3 DEF After
      <3>2. k \in 1 .. M /\ c[i] = s2[k]
        BY <1>11, <2>3
      <3> HIDE DEF k
      <3>3. s2[k] # t1 /\ s2[k] # t2 /\ s2[k] \in DOMAIN f
        BY <1>2, <1>4, <1>6, <1>7, <3>1, <3>2
      <3>4. g[s2[k]] = s2[k + 1]
        BY <1>4, <1>8, <3>1, <3>2, <3>3
      <3> QED BY <1>11, <3>1, <3>2, <3>4
    <2>4. CASE i = N + M
      <3>1. After(N + M, i) = 1
        BY <2>4 DEF After
      <3> QED BY <1>4, <1>6, <1>8, <1>10, <1>11, <2>4, <3>1
    <2> QED BY <1>12, <2>1, <2>2, <2>3, <2>4
  <1>16. c # << >> /\ c[N + M] = t2
    <2>1. c # << >>
      BY <1>1, <1>2, <1>5
    <2> QED BY <1>4, <1>6, <1>11, <2>1
  <1>17. Ring(g, t2, c)
    BY <1>5, <1>8, <1>14, <1>15, <1>16 DEF Ring
  <1> QED BY <1>7, <1>8, <1>13, <1>17 DEF c, RingsJoined

(* A ring given to an empty list, or two lists merged. *)
LEMMA TwoLists ==
    ASSUME NEW f, NEW T, NEW S, Lists(f, T, S), NEW d \in List, NEW e \in List, d # e,
           NEW g, NEW z, NEW s, Ring(g, z, s), ToSet(s) = ToSet(S[d]) \cup ToSet(S[e]),
           DOMAIN g = DOMAIN f, \A x \in DOMAIN f \ ToSet(s) : g[x] = f[x]
    PROVE  Lists(g, [T EXCEPT ![d] = z, ![e] = NoNode], [S EXCEPT ![d] = s, ![e] = << >>])
  <1> DEFINE T2 == [T EXCEPT ![d] = z, ![e] = NoNode]  S2 == [S EXCEPT ![d] = s, ![e] = << >>]
  <1>1. /\ T = [k \in List |-> T[k]] /\ S = [k \in List |-> S[k]]
        /\ IsFiniteSet(DOMAIN f) /\ DOMAIN f \subseteq Atom
        /\ \A k \in List : Ring(f, T[k], S[k])
        /\ \A j, k \in List : j # k => ToSet(S[j]) \cap ToSet(S[k]) = {}
        /\ \A n \in DOMAIN f : \E k \in List : n \in ToSet(S[k])
    BY DEF Lists
  <1>2. /\ T2 = [k \in List |-> T2[k]] /\ S2 = [k \in List |-> S2[k]]
        /\ T2[d] = z /\ S2[d] = s /\ T2[e] = NoNode /\ S2[e] = << >>
        /\ \A k \in List : k # d /\ k # e => T2[k] = T[k] /\ S2[k] = S[k]
    BY <1>1
  <1>3. ToSet(<< >>) = {} /\ Ring(g, NoNode, << >>)
    <2>1. << >> \in Seq(DOMAIN g) /\ Len(<< >>) = 0
      BY EmptySeq
    <2> QED BY <2>1 DEF ToSet, IsInjective, Ring
  <1> HIDE DEF T2, S2
  <1>4. \A k \in List : k # d /\ k # e => ToSet(S[k]) \cap ToSet(s) = {}
    BY <1>1
  <1>5. ASSUME NEW k \in List PROVE Ring(g, T2[k], S2[k])
    <2>1. CASE k = d \/ k = e
      BY <1>2, <1>3, <2>1
    <2>2. CASE k # d /\ k # e
      <3>1. Ring(f, T[k], S[k])
        BY <1>1
      <3>2. \A n \in ToSet(S[k]) : n \in DOMAIN f
        BY <3>1, RingKinds
      <3>3. \A n \in ToSet(S[k]) : n \in DOMAIN g /\ g[n] = f[n]
        BY <1>4, <2>2, <3>2
      <3>4. Ring(g, T[k], S[k])
        BY <3>1, <3>3, RingKept
      <3> QED BY <1>2, <2>2, <3>4
    <2> QED BY <2>1, <2>2
  <1>6. ASSUME NEW j \in List, NEW k \in List, j # k PROVE ToSet(S2[j]) \cap ToSet(S2[k]) = {}
    <2>1. CASE j = e \/ k = e
      BY <1>2, <1>3, <2>1
    <2>2. CASE j # e /\ k # e
      BY <1>1, <1>2, <1>4, <1>6, <2>2
    <2> QED BY <2>1, <2>2
  <1>7. ASSUME NEW n \in DOMAIN g PROVE \E k \in List : n \in ToSet(S2[k])
    <2>1. PICK k \in List : n \in ToSet(S[k])
      BY <1>1
    <2>2. CASE k = d \/ k = e
      BY <1>2, <2>1, <2>2
    <2>3. CASE k # d /\ k # e
      BY <1>2, <2>1, <2>3
    <2> QED BY <2>2, <2>3
  <1>8. Lists(g, T2, S2)
    BY <1>1, <1>2, <1>5, <1>6, <1>7 DEF Lists
  <1> QED BY <1>8 DEF T2, S2

-----------------------------------------------------------------------------
(***************************************************************************)
(* What the operations do to the lists                                     *)
(***************************************************************************)

(* After a step the lists have the nodes S2. *)
Becoming(S2) ==
    /\ Lists(listNext', tail', S2)
    /\ listData' \in [DOMAIN listNext' -> Element]
    /\ ChunkInv(nodeChunk', DOMAIN listNext')

(* The invariant holds again once the lists have nodes S2, and NodesOf finds them. *)
LEMMA BecomingIs ==
    ASSUME NEW S2, Becoming(S2)
    PROVE  ListInv' /\ \A l \in List : NodesOf(l)' = S2[l]
  <1>1. Lists(listNext', tail', S2)
    BY DEF Becoming
  <1>2. ASSUME NEW l \in List PROVE NodesOf(l)' = S2[l]
    <2>1. RingFrom(listNext', tail'[l]) = S2[l]
      BY <1>1, ListsAre
    <2> QED BY <2>1 DEF NodesOf
  <1>3. S2 = [l \in List |-> S2[l]]
    BY <1>1 DEF Lists
  <1>4. Nodes' = S2
    <2>1. Nodes' = [l \in List |-> NodesOf(l)']
      BY DEF Nodes
    <2> QED BY <1>2, <1>3, <2>1
  <1>5. ListInv'
    BY <1>1, <1>4 DEF ListInv, Becoming, Live
  <1> QED BY <1>2, <1>5

(* What the invariant says of one list. *)
LEMMA ListKinds ==
    ASSUME ListInv, NEW l \in List
    PROVE  /\ Nodes[l] = NodesOf(l) /\ Ring(listNext, tail[l], NodesOf(l))
           /\ NodesOf(l) \in Seq(Live) /\ NodesOf(l) \in Seq(Atom) /\ ToSet(NodesOf(l)) \subseteq Live
           /\ Live \subseteq Atom /\ IsFiniteSet(Live) /\ NoNode \notin Live
           /\ (tail[l] = NoNode <=> NodesOf(l) = << >>)
           /\ tail = [k \in List |-> tail[k]] /\ listData \in [Live -> Element]
  <1>1. Lists(listNext, tail, Nodes) /\ listData \in [Live -> Element]
    BY DEF ListInv
  <1>2. Nodes[l] = NodesOf(l)
    BY DEF Nodes
  <1>3. /\ Ring(listNext, tail[l], NodesOf(l)) /\ ToSet(NodesOf(l)) \subseteq Live
        /\ Live \subseteq Atom
    BY <1>1, <1>2, ListsKinds DEF Live
  <1>4. IsFiniteSet(Live) /\ tail = [k \in List |-> tail[k]]
    BY <1>1 DEF Lists, Live
  <1>5. NoNode \notin Live
    BY <1>3, ChunkAssumption DEF NoNode, Atom
  <1>6. NodesOf(l) \in Seq(Live) /\ NodesOf(l) \in Seq(Atom)
    <2>1. NodesOf(l) \in Seq(Live)
      BY <1>3 DEF Ring, Live
    <2> QED BY <1>3, <2>1, SeqMonotonic
  <1>7. tail[l] = NoNode <=> NodesOf(l) = << >>
    <2>1. tail[l] = IF NodesOf(l) = << >> THEN NoNode ELSE NodesOf(l)[Len(NodesOf(l))]
      BY <1>3 DEF Ring
    <2>2. NodesOf(l) # << >> => NodesOf(l)[Len(NodesOf(l))] \in Live
      <3>1. NodesOf(l) # << >> => Len(NodesOf(l)) \in 1 .. Len(NodesOf(l))
        BY <1>6, EmptySeq
      <3> QED BY <1>6, <3>1, ElementOfSeq
    <2> QED BY <1>5, <2>1, <2>2
  <1> QED BY <1>1, <1>2, <1>3, <1>4, <1>5, <1>6, <1>7

(* The match that ll_find and its kin find is the first element with the data. *)
LEMMA MatchIs ==
    ASSUME NEW l, NEW d, Len(NodesOf(l)) \in Nat, Match(l, d) # 0
    PROVE  /\ Match(l, d) \in 1 .. Len(NodesOf(l)) /\ listData[NodesOf(l)[Match(l, d)]] = d
           /\ \A j \in 1 .. Match(l, d) - 1 : listData[NodesOf(l)[j]] # d
  <1> DEFINE n == Len(NodesOf(l))  I == {i \in 1 .. n : listData[NodesOf(l)[i]] = d}
  <1>1. Match(l, d) = IF I # {} THEN Min(I) ELSE 0
    BY DEF Match, SelectInSeq
  <1>2. I # {} /\ Match(l, d) = Min(I)
    BY <1>1
  <1> HIDE DEF I
  <1>3. \E x \in I : \A y \in I : x =< y
    <2>1. I \in SUBSET Nat
      BY DEF I
    <2> QED BY <1>2, <2>1, LeastExists
  <1>4. Min(I) \in I /\ \A y \in I : Min(I) =< y
    BY <1>3 DEF Min
  <1>5. Match(l, d) \in I /\ \A y \in I : Match(l, d) =< y
    BY <1>2, <1>4
  <1>6. Match(l, d) \in 1 .. n /\ listData[NodesOf(l)[Match(l, d)]] = d
    BY <1>5 DEF I
  <1>7. ASSUME NEW j \in 1 .. Match(l, d) - 1 PROVE listData[NodesOf(l)[j]] # d
    <2>1. j \in 1 .. n /\ ~(Match(l, d) =< j)
      BY <1>6
    <2>2. j \notin I
      BY <1>5, <2>1
    <2> QED BY <2>1, <2>2 DEF I
  <1> QED BY <1>6, <1>7

(* ll_prepend and ll_append put a node n that was not in use at an end of the list. *)
LEMMA AddStep ==
    ASSUME ListInv, NEW l \in List, NEW d \in Element, NEW append \in BOOLEAN, add(l, d, append)
    PROVE  \E n \in Atom \ Live :
              /\ Becoming([Nodes EXCEPT ![l] = IF append THEN Append(NodesOf(l), n)
                                               ELSE <<n>> \o NodesOf(l)])
              /\ listData' = With(listData, n, d)
  <1> DEFINE r == mc_alloc(nodeChunk)  n == r.mem  s == NodesOf(l)  z == tail[l]
             s2 == IF append THEN Append(s, n) ELSE <<n>> \o s
             t2 == IF empty(l) \/ append THEN n ELSE z
  <1>1. /\ ~Exhausted(nodeChunk) /\ nodeChunk' = r.c /\ listData' = With(listData, n, d)
        /\ listNext' = IF empty(l) THEN With(listNext, n, n) ELSE [With(listNext, n, head(l)) EXCEPT ![z] = n]
        /\ tail' = IF empty(l) \/ append THEN [tail EXCEPT ![l] = n] ELSE tail
    BY DEF add
  <1>2. Lists(listNext, tail, Nodes) /\ listData \in [Live -> Element] /\ ChunkInv(nodeChunk, Live)
    BY DEF ListInv
  <1>3. Allocated(r, Live)
    BY <1>1, <1>2, AllocKeeps
  <1> HIDE DEF r
  <1>4. n \in Atom \ Live /\ ChunkInv(nodeChunk', Live \cup {n})
    BY <1>1, <1>3 DEF Allocated
  <1>5. /\ Nodes[l] = s /\ Ring(listNext, z, s) /\ s \in Seq(Live)
        /\ Live \subseteq Atom /\ IsFiniteSet(Live) /\ NoNode \notin Live
        /\ (z = NoNode <=> s = << >>) /\ tail = [k \in List |-> tail[k]]
        /\ ToSet(s) \subseteq Live
    BY <1>2, ListKinds
  <1> HIDE DEF n
  <1>6. tail' = [tail EXCEPT ![l] = t2]
    BY <1>1, <1>5
  <1>7. /\ Ring(listNext', t2, s2) /\ DOMAIN listNext' = Live \cup {n}
        /\ ToSet(s2) = ToSet(s) \cup {n}
        /\ \A x \in Live \ ToSet(s) : listNext'[x] = listNext[x]
    <2>1. CASE empty(l)
      <3>1. s = << >> /\ listNext' = With(listNext, n, n) /\ t2 = n
        BY <1>1, <1>5, <2>1 DEF empty
      <3>2. /\ DOMAIN listNext' = Live \cup {n} /\ listNext'[n] = n
            /\ \A x \in Live : listNext'[x] = listNext[x]
        BY <1>4, <3>1 DEF With, Live
      <3>3. Ring(listNext', n, <<n>>) /\ ToSet(<<n>>) = {n}
        BY <3>2, RingOfOne
      <3>4. s2 = <<n>> /\ ToSet(s) = {}
        BY <3>1 DEF ToSet
      <3> HIDE DEF s2, s, t2
      <3> QED BY <3>1, <3>2, <3>3, <3>4
    <2>2. CASE ~empty(l)
      <3>1. s # << >> /\ listNext' = [With(listNext, n, listNext[z]) EXCEPT ![z] = n]
        BY <1>1, <1>5, <2>2 DEF empty, head
      <3>2. DOMAIN listNext = Live
        BY DEF Live
      <3>3. t2 = IF append THEN n ELSE z
        BY <2>2
      <3> HIDE DEF s, z, t2
      <3>4. /\ Ring(listNext', n, Append(s, n)) /\ Ring(listNext', z, <<n>> \o s)
            /\ DOMAIN listNext' = Live \cup {n}
            /\ ToSet(Append(s, n)) = ToSet(s) \cup {n} /\ ToSet(<<n>> \o s) = ToSet(s) \cup {n}
            /\ \A x \in Live : x # z => listNext'[x] = listNext[x]
        <4>1. DOMAIN listNext \subseteq Atom /\ n \in Atom /\ n \notin DOMAIN listNext
          BY <1>4, <1>5, <3>2
        <4>2. Ring(listNext, z, s) /\ s # << >>
          BY <1>5, <3>1
        <4>3. listNext' = [With(listNext, n, listNext[z]) EXCEPT ![z] = n]
          BY <3>1
        <4>4. RingAdded(listNext, z, s, n, listNext')
          BY <4>1, <4>2, <4>3, RingWith
        <4> QED BY <3>2, <4>4 DEF RingAdded
      <3>5. z \in ToSet(s)
        <4>1. Len(s) \in 1 .. Len(s) /\ z = s[Len(s)] /\ DOMAIN s = 1 .. Len(s)
          BY <1>5, <3>1, EmptySeq, LenProperties DEF Ring
        <4> QED BY <4>1 DEF ToSet
      <3> QED BY <3>3, <3>4, <3>5
    <2> QED BY <2>1, <2>2
  <1>8. listData' \in [DOMAIN listNext' -> Element]
    BY <1>1, <1>2, <1>7 DEF With
  <1> HIDE DEF s2, t2, s, z
  <1>9. OneChanged(listNext, listNext', Nodes[l], s2)
    <2>1. IsFiniteSet(Live \cup {n})
      BY <1>5, FS_AddElement
    <2> QED BY <1>4, <1>5, <1>7, <2>1 DEF OneChanged, Live
  <1>10. Lists(listNext', [tail EXCEPT ![l] = t2], [Nodes EXCEPT ![l] = s2])
    BY <1>2, <1>7, <1>9, OneList
  <1>11. Becoming([Nodes EXCEPT ![l] = s2])
    BY <1>4, <1>6, <1>7, <1>8, <1>10 DEF Becoming
  <1> QED BY <1>1, <1>4, <1>11 DEF s2, s

(* A node that is unlinked leaves the list, and the others stay in their order. *)
LEMMA UnlinkStep ==
    ASSUME ListInv, NEW l \in List, NEW i \in 1 .. Len(NodesOf(l)), Unlinked(l, NodesOf(l)[i])
    PROVE  /\ Becoming([Nodes EXCEPT ![l] = RemoveAt(NodesOf(l), i)])
           /\ listData' = Unlinking(listData, {NodesOf(l)[i]})
  <1> DEFINE s == NodesOf(l)  n == s[i]  z == tail[l]  p == Previous(l, n)  s2 == RemoveAt(s, i)
             t2 == IF p = n THEN NoNode ELSE IF n = z THEN p ELSE z
  <1>1. /\ tail' = IF p = n THEN [tail EXCEPT ![l] = NoNode]
                   ELSE IF n = z THEN [tail EXCEPT ![l] = p] ELSE tail
        /\ listNext' = Unlinking([listNext EXCEPT ![p] = listNext[n]], {n})
        /\ listData' = Unlinking(listData, {n})
        /\ nodeChunk' = mc_free_atom(nodeChunk, n)
    BY DEF Unlinked
  <1>2. Lists(listNext, tail, Nodes) /\ listData \in [Live -> Element] /\ ChunkInv(nodeChunk, Live)
    BY DEF ListInv
  <1>3. /\ Nodes[l] = s /\ Ring(listNext, z, s) /\ s \in Seq(Live)
        /\ Live \subseteq Atom /\ IsFiniteSet(Live) /\ tail = [k \in List |-> tail[k]]
        /\ ToSet(s) \subseteq Live
    BY <1>2, ListKinds
  <1>4. p = s[Before(Len(s), i)]
    BY <1>3, PreviousIs DEF Previous
  <1>5. tail' = [tail EXCEPT ![l] = t2]
    BY <1>1, <1>3
  <1>6. DOMAIN listNext = Live
    BY DEF Live
  <1> HIDE DEF p, z
  <1>7. /\ Ring(listNext', t2, s2)
        /\ DOMAIN listNext' = Live \ {n} /\ p \in Live /\ n \in Live
        /\ ToSet(s2) = ToSet(s) \ {n}
        /\ \A x \in DOMAIN listNext' : listNext'[x] = IF x = p THEN listNext[n] ELSE listNext[x]
    <2>1. i \in 1 .. Len(s) /\ n = s[i] /\ p = s[Before(Len(s), i)]
      BY <1>4
    <2>2. DOMAIN listNext \subseteq Atom /\ Ring(listNext, z, s)
      BY <1>3, <1>6
    <2>3. listNext' = Unlinking([listNext EXCEPT ![p] = listNext[n]], {n})
      BY <1>1
    <2> HIDE DEF s, n
    <2>4. RingLess(listNext, z, s, i, n, p, listNext')
      BY <2>1, <2>2, <2>3, RingWithout
    <2> QED BY <1>6, <2>4 DEF RingLess, n
  <1>8. n \in ToSet(s) /\ p \in ToSet(s)
    <2>1. /\ Len(s) \in Nat /\ \A j \in 1 .. Len(s) : s[j] \in ToSet(s)
      BY <1>3, RingKinds
    <2>2. Before(Len(s), i) \in 1 .. Len(s)
      BY <2>1, NextPositions
    <2> QED BY <1>4, <2>1, <2>2
  <1> HIDE DEF s, s2, t2, n
  <1>9. OneChanged(listNext, listNext', Nodes[l], s2)
    <2>1. IsFiniteSet(Live \ {n})
      BY <1>3, FS_RemoveElement, <1>7
    <2> QED BY <1>3, <1>7, <1>8, <2>1 DEF OneChanged, Live
  <1>10. Lists(listNext', [tail EXCEPT ![l] = t2], [Nodes EXCEPT ![l] = s2])
    BY <1>2, <1>7, <1>9, OneList
  <1>11. listData' \in [DOMAIN listNext' -> Element]
    BY <1>1, <1>2, <1>7 DEF Unlinking
  <1>12. ChunkInv(nodeChunk', DOMAIN listNext')
    BY <1>1, <1>2, <1>7, FreeKeeps
  <1>13. Becoming([Nodes EXCEPT ![l] = s2])
    BY <1>5, <1>10, <1>11, <1>12 DEF Becoming
  <1> QED BY <1>1, <1>13 DEF s2, s, n

(* A node of a ring moves from the i-th place to the head. *)
LEMMA RingFront ==
    ASSUME NEW f, NEW z, NEW s, Ring(f, z, s), DOMAIN f \subseteq Atom, NEW i \in 2 .. Len(s) - 1,
           NEW n, n = s[i], NEW p, p = s[Before(Len(s), i)],
           NEW g, g = [f EXCEPT ![p] = f[n], ![n] = f[z], ![z] = n]
    PROVE  Ring(g, z, <<n>> \o RemoveAt(s, i)) /\ ToSet(<<n>> \o RemoveAt(s, i)) = ToSet(s)
  <1> DEFINE N == Len(s)  h == Unlinking([f EXCEPT ![p] = f[n]], {n})  r == RemoveAt(s, i)
  <1>1. /\ s \in Seq(DOMAIN f) /\ N \in Nat
        /\ \A j \in 1 .. N : s[j] \in DOMAIN f /\ s[j] \in ToSet(s)
        /\ \A j, k \in 1 .. N : s[j] = s[k] => j = k
    BY RingKinds
  <1>2. /\ i \in 1 .. N /\ Before(N, i) = i - 1 /\ i - 1 \in 1 .. N /\ N \in 1 .. N
        /\ i # N /\ i - 1 # N /\ i - 1 # i /\ N - 1 # 0
    BY <1>1 DEF Before
  <1>3. z = s[N]
    <2>1. s # << >>
      BY <1>2
    <2> QED BY <2>1 DEF Ring
  <1>4. n # z /\ p # n /\ p # z /\ n \in DOMAIN f /\ p \in DOMAIN f /\ z \in DOMAIN f /\ n \in ToSet(s)
    BY <1>1, <1>2, <1>3
  <1>5. RingLess(f, z, s, i, n, p, h)
    <2> HIDE DEF h
    <2>1. h = Unlinking([f EXCEPT ![p] = f[n]], {n})
      BY DEF h
    <2> QED BY <1>2, <2>1, RingWithout
  <1> HIDE DEF h, r
  <1>6. /\ Ring(h, z, r) /\ DOMAIN h = DOMAIN f \ {n} /\ ToSet(r) = ToSet(s) \ {n}
        /\ \A x \in DOMAIN h : h[x] = IF x = p THEN f[n] ELSE f[x]
    BY <1>4, <1>5 DEF RingLess, r
  <1>7. r # << >>
    <2>1. Len(r) = N - 1
      BY <1>1, <1>2, RemoveAtIs DEF r
    <2> QED BY <1>2, <2>1
  <1>8. g = [With(h, n, h[z]) EXCEPT ![z] = n]
    <2>1. h[z] = f[z] /\ z \in DOMAIN h
      BY <1>4, <1>6
    <2>2. DOMAIN h \cup {n} = DOMAIN f
      BY <1>4, <1>6
    <2>3. With(h, n, h[z]) = [x \in DOMAIN f |-> IF x = n THEN f[z] ELSE IF x = p THEN f[n] ELSE f[x]]
      BY <1>6, <2>1, <2>2 DEF With
    <2>4. [With(h, n, h[z]) EXCEPT ![z] = n] =
          [x \in DOMAIN f |-> IF x = z THEN n ELSE IF x = n THEN f[z] ELSE IF x = p THEN f[n] ELSE f[x]]
      BY <1>4, <2>3
    <2>5. g = [x \in DOMAIN f |-> IF x = z THEN n ELSE IF x = n THEN f[z] ELSE IF x = p THEN f[n] ELSE f[x]]
      BY <1>4
    <2> QED BY <2>4, <2>5
  <1>9. DOMAIN h \subseteq Atom /\ n \in Atom /\ n \notin DOMAIN h
    BY <1>4, <1>6
  <1>10. RingAdded(h, z, r, n, g)
    BY <1>6, <1>7, <1>8, <1>9, RingWith
  <1>11. Ring(g, z, <<n>> \o r) /\ ToSet(<<n>> \o r) = ToSet(r) \cup {n}
    BY <1>10 DEF RingAdded
  <1>12. ToSet(<<n>> \o r) = ToSet(s)
    <2>1. ToSet(<<n>> \o r) = (ToSet(s) \ {n}) \cup {n}
      BY <1>6, <1>11
    <2>2. n \in ToSet(s)
      BY <1>4
    <2> QED BY ONLY <2>1, <2>2
  <1> QED BY <1>11, <1>12 DEF r

(* What only changes the order of a list is a step of the lists. *)
LEMMA SameNodes ==
    ASSUME ListInv, NEW l \in List, NEW z, NEW s, Ring(listNext', z, s), ToSet(s) = ToSet(NodesOf(l)),
           DOMAIN listNext' = Live, \A x \in Live \ ToSet(s) : listNext'[x] = listNext[x],
           tail' = [tail EXCEPT ![l] = z], UNCHANGED <<listData, nodeChunk>>
    PROVE  Becoming([Nodes EXCEPT ![l] = s])
  <1>1. Lists(listNext, tail, Nodes) /\ listData \in [Live -> Element] /\ ChunkInv(nodeChunk, Live)
    BY DEF ListInv
  <1>2. Nodes[l] = NodesOf(l) /\ ToSet(NodesOf(l)) \subseteq Live /\ Live \subseteq Atom /\ IsFiniteSet(Live)
    BY ListKinds
  <1>3. OneChanged(listNext, listNext', Nodes[l], s)
    BY <1>2 DEF OneChanged, Live
  <1>4. Lists(listNext', [tail EXCEPT ![l] = z], [Nodes EXCEPT ![l] = s])
    BY <1>1, <1>3, OneList
  <1> QED BY <1>1, <1>4 DEF Becoming

(* ll_find_adj moves the first match to the front. *)
LEMMA FrontStep ==
    ASSUME ListInv, NEW l \in List, NEW d, ll_find_adj(l, d)
    PROVE  /\ Match(l, d) \in 2 .. Len(NodesOf(l)) /\ listData' = listData
           /\ Becoming([Nodes EXCEPT ![l] = <<NodesOf(l)[Match(l, d)]>> \o RemoveAt(NodesOf(l), Match(l, d))])
  <1> DEFINE i == Match(l, d)  s == NodesOf(l)  n == s[i]  z == tail[l]  p == Previous(l, n)
             s2 == <<n>> \o RemoveAt(s, i)
  <1>1. /\ i > 1 /\ UNCHANGED <<listData, nodeChunk>>
        /\ n = z => tail' = [tail EXCEPT ![l] = p] /\ listNext' = listNext
        /\ n # z => /\ listNext' = [listNext EXCEPT ![p] = listNext[n], ![n] = listNext[z], ![z] = n]
                    /\ tail' = tail
    BY DEF ll_find_adj, head
  <1>2. /\ Ring(listNext, z, s) /\ s \in Seq(Live) /\ DOMAIN listNext = Live
        /\ Live \subseteq Atom /\ tail = [k \in List |-> tail[k]] /\ ToSet(s) \subseteq Live
    BY ListKinds DEF Live
  <1>3. /\ Len(s) \in Nat /\ \A j \in 1 .. Len(s) : s[j] \in ToSet(s)
        /\ \A j, k \in 1 .. Len(s) : s[j] = s[k] => j = k
    BY <1>2, RingKinds
  <1>4. i \in 1 .. Len(s) /\ i \in 2 .. Len(s)
    <2>1. i \in 1 .. Len(s)
      <3>1. i # 0
        BY <1>1
      <3> QED BY <1>3, <3>1, MatchIs
    <2> QED BY <1>1, <2>1
  <1>5. p = s[Before(Len(s), i)] /\ Before(Len(s), i) = i - 1
    <2>1. p = s[Before(Len(s), i)]
      BY <1>2, <1>4, PreviousIs DEF Previous
    <2> QED BY <1>4, <2>1 DEF Before
  <1>6. z = s[Len(s)] /\ Len(s) \in 1 .. Len(s)
    <2>1. s # << >> /\ Len(s) \in 1 .. Len(s)
      BY <1>3, <1>4
    <2> QED BY <1>2, <2>1 DEF Ring
  <1>7. DOMAIN listNext \subseteq Atom
    BY <1>2
  <1> HIDE DEF i, s, p, z
  <1>8. CASE n = z
    <2>1. i = Len(s) /\ Len(s) > 1
      BY <1>3, <1>4, <1>6, <1>8
    <2>2. Ring(listNext, s[Len(s) - 1], <<z>> \o RemoveAt(s, Len(s)))
          /\ ToSet(<<z>> \o RemoveAt(s, Len(s))) = ToSet(s)
      BY <1>2, <1>7, <2>1, RingTurned
    <2>3. Ring(listNext', p, s2) /\ ToSet(s2) = ToSet(s)
      BY <1>1, <1>5, <1>8, <2>1, <2>2
    <2>4. listNext' = listNext /\ tail' = [tail EXCEPT ![l] = p] /\ ToSet(s) = ToSet(NodesOf(l))
      BY <1>1, <1>8 DEF s
    <2> HIDE DEF s2, n
    <2>5. Becoming([Nodes EXCEPT ![l] = s2])
      BY <1>1, <1>2, <2>3, <2>4, SameNodes
    <2> QED BY <1>1, <1>4, <2>5 DEF s2, n, i, s
  <1>9. CASE n # z
    <2>1. i \in 2 .. Len(s) - 1
      <3>1. i # Len(s)
        BY <1>6, <1>9
      <3> QED BY <1>3, <1>4, <3>1
    <2>2. listNext' = [listNext EXCEPT ![p] = listNext[n], ![n] = listNext[z], ![z] = n]
      BY <1>1, <1>9
    <2>3. Ring(listNext', z, <<n>> \o RemoveAt(s, i)) /\ ToSet(<<n>> \o RemoveAt(s, i)) = ToSet(s)
      <3>1. n = s[i] /\ p = s[Before(Len(s), i)]
        BY <1>5
      <3> HIDE DEF n
      <3> QED BY <1>2, <1>7, <2>1, <2>2, <3>1, RingFront, ZenonT(60)
    <2>4. p \in ToSet(s) /\ n \in ToSet(s) /\ z \in ToSet(s)
      <3>1. i - 1 \in 1 .. Len(s)
        BY <1>3, <1>4
      <3> QED BY <1>3, <1>4, <1>5, <1>6, <3>1
    <2>5. DOMAIN listNext' = Live /\ \A x \in Live \ ToSet(s2) : listNext'[x] = listNext[x]
      BY <1>2, <2>2, <2>3, <2>4
    <2>6. tail' = [tail EXCEPT ![l] = z] /\ ToSet(s2) = ToSet(NodesOf(l)) /\ Ring(listNext', z, s2)
      BY <1>1, <1>2, <1>9, <2>3 DEF s, z
    <2> HIDE DEF s2, n
    <2>7. Becoming([Nodes EXCEPT ![l] = s2])
      BY <1>1, <2>5, <2>6, SameNodes
    <2> QED BY <1>1, <1>4, <2>7 DEF s2, n, i, s
  <1> QED BY <1>8, <1>9

(* ll_reverse turns a list round. *)
LEMMA ReverseStep ==
    ASSUME ListInv, NEW l \in List, ll_reverse(l)
    PROVE  Becoming([Nodes EXCEPT ![l] = Reverse(NodesOf(l))]) /\ listData' = listData
  <1> DEFINE s == NodesOf(l)  z == tail[l]  r == Reverse(s)
  <1>1. /\ z # NoNode /\ UNCHANGED <<listData, nodeChunk>>
        /\ listNext' = [n \in Live |-> IF n \in ToSet(s) THEN Previous(l, n) ELSE listNext[n]]
        /\ tail' = [tail EXCEPT ![l] = listNext[z]]
    BY DEF ll_reverse, empty, head
  <1>2. /\ Ring(listNext, z, s) /\ s # << >> /\ ToSet(s) \subseteq Live
    BY <1>1, ListKinds
  <1>3. /\ Len(s) \in Nat /\ \A j \in 1 .. Len(s) : s[j] \in ToSet(s)
    BY <1>2, RingKinds
  <1>4. \A i \in 1 .. Len(s) : Previous(l, s[i]) = s[Before(Len(s), i)]
    BY <1>2, PreviousIs DEF Previous
  <1>5. \A i \in 1 .. Len(s) : s[i] \in DOMAIN listNext' /\ listNext'[s[i]] = s[Before(Len(s), i)]
    BY <1>1, <1>2, <1>3, <1>4
  <1>6. Ring(listNext', listNext[z], r) /\ ToSet(r) = ToSet(s)
    BY <1>2, <1>5, RingReversed
  <1>7. DOMAIN listNext' = Live /\ \A x \in Live \ ToSet(r) : listNext'[x] = listNext[x]
    BY <1>1, <1>6
  <1> HIDE DEF r, z
  <1>8. Becoming([Nodes EXCEPT ![l] = r])
    BY <1>1, <1>6, <1>7, SameNodes
  <1> QED BY <1>1, <1>8 DEF r

(* ll_free empties a list; its nodes are no longer in use. *)
LEMMA FreeListStep ==
    ASSUME ListInv, NEW l \in List, ll_free(l)
    PROVE  /\ Becoming([Nodes EXCEPT ![l] = << >>])
           /\ listData' = Unlinking(listData, ToSet(NodesOf(l)))
  <1> DEFINE s == NodesOf(l)
  <1>1. /\ nodeChunk' = FreeAll(nodeChunk, s)
        /\ listNext' = Unlinking(listNext, ToSet(s)) /\ listData' = Unlinking(listData, ToSet(s))
        /\ tail' = [tail EXCEPT ![l] = NoNode]
    BY DEF ll_free
  <1>2. /\ Lists(listNext, tail, Nodes) /\ listData \in [Live -> Element] /\ ChunkInv(nodeChunk, Live)
    BY DEF ListInv
  <1>3. /\ Nodes[l] = s /\ Ring(listNext, tail[l], s) /\ s \in Seq(Atom) /\ ToSet(s) \subseteq Live
        /\ IsFiniteSet(Live)
    BY ListKinds
  <1>4. /\ DOMAIN listNext' = Live \ ToSet(s)
        /\ \A x \in Live \ ToSet(s) : listNext'[x] = listNext[x]
    BY <1>1 DEF Unlinking, Live
  <1>5. ToSet(<< >>) = {} /\ Ring(listNext', NoNode, << >>)
    <2>1. << >> \in Seq(DOMAIN listNext') /\ Len(<< >>) = 0
      BY EmptySeq
    <2> QED BY <2>1 DEF ToSet, IsInjective, Ring
  <1>6. OneChanged(listNext, listNext', Nodes[l], << >>)
    <2>1. IsFiniteSet(Live \ ToSet(s))
      BY <1>3, FS_Subset
    <2> QED BY <1>3, <1>4, <1>5, <2>1 DEF OneChanged, Live
  <1>7. Lists(listNext', [tail EXCEPT ![l] = NoNode], [Nodes EXCEPT ![l] = << >>])
    BY <1>2, <1>5, <1>6, OneList
  <1>8. listData' \in [DOMAIN listNext' -> Element]
    BY <1>1, <1>2, <1>4 DEF Unlinking
  <1>9. ChunkInv(nodeChunk', DOMAIN listNext')
    <2>1. IsInjective(s)
      BY <1>3 DEF Ring
    <2> HIDE DEF s
    <2> QED BY <1>1, <1>2, <1>3, <1>4, <2>1, FreeAllKeeps
  <1> QED BY <1>1, <1>7, <1>8, <1>9 DEF Becoming

(* ll_merge puts the nodes of one list behind those of the other. *)
LEMMA MergeStep ==
    ASSUME ListInv, NEW d \in List, NEW e \in List, ll_merge(d, e)
    PROVE  /\ Becoming([Nodes EXCEPT ![d] = NodesOf(d) \o NodesOf(e), ![e] = << >>])
           /\ listData' = listData
  <1> DEFINE s1 == NodesOf(d)  s2 == NodesOf(e)  c == s1 \o s2
  <1>1. /\ d # e /\ tail[e] # NoNode /\ UNCHANGED <<listData, nodeChunk>>
        /\ tail' = [tail EXCEPT ![d] = tail[e], ![e] = NoNode]
        /\ listNext' = IF tail[d] = NoNode THEN listNext
                       ELSE [listNext EXCEPT ![tail[d]] = listNext[tail[e]], ![tail[e]] = listNext[tail[d]]]
    BY DEF ll_merge, empty, head
  <1>2. /\ Lists(listNext, tail, Nodes) /\ listData \in [Live -> Element] /\ ChunkInv(nodeChunk, Live)
    BY DEF ListInv
  <1>3. /\ Nodes[d] = s1 /\ Ring(listNext, tail[d], s1) /\ (tail[d] = NoNode <=> s1 = << >>)
        /\ s1 \in Seq(Live)
    BY ListKinds
  <1>4. /\ Nodes[e] = s2 /\ Ring(listNext, tail[e], s2) /\ (tail[e] = NoNode <=> s2 = << >>)
        /\ s2 \in Seq(Live)
    BY ListKinds
  <1>5. ToSet(s1) \cap ToSet(s2) = {}
    <2>1. ToSet(Nodes[d]) \cap ToSet(Nodes[e]) = {}
      BY <1>1, <1>2 DEF Lists
    <2> QED BY <1>3, <1>4, <2>1
  <1>6. s2 # << >>
    BY <1>1, <1>4
  <1> HIDE DEF s1, s2, c
  <1>7. /\ Ring(listNext', tail[e], c) /\ ToSet(c) = ToSet(s1) \cup ToSet(s2)
        /\ DOMAIN listNext' = DOMAIN listNext
        /\ \A x \in DOMAIN listNext \ ToSet(c) : listNext'[x] = listNext[x]
    <2>1. CASE tail[d] = NoNode
      <3>1. s1 = << >> /\ listNext' = listNext
        BY <1>1, <1>3, <2>1
      <3>2. c = s2 /\ ToSet(s1) = {}
        BY <1>4, <3>1, ConcatEmptySeq DEF c, ToSet
      <3> QED BY <1>4, <3>1, <3>2
    <2>2. CASE tail[d] # NoNode
      <3> DEFINE g == [listNext EXCEPT ![tail[d]] = listNext[tail[e]], ![tail[e]] = listNext[tail[d]]]
      <3>1. s1 # << >> /\ listNext' = g
        BY <1>1, <1>3, <2>2
      <3>2. g = [listNext EXCEPT ![tail[d]] = listNext[tail[e]], ![tail[e]] = listNext[tail[d]]]
        OBVIOUS
      <3>3. s1 # << >> /\ Ring(listNext, tail[d], s1) /\ Ring(listNext, tail[e], s2)
        BY <1>3, <1>4, <3>1
      <3> HIDE DEF g
      <3>4. RingsJoined(listNext, s1, tail[e], s2, g)
        BY <1>5, <1>6, <3>2, <3>3, RingsMerged
      <3> QED BY <3>1, <3>4 DEF c, RingsJoined
    <2> QED BY <2>1, <2>2
  <1>8. ToSet(c) = ToSet(Nodes[d]) \cup ToSet(Nodes[e])
    BY <1>3, <1>4, <1>7
  <1>9. Lists(listNext', [tail EXCEPT ![d] = tail[e], ![e] = NoNode], [Nodes EXCEPT ![d] = c, ![e] = << >>])
    BY <1>1, <1>2, <1>7, <1>8, TwoLists
  <1>10. Becoming([Nodes EXCEPT ![d] = c, ![e] = << >>])
    BY <1>1, <1>2, <1>7, <1>9 DEF Becoming, Live
  <1> QED BY <1>1, <1>10 DEF c, s1, s2

(* mc_clean does not touch the lists. *)
LEMMA CleanStep ==
    ASSUME ListInv, Clean
    PROVE  Becoming(Nodes) /\ listData' = listData
  BY CleanKeeps DEF ListInv, Clean, Becoming, Live

(* Deleting the first match, the head or the tail. *)
LEMMA DeleteSteps ==
    ASSUME ListInv, NEW l \in List
    PROVE  /\ \A d : ll_delete(l, d) => /\ Match(l, d) \in 1 .. Len(NodesOf(l))
                                        /\ Unlinked(l, NodesOf(l)[Match(l, d)])
           /\ ll_delete_head(l) => NodesOf(l) # << >> /\ Unlinked(l, NodesOf(l)[1])
           /\ ll_delete_tail(l) => NodesOf(l) # << >> /\ Unlinked(l, NodesOf(l)[Len(NodesOf(l))])
  <1> DEFINE s == NodesOf(l)
  <1>1. /\ Ring(listNext, tail[l], s) /\ (tail[l] = NoNode <=> s = << >>) /\ s \in Seq(Live)
    BY ListKinds
  <1>2. Len(s) \in Nat
    BY <1>1, LenProperties
  <1>3. ASSUME NEW d, ll_delete(l, d)
        PROVE  Match(l, d) \in 1 .. Len(s) /\ Unlinked(l, s[Match(l, d)])
    <2>1. Match(l, d) > 0 /\ Unlinked(l, s[Match(l, d)])
      BY <1>3 DEF ll_delete
    <2>2. Match(l, d) # 0
      BY <2>1
    <2> QED BY <1>2, <2>1, <2>2, MatchIs
  <1>4. ASSUME s # << >> PROVE tail[l] = s[Len(s)] /\ head(l) = s[1]
    <2>1. /\ tail[l] = s[Len(s)] /\ Len(s) \in 1 .. Len(s)
          /\ \A i \in 1 .. Len(s) : listNext[s[i]] = s[After(Len(s), i)]
      BY <1>1, <1>4, EmptySeq DEF Ring
    <2>2. After(Len(s), Len(s)) = 1
      BY DEF After
    <2> QED BY <2>1, <2>2 DEF head
  <1>5. ll_delete_head(l) => s # << >> /\ Unlinked(l, s[1])
    BY <1>1, <1>4 DEF ll_delete_head, empty
  <1>6. ll_delete_tail(l) => s # << >> /\ Unlinked(l, s[Len(s)])
    BY <1>1, <1>4 DEF ll_delete_tail, empty
  <1> QED BY <1>3, <1>5, <1>6

(* The books of a chunk from which nothing was taken balance. *)
LEMMA FreshChunk == ChunkInv(mc_init, {})
  <1> DEFINE c == mc_init
  <1>1. /\ c.mem_areas = {} /\ c.mem_area = NoArea /\ c.free_mem_area = NoArea /\ c.free_atoms = << >>
        /\ c.num_mem_areas = 0 /\ c.num_marked_areas = 0 /\ c.area = [a \in Area |-> FreshArea]
    BY DEF mc_init
  <1>2. FreshArea \in [index : Nat, free : Int, allocated : Int, mark : BOOLEAN]
    BY ChunkAssumption DEF FreshArea
  <1>3. << >> \in Seq(Atom) /\ DOMAIN << >> = {} /\ ToSet(<< >>) = {} /\ IsInjective(<< >>)
    BY EmptySeq DEF ToSet, IsInjective
  <1>4. c \in Chunk
    BY <1>2, <1>3 DEF mc_init, Chunk
  <1> HIDE DEF c
  <1>5. InUse(c) = {} /\ Marked(c) = {}
    BY <1>1 DEF InUse, Marked
  <1>6. IsFiniteSet({}) /\ Cardinality({}) = 0
    BY FS_EmptySet
  <1>7. Pointers(c)
    BY <1>1, <1>5, <1>6 DEF Pointers
  <1>8. Apart({}, {})
    BY <1>6 DEF Apart
  <1>9. Placed(c, {} \cup {})
    BY DEF Placed
  <1>10. ToSet(c.free_atoms) = {} /\ IsInjective(c.free_atoms)
    BY <1>1, <1>3
  <1>11. Books(c, {}, {})
    BY <1>5, <1>7, <1>8, <1>9 DEF Books
  <1> QED BY <1>4, <1>10, <1>11 DEF ChunkInv, c

(* A list that was never used is empty. *)
LEMMA InitListInv ==
    ASSUME ListInit
    PROVE  ListInv /\ Live = {} /\ \A l \in List : NodesOf(l) = << >>
  <1>1. /\ tail = [l \in List |-> NoNode] /\ listNext = [n \in {} |-> n] /\ listData = [n \in {} |-> n]
        /\ nodeChunk = mc_init
    BY DEF ListInit
  <1>2. DOMAIN listNext = {} /\ Live = {}
    BY <1>1 DEF Live
  <1>3. ASSUME NEW l \in List PROVE NodesOf(l) = << >> /\ tail[l] = NoNode
    BY <1>1 DEF NodesOf, RingFrom
  <1>4. << >> \in Seq({}) /\ Len(<< >>) = 0 /\ DOMAIN << >> = {} /\ ToSet(<< >>) = {}
    BY EmptySeq DEF ToSet
  <1>5. Nodes = [l \in List |-> << >>]
    BY <1>3 DEF Nodes
  <1>6. Ring(listNext, NoNode, << >>)
    BY <1>2, <1>4 DEF Ring, IsInjective
  <1>7. Lists(listNext, tail, Nodes)
    <2>1. IsFiniteSet(DOMAIN listNext) /\ DOMAIN listNext \subseteq Atom
      BY <1>2, FS_EmptySet
    <2>2. tail = [l \in List |-> tail[l]] /\ Nodes = [l \in List |-> Nodes[l]]
      BY <1>1, <1>5
    <2>3. \A l \in List : Nodes[l] = << >> /\ tail[l] = NoNode
      BY <1>3, <1>5
    <2> QED BY <1>2, <1>4, <1>6, <2>1, <2>2, <2>3 DEF Lists
  <1>8. listData \in [Live -> Element]
    BY <1>1, <1>2
  <1>9. ChunkInv(nodeChunk, Live)
    <2>1. ChunkInv(mc_init, {})
      BY FreshChunk
    <2> QED BY <1>1, <1>2, <2>1
  <1> QED BY <1>2, <1>3, <1>7, <1>8, <1>9 DEF ListInv

(* Every step keeps the invariant. *)
LEMMA NextListInv ==
    ASSUME ListInv, [ListNext]_listVars
    PROVE  ListInv'
  <1>1. CASE Clean
    BY <1>1, CleanStep, BecomingIs
  <1>2. ASSUME NEW l \in List, NEW n, Unlinked(l, n), NEW i \in 1 .. Len(NodesOf(l)), n = NodesOf(l)[i]
        PROVE  ListInv'
    BY <1>2, UnlinkStep, BecomingIs
  <1>3. ASSUME NEW l \in List, ll_delete_head(l) PROVE ListInv'
    BY <1>2, <1>3, DeleteSteps
  <1>4. ASSUME NEW l \in List, ll_delete_tail(l) PROVE ListInv'
    BY <1>2, <1>4, DeleteSteps
  <1>5. ASSUME NEW l \in List, ll_free(l) PROVE ListInv'
    BY <1>5, FreeListStep, BecomingIs
  <1>6. ASSUME NEW l \in List, ll_reverse(l) PROVE ListInv'
    BY <1>6, ReverseStep, BecomingIs
  <1>7. ASSUME NEW l \in List, NEW s \in List, ll_merge(l, s) PROVE ListInv'
    BY <1>7, MergeStep, BecomingIs
  <1>8. ASSUME NEW l \in List, NEW d \in Element, NEW a \in BOOLEAN, add(l, d, a) PROVE ListInv'
    BY <1>8, AddStep, BecomingIs
  <1>9. ASSUME NEW l \in List, NEW d \in Element, ll_find_adj(l, d) PROVE ListInv'
    BY <1>9, FrontStep, BecomingIs
  <1>10. ASSUME NEW l \in List, NEW d \in Element, ll_delete(l, d) PROVE ListInv'
    BY <1>2, <1>10, DeleteSteps
  <1>11. CASE UNCHANGED listVars
    <2>1. tail' = tail /\ listNext' = listNext /\ listData' = listData /\ nodeChunk' = nodeChunk
      BY <1>11 DEF listVars
    <2>2. Becoming(Nodes)
      BY <2>1 DEF ListInv, Becoming, Live
    <2> QED BY <2>2, BecomingIs
  <1> QED BY <1>1, <1>3, <1>4, <1>5, <1>6, <1>7, <1>8, <1>9, <1>10, <1>11 DEF ListNext, ll_prepend, ll_append

(* Whatever is added, deleted, freed, merged, reversed and cleaned: the lists are rings of
   different nodes, each node in use is in exactly one of them, and the chunk's books balance
   (linklist.c, memchunk.c). *)
THEOREM ListInvariant == ListSpec => []ListInv
  <1>1. ListInit => ListInv
    BY InitListInv
  <1>2. ListInv /\ [ListNext]_listVars => ListInv'
    BY NextListInv
  <1> QED BY <1>1, <1>2, PTL DEF ListSpec

(* Balanced books account for every atom. *)
LEMMA BooksAccount ==
    ASSUME NEW c, NEW live, ChunkInv(c, live)
    PROVE  Accounts(c, live)
  <1> DEFINE F == ToSet(c.free_atoms)
  <1>1. IsInjective(c.free_atoms) /\ Apart(live, F) /\ Pointers(c) /\ Placed(c, live \cup F)
        /\ \A a \in InUse(c) : AreaBooks(c.area[a], a, live, F)
    BY DEF ChunkInv, Books
  <1> HIDE DEF F
  <1>2. live \cap F = {}
    BY <1>1 DEF Apart
  <1>3. \A m \in live \cup F : m[1] \in InUse(c)
    BY <1>1 DEF Placed
  <1>4. \A a \in InUse(c) :
           /\ c.area[a].allocated = Cardinality(AtomsOf(a, live))
           /\ c.area[a].free + Cardinality(AtomsOf(a, live \cup F)) = AreaAtoms
           /\ c.area[a].mark <=> c.area[a].allocated = 0
    BY <1>1 DEF AreaBooks
  <1>5. c.num_mem_areas = Cardinality(c.mem_areas) /\ c.num_marked_areas = Cardinality(Marked(c))
    BY <1>1 DEF Pointers
  <1> QED BY <1>1, <1>2, <1>3, <1>4, <1>5 DEF Accounts, F

(* No atom of the chunk is handed out twice or lost, however long it is used (memchunk.c). *)
THEOREM ChunkAccounted == ListSpec => []ChunkAccounts
  <1>1. ListInv => ChunkAccounts
    BY BooksAccount DEF ListInv, ChunkAccounts
  <1> QED BY <1>1, ListInvariant, PTL

-----------------------------------------------------------------------------
(***************************************************************************)
(* The lists as sequences of data                                          *)
(***************************************************************************)

(* f gives data in E to the nodes of s. *)
Fits(D, E, f, s) == f \in [D -> E] /\ s \in Seq(D)

(* Nodes whose data did not change have the same data. *)
LEMMA DataKept ==
    ASSUME NEW E, NEW D, NEW f, NEW s, Fits(D, E, f, s), NEW C, NEW g, Fits(C, E, g, s),
           \A i \in 1 .. Len(s) : g[s[i]] = f[s[i]]
    PROVE  Data(g, s) = Data(f, s)
  <1> USE DEF Fits
  <1>1. /\ Data(f, s) \in Seq(E) /\ Len(Data(f, s)) = Len(s)
        /\ \A i \in 1 .. Len(s) : Data(f, s)[i] = f[s[i]]
    <2>1. DataOver(E, f, s)
      BY DataIs
    <2> QED BY <2>1 DEF DataOver
  <1>2. /\ Data(g, s) \in Seq(E) /\ Len(Data(g, s)) = Len(s)
        /\ \A i \in 1 .. Len(s) : Data(g, s)[i] = g[s[i]]
    <2>1. DataOver(E, g, s)
      BY DataIs
    <2> QED BY <2>1 DEF DataOver
  <1> QED BY <1>1, <1>2, SeqEqual

(* The data of one node more at the end, *)
LEMMA DataAppend ==
    ASSUME NEW D, NEW E, NEW f, NEW s, Fits(D, E, f, s), NEW n \in D
    PROVE  Data(f, Append(s, n)) = Append(Data(f, s), f[n])
  <1> DEFINE a == Append(s, n)  b == Append(Data(f, s), f[n])
  <1> USE DEF Fits
  <1>1. /\ Data(f, s) \in Seq(E) /\ Len(Data(f, s)) = Len(s) /\ Len(s) \in Nat
        /\ \A i \in 1 .. Len(s) : Data(f, s)[i] = f[s[i]]
    <2>1. DataOver(E, f, s)
      BY DataIs
    <2> QED BY <2>1 DEF DataOver
  <1>2. /\ a \in Seq(D) /\ Len(a) = Len(s) + 1
        /\ \A i \in 1 .. Len(s) : a[i] = s[i]
        /\ a[Len(s) + 1] = n
    BY AppendProperties
  <1>3. /\ b \in Seq(E) /\ Len(b) = Len(s) + 1
        /\ \A i \in 1 .. Len(s) : b[i] = Data(f, s)[i]
        /\ b[Len(s) + 1] = f[n]
    <2>1. f[n] \in E
      OBVIOUS
    <2> QED BY <1>1, <2>1, AppendProperties
  <1> HIDE DEF a, b
  <1>4. /\ Data(f, a) \in Seq(E) /\ Len(Data(f, a)) = Len(a)
        /\ \A i \in 1 .. Len(a) : Data(f, a)[i] = f[a[i]]
    <2>1. DataOver(E, f, a)
      BY <1>2, DataIs
    <2> QED BY <2>1 DEF DataOver
  <1>5. ASSUME NEW i \in 1 .. Len(a) PROVE Data(f, a)[i] = b[i]
    <2>1. CASE i = Len(s) + 1
      BY <1>2, <1>3, <1>4, <2>1
    <2>2. CASE i # Len(s) + 1
      <3>1. i \in 1 .. Len(s)
        BY <1>1, <1>2, <2>2
      <3> QED BY <1>1, <1>2, <1>3, <1>4, <3>1
    <2> QED BY <2>1, <2>2
  <1>6. Data(f, a) = b
    BY <1>2, <1>3, <1>4, <1>5, SeqEqual
  <1> QED BY <1>6 DEF a, b

(* in front, *)
LEMMA DataCons ==
    ASSUME NEW D, NEW E, NEW f, NEW s, Fits(D, E, f, s), NEW n \in D
    PROVE  Data(f, <<n>> \o s) = <<f[n]>> \o Data(f, s)
  <1> DEFINE a == <<n>> \o s  b == <<f[n]>> \o Data(f, s)
  <1> USE DEF Fits
  <1>1. /\ Data(f, s) \in Seq(E) /\ Len(Data(f, s)) = Len(s) /\ Len(s) \in Nat
        /\ \A i \in 1 .. Len(s) : Data(f, s)[i] = f[s[i]]
    <2>1. DataOver(E, f, s)
      BY DataIs
    <2> QED BY <2>1 DEF DataOver
  <1>2. /\ a \in Seq(D) /\ Len(a) = Len(s) + 1
        /\ \A i \in 1 .. Len(s) + 1 : a[i] = IF i = 1 THEN n ELSE s[i - 1]
    BY ConsIs
  <1>3. /\ b \in Seq(E) /\ Len(b) = Len(s) + 1
        /\ \A i \in 1 .. Len(s) + 1 : b[i] = IF i = 1 THEN f[n] ELSE Data(f, s)[i - 1]
    <2>1. f[n] \in E
      OBVIOUS
    <2> QED BY <1>1, <2>1, ConsIs
  <1> HIDE DEF a, b
  <1>4. /\ Data(f, a) \in Seq(E) /\ Len(Data(f, a)) = Len(a)
        /\ \A i \in 1 .. Len(a) : Data(f, a)[i] = f[a[i]]
    <2>1. DataOver(E, f, a)
      BY <1>2, DataIs
    <2> QED BY <2>1 DEF DataOver
  <1>5. ASSUME NEW i \in 1 .. Len(a) PROVE Data(f, a)[i] = b[i]
    <2>1. i \in 1 .. Len(s) + 1
      BY <1>2
    <2>2. CASE i = 1
      BY <1>2, <1>3, <1>4, <2>1, <2>2
    <2>3. CASE i # 1
      <3>1. i - 1 \in 1 .. Len(s)
        BY <1>1, <2>1, <2>3
      <3>2. a[i] = s[i - 1] /\ b[i] = Data(f, s)[i - 1]
        BY <1>2, <1>3, <2>1, <2>3
      <3>3. Data(f, s)[i - 1] = f[s[i - 1]]
        BY <1>1, <3>1
      <3> QED BY <1>4, <3>2, <3>3
    <2> QED BY <2>2, <2>3
  <1>6. Data(f, a) = b
    BY <1>2, <1>3, <1>4, <1>5, SeqEqual
  <1> QED BY <1>6 DEF a, b

(* of two lists, *)
LEMMA DataConcat ==
    ASSUME NEW D, NEW E, NEW f, NEW s, Fits(D, E, f, s), NEW t1, Fits(D, E, f, t1)
    PROVE  Data(f, s \o t1) = Data(f, s) \o Data(f, t1)
  <1> DEFINE a == s \o t1  b == Data(f, s) \o Data(f, t1)
  <1> USE DEF Fits
  <1>1. /\ Data(f, s) \in Seq(E) /\ Len(Data(f, s)) = Len(s) /\ Len(s) \in Nat
        /\ \A i \in 1 .. Len(s) : Data(f, s)[i] = f[s[i]]
    <2>1. DataOver(E, f, s)
      BY DataIs
    <2> QED BY <2>1 DEF DataOver
  <1>2. /\ Data(f, t1) \in Seq(E) /\ Len(Data(f, t1)) = Len(t1) /\ Len(t1) \in Nat
        /\ \A i \in 1 .. Len(t1) : Data(f, t1)[i] = f[t1[i]]
    <2>1. DataOver(E, f, t1)
      BY DataIs
    <2> QED BY <2>1 DEF DataOver
  <1>3. /\ a \in Seq(D) /\ Len(a) = Len(s) + Len(t1)
        /\ \A i \in 1 .. Len(s) + Len(t1) : a[i] = IF i <= Len(s) THEN s[i] ELSE t1[i - Len(s)]
    BY ConcatProperties
  <1>4. /\ b \in Seq(E) /\ Len(b) = Len(s) + Len(t1)
        /\ \A i \in 1 .. Len(s) + Len(t1) : b[i] = IF i <= Len(s) THEN Data(f, s)[i] ELSE Data(f, t1)[i - Len(s)]
    <2> DEFINE p == Data(f, s)  q == Data(f, t1)
    <2>1. p \in Seq(E) /\ q \in Seq(E) /\ Len(p) = Len(s) /\ Len(q) = Len(t1)
      BY <1>1, <1>2
    <2> HIDE DEF p, q
    <2>2. /\ p \o q \in Seq(E) /\ Len(p \o q) = Len(p) + Len(q)
          /\ \A i \in 1 .. Len(p) + Len(q) : (p \o q)[i] = IF i <= Len(p) THEN p[i] ELSE q[i - Len(p)]
      BY <2>1, ConcatProperties
    <2> QED BY <2>1, <2>2 DEF p, q
  <1> HIDE DEF a, b
  <1>5. /\ Data(f, a) \in Seq(E) /\ Len(Data(f, a)) = Len(a)
        /\ \A i \in 1 .. Len(a) : Data(f, a)[i] = f[a[i]]
    <2>1. DataOver(E, f, a)
      BY <1>3, DataIs
    <2> QED BY <2>1 DEF DataOver
  <1>6. ASSUME NEW i \in 1 .. Len(a) PROVE Data(f, a)[i] = b[i]
    <2>1. i \in 1 .. Len(s) + Len(t1)
      BY <1>3
    <2>2. CASE i <= Len(s)
      <3>1. i \in 1 .. Len(s)
        BY <1>1, <2>1, <2>2
      <3> QED BY <1>1, <1>3, <1>4, <1>5, <2>1, <2>2, <3>1
    <2>3. CASE ~(i <= Len(s))
      <3>1. i - Len(s) \in 1 .. Len(t1)
        BY <1>1, <1>2, <2>1, <2>3
      <3> QED BY <1>2, <1>3, <1>4, <1>5, <2>1, <2>3, <3>1
    <2> QED BY <2>2, <2>3
  <1>7. Data(f, a) = b
    BY <1>3, <1>4, <1>5, <1>6, SeqEqual
  <1> QED BY <1>7 DEF a, b

(* without a node, *)
LEMMA DataRemoved ==
    ASSUME NEW D, NEW E, NEW f, NEW s, Fits(D, E, f, s), NEW k \in 1 .. Len(s)
    PROVE  Data(f, RemoveAt(s, k)) = RemoveAt(Data(f, s), k)
  <1> DEFINE a == RemoveAt(s, k)  b == RemoveAt(Data(f, s), k)
  <1> USE DEF Fits
  <1>1. /\ Data(f, s) \in Seq(E) /\ Len(Data(f, s)) = Len(s) /\ Len(s) \in Nat
        /\ \A i \in 1 .. Len(s) : Data(f, s)[i] = f[s[i]]
    <2>1. DataOver(E, f, s)
      BY DataIs
    <2> QED BY <2>1 DEF DataOver
  <1>2. /\ a \in Seq(D) /\ Len(a) = Len(s) - 1
        /\ \A i \in 1 .. Len(s) - 1 : a[i] = IF i < k THEN s[i] ELSE s[i + 1]
    BY RemoveAtIs
  <1>3. /\ b \in Seq(E) /\ Len(b) = Len(s) - 1
        /\ \A i \in 1 .. Len(s) - 1 : b[i] = IF i < k THEN Data(f, s)[i] ELSE Data(f, s)[i + 1]
    BY <1>1, RemoveAtIs
  <1> HIDE DEF a, b
  <1>4. /\ Data(f, a) \in Seq(E) /\ Len(Data(f, a)) = Len(a)
        /\ \A i \in 1 .. Len(a) : Data(f, a)[i] = f[a[i]]
    <2>1. DataOver(E, f, a)
      BY <1>2, DataIs
    <2> QED BY <2>1 DEF DataOver
  <1>5. ASSUME NEW i \in 1 .. Len(a) PROVE Data(f, a)[i] = b[i]
    <2>1. i \in 1 .. Len(s) - 1 /\ i \in 1 .. Len(s) /\ i + 1 \in 1 .. Len(s)
      BY <1>1, <1>2
    <2>2. CASE i < k
      BY <1>1, <1>2, <1>3, <1>4, <2>1, <2>2
    <2>3. CASE ~(i < k)
      BY <1>1, <1>2, <1>3, <1>4, <2>1, <2>3
    <2> QED BY <2>2, <2>3
  <1>6. Data(f, a) = b
    BY <1>2, <1>3, <1>4, <1>5, SeqEqual
  <1> QED BY <1>6 DEF a, b

(* and the other way round. *)
LEMMA DataReversed ==
    ASSUME NEW D, NEW E, NEW f, NEW s, Fits(D, E, f, s)
    PROVE  Data(f, Reverse(s)) = Reverse(Data(f, s))
  <1> DEFINE a == Reverse(s)  b == Reverse(Data(f, s))
  <1> USE DEF Fits
  <1>1. /\ Data(f, s) \in Seq(E) /\ Len(Data(f, s)) = Len(s) /\ Len(s) \in Nat
        /\ \A i \in 1 .. Len(s) : Data(f, s)[i] = f[s[i]]
    <2>1. DataOver(E, f, s)
      BY DataIs
    <2> QED BY <2>1 DEF DataOver
  <1>2. /\ a \in Seq(D) /\ Len(a) = Len(s)
        /\ \A i \in 1 .. Len(s) : a[i] = s[Len(s) - i + 1] /\ Len(s) - i + 1 \in 1 .. Len(s)
    BY ReverseIs
  <1>3. /\ b \in Seq(E) /\ Len(b) = Len(s)
        /\ \A i \in 1 .. Len(s) : b[i] = Data(f, s)[Len(s) - i + 1]
    BY <1>1, ReverseIs
  <1> HIDE DEF a, b
  <1>4. /\ Data(f, a) \in Seq(E) /\ Len(Data(f, a)) = Len(a)
        /\ \A i \in 1 .. Len(a) : Data(f, a)[i] = f[a[i]]
    <2>1. DataOver(E, f, a)
      BY <1>2, DataIs
    <2> QED BY <2>1 DEF DataOver
  <1>5. ASSUME NEW i \in 1 .. Len(a) PROVE Data(f, a)[i] = b[i]
    <2>1. i \in 1 .. Len(s)
      BY <1>2
    <2>2. a[i] = s[Len(s) - i + 1] /\ Len(s) - i + 1 \in 1 .. Len(s) /\ b[i] = Data(f, s)[Len(s) - i + 1]
      BY <1>2, <1>3, <2>1
    <2>3. Data(f, s)[Len(s) - i + 1] = f[s[Len(s) - i + 1]]
      BY <1>1, <2>2
    <2> QED BY <1>4, <2>2, <2>3
  <1>6. Data(f, a) = b
    BY <1>2, <1>3, <1>4, <1>5, SeqEqual
  <1> QED BY <1>6 DEF a, b

(* The step keeps the data of every node that stays in use. *)
SameData == \A x \in Live : x \in DOMAIN listNext' => listData'[x] = listData[x]

(* The sequences that stand for the lists, *)
Sequences == [l \in List |-> Elements(l)]

(* of which each is the data of the nodes of its list; *)
LEMMA ElementsIs ==
    ASSUME ListInv, NEW l \in List
    PROVE  /\ Sequences[l] = Elements(l) /\ Elements(l) = Data(listData, NodesOf(l))
           /\ Elements(l) \in Seq(Element) /\ Len(Elements(l)) = Len(NodesOf(l))
           /\ Len(NodesOf(l)) \in Nat
           /\ \A i \in 1 .. Len(NodesOf(l)) : Elements(l)[i] = listData[NodesOf(l)[i]]
  <1>1. NodesOf(l) \in Seq(Live) /\ listData \in [Live -> Element]
    BY ListKinds
  <1>2. DataOver(Element, listData, NodesOf(l))
    BY <1>1, DataIs
  <1>3. Elements(l) = Data(listData, NodesOf(l))
    BY DEF Elements, Data
  <1>4. Sequences[l] = Elements(l)
    BY DEF Sequences
  <1> QED BY <1>2, <1>3, <1>4 DEF DataOver

(* after a step: a list that keeps its nodes keeps its sequence. *)
LEMMA ElementsAfter ==
    ASSUME ListInv, SameData, NEW S2, Becoming(S2), NEW l \in List
    PROVE  /\ Elements(l)' = Data(listData', S2[l])
           /\ S2[l] \in Seq(DOMAIN listNext')
           /\ S2[l] = NodesOf(l) => Elements(l)' = Elements(l)
  <1>1. NodesOf(l)' = S2[l] /\ Ring(listNext', tail'[l], S2[l])
    <2>1. Ring(listNext', tail'[l], S2[l])
      BY DEF Becoming, Lists
    <2> QED BY <2>1, BecomingIs
  <1>2. S2[l] \in Seq(DOMAIN listNext') /\ listData' \in [DOMAIN listNext' -> Element]
    BY <1>1 DEF Ring, Becoming
  <1>3. Elements(l)' = Data(listData', S2[l])
    <2>1. Elements(l)' = [i \in DOMAIN NodesOf(l)' |-> listData'[NodesOf(l)'[i]]]
      BY DEF Elements
    <2> QED BY <1>1, <2>1 DEF Data
  <1>4. ASSUME S2[l] = NodesOf(l) PROVE Data(listData', NodesOf(l)) = Data(listData, NodesOf(l))
    <2>1. NodesOf(l) \in Seq(Live) /\ NodesOf(l) \in Seq(DOMAIN listNext') /\ listData \in [Live -> Element]
      BY <1>2, <1>4, ListKinds
    <2>2. \A i \in 1 .. Len(NodesOf(l)) : NodesOf(l)[i] \in Live /\ NodesOf(l)[i] \in DOMAIN listNext'
      BY <2>1, ElementOfSeq
    <2>3. \A i \in 1 .. Len(NodesOf(l)) : listData'[NodesOf(l)[i]] = listData[NodesOf(l)[i]]
      BY <2>2 DEF SameData
    <2> DEFINE s == NodesOf(l)  g == listData'  C == DOMAIN listNext'
    <2>4. /\ s \in Seq(Live) /\ s \in Seq(C) /\ g \in [C -> Element]
          /\ \A i \in 1 .. Len(s) : g[s[i]] = listData[s[i]]
      BY <1>2, <2>1, <2>3
    <2> HIDE DEF s, g, C
    <2>5. Fits(C, Element, g, s) /\ Fits(Live, Element, listData, s)
      BY <2>1, <2>4 DEF Fits
    <2>6. Data(g, s) = Data(listData, s)
      BY <2>4, <2>5, DataKept
    <2> QED BY <2>6 DEF s, g
  <1> QED BY <1>2, <1>3, <1>4, ElementsIs

(* A step of one list is one of its sequence. *)
LEMMA OneBecomes ==
    ASSUME ListInv, SameData, NEW l \in List, NEW s2, Becoming([Nodes EXCEPT ![l] = s2])
    PROVE  AsSequences!Becomes(l, Data(listData', s2)) /\ s2 \in Seq(DOMAIN listNext')
  <1> DEFINE S2 == [Nodes EXCEPT ![l] = s2]
  <1>1. S2[l] = s2 /\ \A k \in List : k # l => S2[k] = NodesOf(k)
    BY DEF Nodes
  <1> HIDE DEF S2
  <1>2. Becoming(S2)
    BY DEF S2
  <1>3. Elements(l)' = Data(listData', s2) /\ s2 \in Seq(DOMAIN listNext')
    BY <1>1, <1>2, ElementsAfter
  <1>4. ASSUME NEW k \in List, k # l PROVE Elements(k)' = Elements(k)
    BY <1>1, <1>2, <1>4, ElementsAfter
  <1>5. Sequences' = [Sequences EXCEPT ![l] = Data(listData', s2)]
    <2>1. Sequences' = [k \in List |-> Elements(k)']
      BY DEF Sequences
    <2>2. \A k \in List : Elements(k)' = IF k = l THEN Data(listData', s2) ELSE Elements(k)
      BY <1>3, <1>4
    <2> QED BY <2>1, <2>2 DEF Sequences
  <1> QED BY <1>3, <1>5 DEF AsSequences!Becomes, Sequences

(* Where the abstract list finds an element is where ll_find finds the node. *)
LEMMA WhereIs ==
    ASSUME ListInv, NEW l \in List, NEW d \in Element, Match(l, d) \in 1 .. Len(NodesOf(l))
    PROVE  /\ AsSequences!Where(Elements(l), d) = Match(l, d)
           /\ Contains(Elements(l), d) /\ listData[NodesOf(l)[Match(l, d)]] = d
  <1> DEFINE s == Elements(l)  k == Match(l, d)
  <1>1. /\ Len(s) = Len(NodesOf(l)) /\ Len(NodesOf(l)) \in Nat
        /\ \A i \in 1 .. Len(NodesOf(l)) : s[i] = listData[NodesOf(l)[i]]
    BY ElementsIs
  <1>2. k # 0
    OBVIOUS
  <1>3. /\ k \in 1 .. Len(NodesOf(l)) /\ listData[NodesOf(l)[k]] = d
        /\ \A j \in 1 .. k - 1 : listData[NodesOf(l)[j]] # d
    BY <1>1, <1>2, MatchIs
  <1> HIDE DEF s, k
  <1>4. k \in 1 .. Len(s) /\ s[k] = d /\ \A j \in 1 .. k - 1 : s[j] # d
    <2>1. \A j \in 1 .. k - 1 : j \in 1 .. Len(NodesOf(l))
      BY <1>1, <1>3
    <2> QED BY <1>1, <1>3, <2>1
  <1>5. ASSUME NEW i \in 1 .. Len(s), s[i] = d, \A j \in 1 .. i - 1 : s[j] # d PROVE i = k
    <2>1. ~(i < k)
      <3>1. i < k => i \in 1 .. k - 1
        BY <1>1, <1>4
      <3> QED BY <1>4, <1>5, <3>1
    <2>2. ~(k < i)
      <3>1. k < i => k \in 1 .. i - 1
        BY <1>1, <1>4
      <3> QED BY <1>4, <1>5, <3>1
    <2> QED BY <1>1, <1>4, <2>1, <2>2
  <1>6. AsSequences!Where(s, d) = k
    BY <1>4, <1>5 DEF AsSequences!Where
  <1> QED BY <1>3, <1>4, <1>6 DEF s, k, Contains

(* _add is an append, or a prepend. *)
LEMMA AddsOne ==
    ASSUME ListInv, NEW l \in List, NEW d \in Element, NEW append \in BOOLEAN, add(l, d, append)
    PROVE  IF append THEN AsSequences!Append1(l, d) ELSE AsSequences!Prepend1(l, d)
  <1> DEFINE s == NodesOf(l)  g == listData'  C == DOMAIN listNext'
  <1>1. PICK n \in Atom \ Live :
              /\ Becoming([Nodes EXCEPT ![l] = IF append THEN Append(s, n) ELSE <<n>> \o s])
              /\ listData' = With(listData, n, d)
    BY AddStep
  <1>2. /\ s \in Seq(Live) /\ listData \in [Live -> Element]
        /\ Data(listData, s) = Elements(l) /\ Sequences[l] = Elements(l)
    BY ListKinds, ElementsIs
  <1>3. DOMAIN listData = Live
    BY <1>2
  <1>4. g \in [Live \cup {n} -> Element] /\ g[n] = d /\ \A x \in Live : g[x] = listData[x]
    BY <1>1, <1>2, <1>3 DEF With
  <1>5. SameData
    BY <1>4 DEF SameData
  <1>6. Data(g, s) = Elements(l)
    <2>1. s \in Seq(Live \cup {n})
      BY <1>2, SeqMonotonic
    <2>2. \A i \in 1 .. Len(s) : s[i] \in Live
      BY <1>2, ElementOfSeq
    <2>3. \A i \in 1 .. Len(s) : g[s[i]] = listData[s[i]]
      BY <1>4, <2>2
    <2> HIDE DEF g, s
    <2>4. Fits(Live \cup {n}, Element, g, s) /\ Fits(Live, Element, listData, s)
      BY <1>2, <1>4, <2>1 DEF Fits
    <2>5. Data(g, s) = Data(listData, s)
      BY <2>3, <2>4, DataKept
    <2> QED BY <1>2, <2>5
  <1>7. Fits(Live \cup {n}, Element, g, s) /\ n \in Live \cup {n}
    <2>1. s \in Seq(Live \cup {n})
      BY <1>2, SeqMonotonic
    <2> QED BY <1>4, <2>1 DEF Fits
  <1>8. CASE append
    <2>1. AsSequences!Becomes(l, Data(g, Append(s, n)))
      BY <1>1, <1>5, <1>8, OneBecomes
    <2> HIDE DEF g, s
    <2>2. Data(g, Append(s, n)) = Append(Data(g, s), g[n])
      BY <1>7, DataAppend
    <2>3. AsSequences!Becomes(l, Append(Elements(l), d))
      BY <1>4, <1>6, <2>1, <2>2
    <2> QED BY <1>2, <1>8, <2>3 DEF AsSequences!Append1, Sequences
  <1>9. CASE ~append
    <2>1. AsSequences!Becomes(l, Data(g, <<n>> \o s))
      BY <1>1, <1>5, <1>9, OneBecomes
    <2> HIDE DEF g, s
    <2>2. Data(g, <<n>> \o s) = <<g[n]>> \o Data(g, s)
      BY <1>7, DataCons
    <2>3. AsSequences!Becomes(l, <<d>> \o Elements(l))
      BY <1>4, <1>6, <2>1, <2>2
    <2> QED BY <1>2, <1>9, <2>3 DEF AsSequences!Prepend1, Sequences
  <1> QED BY <1>8, <1>9

(* A node leaves its list, and its element the sequence. *)
LEMMA UnlinksOne ==
    ASSUME ListInv, NEW l \in List, NEW i \in 1 .. Len(NodesOf(l)), Unlinked(l, NodesOf(l)[i])
    PROVE  AsSequences!Becomes(l, RemoveAt(Elements(l), i))
  <1> DEFINE s == NodesOf(l)  g == listData'  C == DOMAIN listNext'  r == RemoveAt(s, i)
  <1>1. Becoming([Nodes EXCEPT ![l] = r]) /\ listData' = Unlinking(listData, {s[i]})
    BY UnlinkStep
  <1>2. /\ s \in Seq(Live) /\ listData \in [Live -> Element]
        /\ Data(listData, s) = Elements(l) /\ Len(s) \in Nat
    BY ListKinds, ElementsIs
  <1>3. \A x \in Live : x \in DOMAIN listNext' => listData'[x] = listData[x]
    <2>1. DOMAIN listData' = DOMAIN listNext'
      BY <1>1 DEF Becoming
    <2>2. \A x \in DOMAIN listData' : listData'[x] = listData[x]
      BY <1>1 DEF Unlinking
    <2> QED BY <2>1, <2>2
  <1>4. SameData
    BY <1>3 DEF SameData
  <1> HIDE DEF r, s
  <1>5. AsSequences!Becomes(l, Data(g, r)) /\ r \in Seq(C)
    BY <1>1, <1>4, OneBecomes
  <1>6. g \in [C -> Element]
    BY <1>1 DEF Becoming
  <1>7. r \in Seq(Live)
    BY <1>2, RemoveAtIs DEF r, s
  <1>8. \A j \in 1 .. Len(r) : g[r[j]] = listData[r[j]]
    <2>1. \A j \in 1 .. Len(r) : r[j] \in Live
      BY <1>7, ElementOfSeq
    <2>2. \A j \in 1 .. Len(r) : r[j] \in C
      BY <1>5, ElementOfSeq
    <2> QED BY <1>3, <2>1, <2>2
  <1> HIDE DEF g, C
  <1>9. Data(g, r) = Data(listData, r)
    <2>1. Fits(C, Element, g, r) /\ Fits(Live, Element, listData, r)
      BY <1>2, <1>5, <1>6, <1>7 DEF Fits
    <2> QED BY <1>8, <2>1, DataKept
  <1>10. Data(listData, r) = RemoveAt(Data(listData, s), i)
    <2>1. Fits(Live, Element, listData, s) /\ i \in 1 .. Len(s)
      BY <1>2 DEF Fits, s
    <2> QED BY <2>1, DataRemoved DEF r
  <1> QED BY <1>2, <1>5, <1>9, <1>10

(* The operators on sequences are those of the abstract lists. *)
LEMMA SequenceOperators ==
    /\ \A s, d : AsSequences!Contains(s, d) <=> Contains(s, d)
    /\ \A s, i : AsSequences!RemoveAt(s, i) = RemoveAt(s, i)
    /\ \A s : AsSequences!Front(s) = Front(s) /\ AsSequences!Reverse(s) = Reverse(s)
  <1>1. \A s, d : AsSequences!Contains(s, d) <=> Contains(s, d)
    BY DEF AsSequences!Contains, Contains
  <1>2. \A s, i : AsSequences!RemoveAt(s, i) = RemoveAt(s, i)
    BY DEF AsSequences!RemoveAt, RemoveAt
  <1>3. \A s : AsSequences!Front(s) = Front(s)
    BY DEF AsSequences!Front, Front
  <1>4. \A s : AsSequences!Reverse(s) = Reverse(s)
    BY DEF AsSequences!Reverse, Reverse
  <1> QED BY <1>1, <1>2, <1>3, <1>4

(* Deleting the first match, the head or the tail. *)
LEMMA DeletesOne ==
    ASSUME ListInv, NEW l \in List
    PROVE  /\ \A d \in Element : ll_delete(l, d) => AsSequences!Delete(l, d)
           /\ ll_delete_head(l) => AsSequences!Pop(l)
           /\ ll_delete_tail(l) => AsSequences!Eject(l)
  <1> DEFINE s == NodesOf(l)  q == Elements(l)
  <1>1. /\ q \in Seq(Element) /\ Len(q) = Len(s) /\ Len(s) \in Nat /\ Sequences[l] = q
        /\ s \in Seq(Live)
    BY ListKinds, ElementsIs
  <1>2. ASSUME NEW d \in Element, ll_delete(l, d) PROVE AsSequences!Delete(l, d)
    <2>1. Match(l, d) \in 1 .. Len(s) /\ Unlinked(l, s[Match(l, d)])
      BY <1>2, DeleteSteps
    <2>2. AsSequences!Becomes(l, RemoveAt(q, Match(l, d)))
      BY <2>1, UnlinksOne
    <2>3. AsSequences!Where(q, d) = Match(l, d) /\ Contains(q, d)
      BY <2>1, WhereIs
    <2>4. Contains(Sequences[l], d)
          /\ AsSequences!Becomes(l, RemoveAt(Sequences[l], AsSequences!Where(Sequences[l], d)))
          => AsSequences!Delete(l, d)
      BY SequenceOperators DEF AsSequences!Delete, Sequences
    <2> HIDE DEF q
    <2> QED BY <1>1, <2>2, <2>3, <2>4
  <1>3. s # << >> => /\ q # << >> /\ 1 \in 1 .. Len(s) /\ Len(s) \in 1 .. Len(s)
                     /\ Tail(q) = RemoveAt(q, 1) /\ Front(q) = RemoveAt(q, Len(s))
    <2> SUFFICES ASSUME s # << >>
                 PROVE  /\ q # << >> /\ 1 \in 1 .. Len(s) /\ Len(s) \in 1 .. Len(s)
                        /\ Tail(q) = RemoveAt(q, 1) /\ Front(q) = RemoveAt(q, Len(s))
      OBVIOUS
    <2>1. Len(s) # 0
      BY <1>1, EmptySeq
    <2> HIDE DEF q, s
    <2>2. q # << >>
      BY <1>1, <2>1, EmptySeq
    <2> QED BY <1>1, <2>2, EndsAre
  <1>4. ASSUME ll_delete_head(l) PROVE AsSequences!Pop(l)
    <2>1. s # << >> /\ Unlinked(l, s[1])
      BY <1>4, DeleteSteps
    <2>2. AsSequences!Becomes(l, RemoveAt(q, 1))
      BY <1>3, <2>1, UnlinksOne
    <2> HIDE DEF q
    <2> QED BY <1>1, <1>3, <2>1, <2>2 DEF AsSequences!Pop, Sequences
  <1>5. ASSUME ll_delete_tail(l) PROVE AsSequences!Eject(l)
    <2>1. s # << >> /\ Unlinked(l, s[Len(s)])
      BY <1>5, DeleteSteps
    <2>2. AsSequences!Becomes(l, RemoveAt(q, Len(s)))
      BY <1>3, <2>1, UnlinksOne
    <2>3. Sequences[l] # << >> /\ AsSequences!Becomes(l, Front(Sequences[l])) => AsSequences!Eject(l)
      BY SequenceOperators DEF AsSequences!Eject, Sequences
    <2> HIDE DEF q
    <2> QED BY <1>1, <1>3, <2>1, <2>2, <2>3
  <1> QED BY <1>2, <1>4, <1>5

(* ll_find_adj moves the element it finds to the front. *)
LEMMA FrontsOne ==
    ASSUME ListInv, NEW l \in List, NEW d \in Element, ll_find_adj(l, d)
    PROVE  AsSequences!ToFront(l, d)
  <1> DEFINE s == NodesOf(l)  i == Match(l, d)  n == s[i]  q == Elements(l)
  <1>1. /\ Becoming([Nodes EXCEPT ![l] = <<n>> \o RemoveAt(s, i)]) /\ listData' = listData
        /\ i \in 1 .. Len(s)
    <2>1. /\ Becoming([Nodes EXCEPT ![l] = <<n>> \o RemoveAt(s, i)]) /\ listData' = listData
          /\ i \in 2 .. Len(s)
      BY FrontStep
    <2>2. Len(s) \in Nat
      BY ElementsIs
    <2> HIDE DEF n, s, i
    <2> QED BY <2>1, <2>2
  <1>2. /\ s \in Seq(Live) /\ listData \in [Live -> Element] /\ Data(listData, s) = q
        /\ Sequences[l] = q
    BY ListKinds, ElementsIs
  <1>3. AsSequences!Where(q, d) = i /\ Contains(q, d) /\ listData[n] = d
    BY <1>1, WhereIs
  <1>4. AsSequences!Becomes(l, Data(listData', <<n>> \o RemoveAt(s, i)))
    <2>1. SameData
      BY <1>1 DEF SameData
    <2> QED BY <1>1, <2>1, OneBecomes
  <1>5. n \in Live /\ RemoveAt(s, i) \in Seq(Live)
    BY <1>1, <1>2, ElementOfSeq, RemoveAtIs
  <1>6. Fits(Live, Element, listData, s) /\ Fits(Live, Element, listData, RemoveAt(s, i))
    BY <1>2, <1>5 DEF Fits
  <1> HIDE DEF s, i, n, q
  <1>7. Data(listData, <<n>> \o RemoveAt(s, i)) = <<listData[n]>> \o Data(listData, RemoveAt(s, i))
    BY <1>5, <1>6, DataCons, SMTT(30)
  <1>8. Data(listData, RemoveAt(s, i)) = RemoveAt(q, i)
    BY <1>1, <1>2, <1>6, DataRemoved
  <1>9. AsSequences!Becomes(l, <<d>> \o RemoveAt(q, i))
    BY <1>1, <1>3, <1>4, <1>7, <1>8
  <1>10. Contains(Sequences[l], d)
         /\ AsSequences!Becomes(l, <<d>> \o RemoveAt(Sequences[l], AsSequences!Where(Sequences[l], d)))
         => AsSequences!ToFront(l, d)
    BY SequenceOperators DEF AsSequences!ToFront, Sequences
  <1> QED BY <1>2, <1>3, <1>9, <1>10

(* ll_reverse turns the sequence round, *)
LEMMA TurnsOne ==
    ASSUME ListInv, NEW l \in List, ll_reverse(l)
    PROVE  AsSequences!Turn(l)
  <1> DEFINE s == NodesOf(l)  q == Elements(l)
  <1>1. Becoming([Nodes EXCEPT ![l] = Reverse(s)]) /\ listData' = listData
    BY ReverseStep
  <1>2. /\ s \in Seq(Live) /\ listData \in [Live -> Element] /\ Data(listData, s) = q
        /\ Sequences[l] = q
    BY ListKinds, ElementsIs
  <1>3. AsSequences!Becomes(l, Data(listData', Reverse(s)))
    <2>1. SameData
      BY <1>1 DEF SameData
    <2> QED BY <1>1, <2>1, OneBecomes
  <1>4. Fits(Live, Element, listData, s)
    BY <1>2 DEF Fits
  <1> HIDE DEF s, q
  <1>5. Data(listData, Reverse(s)) = Reverse(q)
    BY <1>2, <1>4, DataReversed
  <1>6. AsSequences!Becomes(l, Reverse(q))
    BY <1>1, <1>3, <1>5
  <1>7. AsSequences!Becomes(l, Reverse(Sequences[l])) => AsSequences!Turn(l)
    BY SequenceOperators DEF AsSequences!Turn, Sequences
  <1> QED BY <1>2, <1>6, <1>7

(* ll_free empties it, *)
LEMMA ClearsOne ==
    ASSUME ListInv, NEW l \in List, ll_free(l)
    PROVE  AsSequences!Clear(l)
  <1>1. /\ Becoming([Nodes EXCEPT ![l] = << >>])
        /\ listData' = Unlinking(listData, ToSet(NodesOf(l)))
    BY FreeListStep
  <1>2. SameData
    <2>1. DOMAIN listData' = DOMAIN listNext'
      BY <1>1 DEF Becoming
    <2>2. \A x \in DOMAIN listData' : listData'[x] = listData[x]
      BY <1>1 DEF Unlinking
    <2> QED BY <2>1, <2>2 DEF SameData
  <1>3. AsSequences!Becomes(l, Data(listData', << >>))
    BY <1>1, <1>2, OneBecomes
  <1>4. Data(listData', << >>) = << >>
    BY DEF Data
  <1>5. AsSequences!Becomes(l, << >>)
    BY <1>3, <1>4
  <1> QED BY <1>5 DEF AsSequences!Clear

(* and ll_merge puts one behind the other. *)
LEMMA MergesTwo ==
    ASSUME ListInv, NEW d \in List, NEW e \in List, ll_merge(d, e)
    PROVE  AsSequences!Merge(d, e)
  <1> DEFINE s1 == NodesOf(d)  s2 == NodesOf(e)  S2 == [Nodes EXCEPT ![d] = s1 \o s2, ![e] = << >>]
  <1>1. Becoming(S2) /\ listData' = listData /\ d # e
    BY MergeStep DEF ll_merge
  <1>2. SameData
    BY <1>1 DEF SameData
  <1>3. /\ s1 \in Seq(Live) /\ s2 \in Seq(Live) /\ listData \in [Live -> Element]
        /\ Data(listData, s1) = Elements(d) /\ Data(listData, s2) = Elements(e)
    BY ListKinds, ElementsIs
  <1>4. /\ S2[d] = s1 \o s2 /\ S2[e] = << >>
        /\ \A k \in List : k # d /\ k # e => S2[k] = NodesOf(k)
    BY <1>1 DEF Nodes
  <1> HIDE DEF s1, s2, S2
  <1>5. Data(listData, s1 \o s2) = Data(listData, s1) \o Data(listData, s2)
    <2>1. Fits(Live, Element, listData, s1) /\ Fits(Live, Element, listData, s2)
      BY <1>3 DEF Fits
    <2> QED BY <2>1, DataConcat
  <1>6. Elements(d)' = Elements(d) \o Elements(e)
    <2>1. Elements(d)' = Data(listData', S2[d])
      BY <1>1, <1>2, ElementsAfter
    <2> QED BY <1>1, <1>3, <1>4, <1>5, <2>1
  <1>7. Elements(e)' = << >>
    <2>1. Elements(e)' = Data(listData', S2[e])
      BY <1>1, <1>2, ElementsAfter
    <2>2. Data(listData', << >>) = << >>
      BY DEF Data
    <2> QED BY <1>4, <2>1, <2>2
  <1>8. ASSUME NEW k \in List, k # d, k # e PROVE Elements(k)' = Elements(k)
    BY <1>1, <1>2, <1>4, <1>8, ElementsAfter
  <1>9. Sequences' = [Sequences EXCEPT ![d] = Sequences[d] \o Sequences[e], ![e] = << >>]
    <2>1. Sequences' = [k \in List |-> Elements(k)']
      BY DEF Sequences
    <2>2. \A k \in List : Elements(k)' = IF k = e THEN << >>
                                         ELSE IF k = d THEN Elements(d) \o Elements(e) ELSE Elements(k)
      BY <1>6, <1>7, <1>8
    <2>3. Sequences[d] = Elements(d) /\ Sequences[e] = Elements(e)
      BY DEF Sequences
    <2> QED BY <1>1, <2>1, <2>2, <2>3 DEF Sequences
  <1> QED BY <1>1, <1>9 DEF AsSequences!Merge, Sequences

(* mc_clean does nothing to them. *)
LEMMA NothingBecomes ==
    ASSUME ListInv, Becoming(Nodes), listData' = listData
    PROVE  Sequences' = Sequences
  <1>1. SameData
    BY DEF SameData
  <1>2. ASSUME NEW l \in List PROVE Elements(l)' = Elements(l)
    <2>1. Nodes[l] = NodesOf(l)
      BY DEF Nodes
    <2> QED BY <1>1, <2>1, ElementsAfter
  <1>3. Sequences' = [k \in List |-> Elements(k)']
    BY DEF Sequences
  <1> QED BY <1>2, <1>3 DEF Sequences

(* Every step of the lists is a step of the sequences, or none. *)
LEMMA NextSequences ==
    ASSUME ListInv, [ListNext]_listVars
    PROVE  AsSequences!Next \/ Sequences' = Sequences
  <1>1. CASE Clean
    BY <1>1, CleanStep, NothingBecomes
  <1>2. ASSUME NEW l \in List, ll_delete_head(l) PROVE AsSequences!Next
    BY <1>2, DeletesOne DEF AsSequences!Next
  <1>3. ASSUME NEW l \in List, ll_delete_tail(l) PROVE AsSequences!Next
    BY <1>3, DeletesOne DEF AsSequences!Next
  <1>4. ASSUME NEW l \in List, ll_free(l) PROVE AsSequences!Next
    BY <1>4, ClearsOne DEF AsSequences!Next
  <1>5. ASSUME NEW l \in List, ll_reverse(l) PROVE AsSequences!Next
    BY <1>5, TurnsOne DEF AsSequences!Next
  <1>6. ASSUME NEW l \in List, NEW s \in List, ll_merge(l, s) PROVE AsSequences!Next
    BY <1>6, MergesTwo DEF AsSequences!Next
  <1>7. ASSUME NEW l \in List, NEW d \in Element, ll_append(l, d) PROVE AsSequences!Next
    <2>1. AsSequences!Append1(l, d)
      BY <1>7, AddsOne DEF ll_append
    <2> QED BY <2>1 DEF AsSequences!Next
  <1>8. ASSUME NEW l \in List, NEW d \in Element, ll_prepend(l, d) PROVE AsSequences!Next
    <2>1. AsSequences!Prepend1(l, d)
      BY <1>8, AddsOne DEF ll_prepend
    <2> QED BY <2>1 DEF AsSequences!Next
  <1>9. ASSUME NEW l \in List, NEW d \in Element, ll_find_adj(l, d) PROVE AsSequences!Next
    BY <1>9, FrontsOne DEF AsSequences!Next
  <1>10. ASSUME NEW l \in List, NEW d \in Element, ll_delete(l, d) PROVE AsSequences!Next
    BY <1>10, DeletesOne DEF AsSequences!Next
  <1>11. CASE UNCHANGED listVars
    <2>1. tail' = tail /\ listNext' = listNext /\ listData' = listData /\ nodeChunk' = nodeChunk
      BY <1>11 DEF listVars
    <2>2. Becoming(Nodes)
      BY <2>1 DEF ListInv, Becoming, Live
    <2> QED BY <2>1, <2>2, NothingBecomes
  <1> QED BY <1>1, <1>2, <1>3, <1>4, <1>5, <1>6, <1>7, <1>8, <1>9, <1>10, <1>11 DEF ListNext

(* The rings of nodes do to the data what a user of linklist.c and deque.c expects of
   sequences: whatever is added, found, deleted, freed, merged and reversed. *)
THEOREM ListsRefineSequences == ListSpec => ListsAreSequences
  <1>1. ListInit => AsSequences!Init
    <2> SUFFICES ASSUME ListInit PROVE AsSequences!Init
      OBVIOUS
    <2>1. ASSUME NEW l \in List PROVE Elements(l) = << >>
      <3>1. NodesOf(l) = << >>
        BY InitListInv
      <3> QED BY <3>1 DEF Elements
    <2> QED BY <2>1 DEF AsSequences!Init
  <1>2. ListInv /\ [ListNext]_listVars => [AsSequences!Next]_Sequences
    BY NextSequences
  <1>3. ListSpec => []ListInv
    BY ListInvariant
  <1> QED BY <1>1, <1>2, <1>3, PTL DEF ListSpec, ListsAreSequences, AsSequences!Spec, Sequences
=============================================================================
