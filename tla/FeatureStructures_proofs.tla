---------------------- MODULE FeatureStructures_proofs ----------------------
(***************************************************************************)
(* Proofs about FeatureStructures: for any type system, any values and any *)
(* sequence of calls, what was written is what is read.  The invariant     *)
(* says where everything is: the structures lie in the main heap one       *)
(* behind the other, each slot has the cell that its value asks for, no    *)
(* two slots share a reference to a string, and no two arrays share cells  *)
(* of a side heap.  From it follows that lists are sequences: the chain of *)
(* a list is a path, the only one from its first node to an end; a path    *)
(* never comes back to a place; and the paths after a call are those from  *)
(* before, turned at the first node whose tail the call wrote.             *)
(***************************************************************************)
EXTENDS FeatureStructures, FiniteSetTheorems, SequenceTheorems, TLAPS

-----------------------------------------------------------------------------
(* The invariant *)

\* A heap has all the cells below its top, and those from there on are zero.
HeapFits(h) ==
    /\ h = [cell |-> h.cell, top |-> h.top]
    /\ h.top \in Nat \ {0}
    /\ Capacity(h) \in Nat
    /\ h.top <= Capacity(h)
    /\ h.cell = [i \in 0 .. Capacity(h) - 1 |-> h.cell[i]]
    /\ \A i \in h.top .. Capacity(h) - 1 : h.cell[i] = 0

SideArrays == {BooleanArray, LongArray}

\* The cells a structure of type t, for arrays of n elements, takes in the main heap: its type,
\* and its features or elements, or the size and the place of elements in a side heap.
SizeOf(t, n) ==
    IF t \in SideArrays THEN 3
    ELSE IF t \in Arrays THEN 2 + n
    ELSE 1 + Len(FeaturesOf[t])
Extent(h, a) == SizeOf(h.cell[a], h.cell[a + 1])

\* The slots of such a structure, the place of a slot in it, and what application code may
\* write there
SlotsIn(t, n) == IF t \in Arrays THEN 0 .. n - 1 ELSE {FeaturesOf[t][i] : i \in DOMAIN FeaturesOf[t]}
Place(t, i) == IF t \in Arrays THEN 2 + i ELSE FeatureOffset(t, i)
KindsIn(t, i) ==
    IF t \in Arrays THEN {ElementKind(t)}
    ELSE IF IsString(i) THEN {"string"}
    ELSE IF Subsumes(IntList, RangeOf[i]) THEN {"fs"}
    ELSE {"number", "boolean", "long", "fs"}

\* The structures at S lie one behind the other from the first cell to the top.
Layout(h, S) ==
    /\ S \subseteq Nat \ {0}
    /\ \A a \in S : h.cell[a] \in Types /\ (h.cell[a] \in Arrays => h.cell[a + 1] \in Nat)
    /\ \A a \in S : a + Extent(h, a) <= h.top
    /\ \A a, b \in S : a < b => a + Extent(h, a) <= b
    /\ \A a \in S : a + Extent(h, a) \in S \cup {h.top}
    /\ 1 \in S \cup {h.top}
    /\ \A a \in S \cup {h.top} : a = 1 \/ \E b \in S : a = b + Extent(h, b)

InMain(a) == stored[a].type \notin SideArrays
SlotsOf(a) == SlotsIn(stored[a].type, heap.cell[a + 1])
Pos(a, i) == a + Place(stored[a].type, i)

\* Reference r of table R leads to the string s in C, with its length and the end mark behind it.
StringFits(R, C, r, s) ==
    /\ r \in Nat \ {0}
    /\ RefCell(r) + 1 < R.top
    /\ s \in Seq(Int \ {0})
    /\ R.cell[RefCell(r) + 1] = Len(s)
    /\ R.cell[RefCell(r)] \in Nat
    /\ R.cell[RefCell(r)] + Len(s) < C.top
    /\ \A j \in 1 .. Len(s) : C.cell[R.cell[RefCell(r)] + j - 1] = s[j]
    /\ C.cell[R.cell[RefCell(r)] + Len(s)] = 0

\* Cell c of the main heap is what value w asks for, with side heaps R, C and L.
CellFits(R, C, L, w, c) ==
    /\ w.kind = "unset" => c = 0
    /\ w.kind \in {"number", "fs"} => c = w.v
    /\ w.kind = "boolean" => w.v \in {0, 1} /\ c = BooleanCell(w.v)
    /\ w.kind = "long" => c \in 1 .. L.top - 1 /\ L.cell[c] = w.v
    /\ w.kind = "string" => StringFits(R, C, c, w.v)

\* Value w is one that a slot i of type t takes; references lead to structures at S.
ValueFits(t, i, w, S) ==
    /\ w.kind \in KindsIn(t, i) \cup {"unset"}
    /\ w.kind = "fs" => w.v \in S

SlotFits(a, i, S) ==
    /\ ValueFits(stored[a].type, i, stored[a].slots[i], S)
    /\ InMain(a) => CellFits(refs, chars, longs, stored[a].slots[i], heap.cell[Pos(a, i)])

\* The elements of an array in side heap g
SideFits(a, g) ==
    /\ heap.cell[a + 2] \in Nat \ {0}
    /\ heap.cell[a + 2] + heap.cell[a + 1] <= g.top
    /\ \A i \in 0 .. heap.cell[a + 1] - 1 :
         g.cell[heap.cell[a + 2] + i] = IF stored[a].slots[i].kind = "unset" THEN 0
                                        ELSE stored[a].slots[i].v

\* An object is what the application made of it, in the main heap and in the side heaps.
ObjectFits(a, S) ==
    /\ stored[a] = [type |-> stored[a].type, slots |-> stored[a].slots]
    /\ stored[a].type = heap.cell[a]
    /\ stored[a].type \in Creatable \cup Arrays
    /\ DOMAIN stored[a].slots = SlotsOf(a)
    /\ \A i \in SlotsOf(a) : SlotFits(a, i, S)
    /\ stored[a].type = BooleanArray => SideFits(a, bytes)
    /\ stored[a].type = LongArray => SideFits(a, longs)

IsSet(a, i, kind) == InMain(a) /\ stored[a].slots[i].kind = kind

\* No two slots have the same reference to a string: one can be pointed at another string.
RefsApart ==
    \A a, b \in Objects : \A i \in SlotsOf(a), j \in SlotsOf(b) :
        IsSet(a, i, "string") /\ IsSet(b, j, "string") /\ heap.cell[Pos(a, i)] = heap.cell[Pos(b, j)]
            => a = b /\ i = j

\* Arrays of type t do not overlap in their side heap.
SidesApart(t) ==
    \A a, b \in Objects : stored[a].type = t /\ stored[b].type = t /\ a # b =>
        \/ heap.cell[a + 2] + heap.cell[a + 1] <= heap.cell[b + 2]
        \/ heap.cell[b + 2] + heap.cell[b + 1] <= heap.cell[a + 2]

\* 64-bit features are not in the cells of 64-bit arrays.
LongsApart ==
    \A a, b \in Objects : \A i \in SlotsOf(a) :
        IsSet(a, i, "long") /\ stored[b].type = LongArray =>
            \/ heap.cell[Pos(a, i)] < heap.cell[b + 2]
            \/ heap.cell[Pos(a, i)] >= heap.cell[b + 2] + heap.cell[b + 1]

HeapsAreFit ==
    /\ \A h \in {heap, refs, chars, longs, bytes} : HeapFits(h)
    /\ RefCell(NextRef(refs)) = refs.top

ObjectsFit(S) ==
    /\ \A a \in Objects : ObjectFits(a, S)
    /\ RefsApart
    /\ SidesApart(BooleanArray)
    /\ SidesApart(LongArray)
    /\ LongsApart

\* The nodes of lists at N, apart from the objects; a tail is a structure of the heap.
NodesFit(h, N, S) ==
    \A a \in N : /\ h.cell[a] \in {EIntList, NEIntList}
                 /\ h.cell[a] = NEIntList => h.cell[a + 2] \in S

HandlesFit(N, S) ==
    /\ list \in [Handles -> S \cup {0}]
    /\ N # {} => \E h \in Handles : list[h] # 0

Fits(N) ==
    /\ HeapsAreFit
    /\ Layout(heap, Objects \cup N)
    /\ Objects \cap N = {}
    /\ ObjectsFit(Objects \cup N)
    /\ NodesFit(heap, N, Objects \cup N)
    /\ HandlesFit(N, Objects \cup N)

\* The main heap is objects and list nodes one behind the other, and every cell is what was written.
EverythingFits == \E N \in SUBSET Nat : Fits(N)

-----------------------------------------------------------------------------
(* Heaps *)

\* A non-empty set of naturals has a least element.
LEMMA LeastExists ==
    ASSUME NEW S \in SUBSET Nat, S # {}
    PROVE  \E n \in S : \A m \in S : n <= m
<1>1. PICK n \in S : \A m \in S : ~(<<m, n>> \in OpToRel(<, Nat))
    BY WFMin, NatLessThanWellFounded
<1>2. \A m \in S : n <= m
    <2>1. TAKE m \in S
    <2>2. <<m, n>> \in Nat \X Nat
        OBVIOUS
    <2> QED  BY <1>1, <2>2 DEF OpToRel
<1> QED  BY <1>2

\* The capacity is the number of the cells.
LEMMA CapacityIs ==
    ASSUME NEW h, NEW n \in Nat, DOMAIN h.cell = 0 .. n - 1
    PROVE  Capacity(h) = n
<1>1. Cardinality(0 .. n - 1) = IF 0 > n - 1 THEN 0 ELSE n - 1 - 0 + 1
    BY FS_Interval
<1> QED  BY <1>1 DEF Capacity

\* A record of cells and a top is a heap that fits.
LEMMA HeapIs ==
    ASSUME NEW n \in Nat, NEW V, NEW cells \in [0 .. n - 1 -> V], NEW top \in Nat \ {0}, top <= n,
           \A i \in top .. n - 1 : cells[i] = 0
    PROVE  HeapFits([cell |-> cells, top |-> top])
<1> DEFINE h == [cell |-> cells, top |-> top]
<1>1. h.cell = cells /\ h.top = top
    OBVIOUS
<1>2. DOMAIN cells = 0 .. n - 1
    OBVIOUS
<1> HIDE DEF h
<1>3. Capacity(h) = n
    BY <1>1, <1>2, CapacityIs
<1>4. h = [cell |-> h.cell, top |-> h.top]
    BY <1>1 DEF h
<1>5. cells = [i \in 0 .. n - 1 |-> cells[i]]
    OBVIOUS
<1>6. HeapFits(h)
    BY <1>1, <1>3, <1>4, <1>5 DEF HeapFits
<1> QED  BY <1>6 DEF h

\* The other way round: a heap that fits is such a record.
LEMMA HeapHas ==
    ASSUME NEW h, HeapFits(h)
    PROVE  \E V, cells, top, n :
              /\ top \in Nat \ {0} /\ n \in Nat
              /\ h = [cell |-> cells, top |-> top]
              /\ Capacity(h) = n /\ top <= n
              /\ cells \in [0 .. n - 1 -> V]
              /\ DOMAIN cells = 0 .. n - 1
              /\ \A i \in top .. n - 1 : cells[i] = 0
<1> DEFINE C == h.cell
           T == h.top
           n == Capacity(h)
           V == {C[i] : i \in 0 .. n - 1}
<1>1. /\ h = [cell |-> C, top |-> T]
      /\ T \in Nat \ {0} /\ n \in Nat /\ T <= n
      /\ C = [i \in 0 .. n - 1 |-> C[i]]
      /\ \A i \in T .. n - 1 : C[i] = 0
    BY DEF HeapFits
<1>2. C \in [0 .. n - 1 -> V]
    BY <1>1
<1> HIDE DEF C, T, V
<1>3. DOMAIN C = 0 .. n - 1
    BY <1>1
<1>4. Capacity(h) = n
    OBVIOUS
<1> HIDE DEF n
<1> WITNESS V, C, T, n
<1> QED  BY <1>1, <1>3, <1>4, <1>2

\* A new heap has its cells, all zero, and nothing in use.
LEMMA NewHeapFits ==
    ASSUME NEW n \in Nat \ {0}
    PROVE  HeapFits(NewHeap(n)) /\ NewHeap(n).top = 1
<1>1. Capacity(NewHeap(n)) = n
    BY CapacityIs DEF NewHeap
<1> QED  BY <1>1 DEF NewHeap, HeapFits

\* What growing does: the cells that were used stay as they are, and those that are added are zero.
Grown(h, g) == g.top >= h.top /\ \A i \in 0 .. h.top - 1 : g.cell[i] = h.cell[i]

\* Growing adds cells that are zero behind those in use.
LEMMA IncreaseFits ==
    ASSUME NEW h, HeapFits(h), NEW n \in Nat
    PROVE  /\ HeapFits(IncreaseHeap(h, n))
           /\ IncreaseHeap(h, n).top = h.top + n
           /\ \A i \in 0 .. h.top - 1 : IncreaseHeap(h, n).cell[i] = h.cell[i]
           /\ \A i \in h.top .. h.top + n - 1 : IncreaseHeap(h, n).cell[i] = 0
<1>1. PICK V, C, T, size :
        /\ T \in Nat \ {0} /\ size \in Nat
        /\ h = [cell |-> C, top |-> T]
        /\ Capacity(h) = size /\ T <= size
        /\ C \in [0 .. size - 1 -> V]
        /\ DOMAIN C = 0 .. size - 1
        /\ \A i \in T .. size - 1 : C[i] = 0
    BY HeapHas
<1> DEFINE new == IF n > size THEN size + n ELSE 2 * size
           wide == [i \in 0 .. new - 1 |-> IF i < T THEN C[i] ELSE 0]
<1>2. h.cell = C /\ h.top = T
    BY <1>1
<1>3. CASE T + n < size
    <2>1. IncreaseHeap(h, n) = [h EXCEPT !.top = T + n]
        BY <1>1, <1>2, <1>3 DEF IncreaseHeap
    <2>2. IncreaseHeap(h, n) = [cell |-> C, top |-> T + n]
        BY <1>1, <2>1
    <2>3. HeapFits([cell |-> C, top |-> T + n])
        <3>1. T + n \in Nat \ {0} /\ T + n <= size /\ \A i \in T + n .. size - 1 : C[i] = 0
            BY <1>1, <1>3
        <3> QED  BY <1>1, <3>1, HeapIs
    <2> QED  BY <1>1, <1>2, <1>3, <2>2, <2>3
<1>4. CASE ~(T + n < size)
    <2>1. IncreaseHeap(h, n) = [cell |-> wide, top |-> T + n]
        BY <1>1, <1>2, <1>4 DEF IncreaseHeap
    <2>2. new \in Nat /\ T + n <= new /\ T + n \in Nat \ {0}
        BY <1>1
    <2>3. /\ wide \in [0 .. new - 1 -> V \cup {0}]
          /\ \A i \in 0 .. T - 1 : wide[i] = C[i]
          /\ \A i \in T .. new - 1 : wide[i] = 0
        BY <1>1, <2>2
    <2> HIDE DEF wide, new
    <2>4. \A i \in T + n .. new - 1 : wide[i] = 0
        BY <1>1, <2>2, <2>3
    <2>5. HeapFits([cell |-> wide, top |-> T + n])
        BY <2>2, <2>3, <2>4, HeapIs
    <2> QED  BY <1>1, <1>2, <2>1, <2>2, <2>3, <2>5
<1> QED  BY <1>3, <1>4

\* Cells in use are set, and no others.
LEMMA SetCellsFits ==
    ASSUME NEW h, HeapFits(h), NEW at \in Nat, NEW values, Len(values) \in Nat, at + Len(values) <= h.top
    PROVE  /\ HeapFits(SetCells(h, at, values))
           /\ SetCells(h, at, values).top = h.top
           /\ \A i \in 0 .. h.top - 1 :
                SetCells(h, at, values).cell[i] = IF i \in at .. at + Len(values) - 1 THEN values[i - at + 1] ELSE h.cell[i]
<1>1. PICK V, C, T, size :
        /\ T \in Nat \ {0} /\ size \in Nat
        /\ h = [cell |-> C, top |-> T]
        /\ Capacity(h) = size /\ T <= size
        /\ C \in [0 .. size - 1 -> V]
        /\ DOMAIN C = 0 .. size - 1
        /\ \A i \in T .. size - 1 : C[i] = 0
    BY HeapHas
<1> DEFINE new == [i \in 0 .. size - 1 |-> IF i \in at .. at + Len(values) - 1 THEN values[i - at + 1] ELSE C[i]]
<1>2. h.cell = C /\ h.top = T
    BY <1>1
<1>3. SetCells(h, at, values) = [h EXCEPT !.cell = new]
    BY <1>1, <1>2 DEF SetCells
<1>4. SetCells(h, at, values) = [cell |-> new, top |-> T]
    BY <1>1, <1>3
<1> DEFINE W == {new[i] : i \in 0 .. size - 1}
<1>5. /\ new \in [0 .. size - 1 -> W]
      /\ \A i \in 0 .. size - 1 : new[i] = IF i \in at .. at + Len(values) - 1 THEN values[i - at + 1] ELSE C[i]
    OBVIOUS
<1> HIDE DEF new, W
<1>6. \A i \in T .. size - 1 : new[i] = 0
    BY <1>1, <1>2, <1>5
<1>7. HeapFits([cell |-> new, top |-> T])
    BY <1>1, <1>5, <1>6, HeapIs
<1> QED  BY <1>1, <1>2, <1>4, <1>5, <1>7

\* Resetting clears what was in use.
LEMMA ResetFits ==
    ASSUME NEW h, HeapFits(h)
    PROVE  HeapFits(ResetHeap(h)) /\ ResetHeap(h).top = 1
<1>1. PICK V, C, T, size :
        /\ T \in Nat \ {0} /\ size \in Nat
        /\ h = [cell |-> C, top |-> T]
        /\ Capacity(h) = size /\ T <= size
        /\ C \in [0 .. size - 1 -> V]
        /\ DOMAIN C = 0 .. size - 1
        /\ \A i \in T .. size - 1 : C[i] = 0
    BY HeapHas
<1> DEFINE new == [i \in 0 .. size - 1 |-> IF i < T THEN 0 ELSE C[i]]
<1>2. CASE T = 1
    BY <1>1, <1>2 DEF ResetHeap
<1>3. CASE T # 1
    <2>1. ResetHeap(h) = [cell |-> new, top |-> 1]
        BY <1>1, <1>3 DEF ResetHeap
    <2>2. /\ new \in [0 .. size - 1 -> V \cup {0}]
          /\ \A i \in 0 .. size - 1 : new[i] = 0
        BY <1>1
    <2> HIDE DEF new
    <2>3. HeapFits([cell |-> new, top |-> 1])
        <3>1. 1 \in Nat \ {0} /\ 1 <= size /\ \A i \in 1 .. size - 1 : new[i] = 0
            BY <1>1, <2>2
        <3> QED  BY <1>1, <2>2, <3>1, HeapIs
    <2> QED  BY <2>1, <2>3
<1> QED  BY <1>2, <1>3

\* One cell is set.
LEMMA SetCellFits ==
    ASSUME NEW h, HeapFits(h), NEW at \in Nat, at < h.top, NEW v
    PROVE  /\ HeapFits(SetCells(h, at, <<v>>))
           /\ SetCells(h, at, <<v>>).top = h.top
           /\ SetCells(h, at, <<v>>).cell[at] = v
           /\ \A i \in 0 .. h.top - 1 : i # at => SetCells(h, at, <<v>>).cell[i] = h.cell[i]
<1>1. h.top \in Nat
    BY DEF HeapFits
<1> DEFINE w == <<v>>
<1>2. Len(w) = 1 /\ w[1] = v
    OBVIOUS
<1> HIDE DEF w
<1>3. /\ HeapFits(SetCells(h, at, w))
      /\ SetCells(h, at, w).top = h.top
      /\ \A i \in 0 .. h.top - 1 :
           SetCells(h, at, w).cell[i] = IF i \in at .. at + Len(w) - 1 THEN w[i - at + 1] ELSE h.cell[i]
    <2>1. Len(w) \in Nat /\ at + Len(w) <= h.top
        BY <1>1, <1>2
    <2> QED  BY <2>1, SetCellsFits
<1>4. SetCells(h, at, w).cell[at] = v
    BY <1>1, <1>2, <1>3
<1>5. \A i \in 0 .. h.top - 1 : i # at => SetCells(h, at, w).cell[i] = h.cell[i]
    BY <1>1, <1>2, <1>3
<1> QED  BY <1>3, <1>4, <1>5 DEF w


-----------------------------------------------------------------------------
(* Structures in the main heap *)

\* Facts about the built-in types that proofs ask for by name
LEMMA TypesAre ==
    /\ Arrays \subseteq Types /\ {EIntList, NEIntList, IntList} \subseteq Types /\ Primitives \subseteq Types
    /\ EIntList \notin Arrays /\ NEIntList \notin Arrays
    /\ EIntList \notin Creatable /\ NEIntList \notin Creatable
    /\ Creatable \subseteq Types /\ Creatable \cap Arrays = {}
    /\ SideArrays \subseteq Arrays
    /\ Len(FeaturesOf[EIntList]) = 0 /\ Len(FeaturesOf[NEIntList]) = 2
    /\ \A t \in Types : Len(FeaturesOf[t]) \in Nat /\ DOMAIN FeaturesOf[t] = 1 .. Len(FeaturesOf[t])
<1>0. 1 .. 13 \subseteq Types
    BY TypesAssumption
<1>1. \A t \in {Top, Integer, Boolean, Long, String, FSArray, IntArray, StringArray, BooleanArray,
                LongArray, IntList, EIntList, NEIntList} : t \in Types
    BY <1>0 DEF Top, Integer, Boolean, Long, String, FSArray, IntArray, StringArray,
                           BooleanArray, LongArray, IntList, EIntList, NEIntList
<1>2. Arrays \subseteq Types /\ {EIntList, NEIntList, IntList} \subseteq Types /\ Primitives \subseteq Types
    BY <1>1 DEF Arrays, Primitives
<1>3. EIntList \notin Arrays /\ NEIntList \notin Arrays
    BY DEF Arrays, FSArray, IntArray, StringArray, BooleanArray, LongArray, EIntList, NEIntList
<1>4. EIntList \notin Creatable /\ NEIntList \notin Creatable /\ Creatable \subseteq Types /\ Creatable \cap Arrays = {}
    BY DEF Creatable
<1>5. SideArrays \subseteq Arrays
    BY DEF SideArrays, Arrays
<1>6. Len(FeaturesOf[EIntList]) = 0
    BY <1>1, TypesAssumption
<1>7. Len(FeaturesOf[NEIntList]) = 2
    BY <1>1, TypesAssumption
<1>8. ASSUME NEW t \in Types PROVE Len(FeaturesOf[t]) \in Nat /\ DOMAIN FeaturesOf[t] = 1 .. Len(FeaturesOf[t])
    BY TypesAssumption
<1> QED  BY <1>2, <1>3, <1>4, <1>5, <1>6, <1>7, <1>8

\* A structure takes a cell at least, and an array two.
LEMMA SizeIs ==
    ASSUME NEW t \in Types, NEW n, t \in Arrays => n \in Nat
    PROVE  /\ SizeOf(t, n) \in Nat \ {0}
           /\ t \in Arrays => SizeOf(t, n) >= 2
    BY TypesAre DEF SizeOf

\* A feature is found at the place it has in the type.
LEMMA OffsetIs ==
    ASSUME NEW t \in Types, NEW i \in DOMAIN FeaturesOf[t]
    PROVE  FeatureOffset(t, FeaturesOf[t][i]) = i
    BY TypesAssumption DEF FeatureOffset

\* Slots of a structure have different places in it, none of which is the type or the size.
LEMMA PlaceIs ==
    ASSUME NEW t \in Types, t \notin SideArrays, NEW n, t \in Arrays => n \in Nat, NEW i \in SlotsIn(t, n)
    PROVE  /\ Place(t, i) \in 1 .. SizeOf(t, n) - 1
           /\ t \in Arrays => Place(t, i) >= 2
           /\ \A j \in SlotsIn(t, n) : Place(t, j) = Place(t, i) => j = i
<1>1. CASE t \in Arrays
    BY <1>1 DEF SlotsIn, Place, SizeOf
<1>2. CASE t \notin Arrays
    <2>1. PICK k \in DOMAIN FeaturesOf[t] : i = FeaturesOf[t][k]
        BY <1>2 DEF SlotsIn
    <2>2. Place(t, i) = k /\ k \in 1 .. Len(FeaturesOf[t]) /\ Len(FeaturesOf[t]) \in Nat
        BY <1>2, <2>1, OffsetIs, TypesAre DEF Place
    <2>3. ASSUME NEW j \in SlotsIn(t, n), Place(t, j) = k PROVE j = i
        <3>1. PICK m \in DOMAIN FeaturesOf[t] : j = FeaturesOf[t][m]
            BY <1>2 DEF SlotsIn
        <3>2. Place(t, j) = m
            BY <1>2, <3>1, OffsetIs DEF Place
        <3> QED  BY <2>1, <2>3, <3>1, <3>2
    <2> QED  BY <1>2, <2>2, <2>3, TypesAre DEF SizeOf
<1> QED  BY <1>1, <1>2

\* Structures do not share cells.
LEMMA Interior ==
    ASSUME NEW h, NEW S, Layout(h, S), NEW a \in S, NEW b \in S,
           NEW x \in 0 .. Extent(h, a) - 1, NEW y \in 0 .. Extent(h, b) - 1, a + x = b + y
    PROVE  a = b /\ x = y
<1>1. a \in Nat /\ b \in Nat /\ Extent(h, a) \in Nat /\ Extent(h, b) \in Nat
    BY SizeIs DEF Layout, Extent
<1>2. (a < b => a + Extent(h, a) <= b) /\ (b < a => b + Extent(h, b) <= a)
    BY DEF Layout
<1> QED  BY <1>1, <1>2

\* From h to g the types of the structures at S and the sizes of arrays are kept.
HeadersKept(h, g, S) ==
    \A a \in S : g.cell[a] = h.cell[a] /\ (h.cell[a] \in Arrays => g.cell[a + 1] = h.cell[a + 1])

\* Structures are as large as before when their types and sizes are kept.
LEMMA ExtentKept ==
    ASSUME NEW h, NEW g, NEW S, HeadersKept(h, g, S), NEW a \in S
    PROVE  Extent(g, a) = Extent(h, a)
    BY TypesAre DEF HeadersKept, Extent, SizeOf

\* The layout is about types and sizes only.
LEMMA LayoutKept ==
    ASSUME NEW h, NEW g, NEW S, Layout(h, S), HeadersKept(h, g, S), g.top = h.top
    PROVE  Layout(g, S)
<1>1. \A a \in S : Extent(g, a) = Extent(h, a)
    BY ExtentKept
<1>2. \A a \in S : g.cell[a] \in Types /\ (g.cell[a] \in Arrays => g.cell[a + 1] \in Nat)
    BY DEF Layout, HeadersKept
<1> QED  BY <1>1, <1>2 DEF Layout

\* A structure is added at the top.
LEMMA LayoutGrown ==
    ASSUME NEW h, NEW g, NEW S, Layout(h, S), HeadersKept(h, g, S), h.top \in Nat \ {0},
           g.cell[h.top] \in Types, g.cell[h.top] \in Arrays => g.cell[h.top + 1] \in Nat,
           g.top = h.top + Extent(g, h.top)
    PROVE  Layout(g, S \cup {h.top})
<1> DEFINE k == h.top
           E(a) == Extent(g, a)
           T == S \cup {k}
<1>1. \A a \in S : E(a) = Extent(h, a)
    BY ExtentKept
<1>2. \A a \in T : g.cell[a] \in Types /\ (g.cell[a] \in Arrays => g.cell[a + 1] \in Nat)
    BY DEF Layout, HeadersKept
<1>3. \A a \in T : E(a) \in Nat \ {0}
    BY <1>2, SizeIs DEF Extent
<1>4. /\ S \subseteq Nat \ {0} /\ 1 \in S \cup {k}
      /\ \A a \in S : a + E(a) <= k
      /\ \A a, b \in S : a < b => a + E(a) <= b
      /\ \A a \in S : a + E(a) \in S \cup {k}
      /\ \A a \in S \cup {k} : a = 1 \/ \E b \in S : a = b + E(b)
    BY <1>1 DEF Layout
<1>5. g.top = k + E(k) /\ k \in Nat \ {0}
    OBVIOUS
<1> HIDE DEF E, k
<1>6. \A a \in S : a + E(a) <= g.top
    BY <1>3, <1>4, <1>5
<1>7. \A a, b \in T : a < b => a + E(a) <= b
    BY <1>3, <1>4, <1>5
<1>8. \A a \in T : a + E(a) \in T \cup {g.top}
    BY <1>4, <1>5
<1>9. \A a \in T \cup {g.top} : a = 1 \/ \E b \in T : a = b + E(b)
    BY <1>4, <1>5
<1>10. \A a \in T : a + E(a) <= g.top
    BY <1>3, <1>5, <1>6
<1>11. T \subseteq Nat \ {0} /\ 1 \in T \cup {g.top}
    BY <1>4, <1>5
<1> HIDE DEF T
<1>12. Layout(g, T)
    BY <1>2, <1>7, <1>8, <1>9, <1>10, <1>11 DEF Layout, E
<1> QED  BY <1>12 DEF T, k

\* Cells of P belong to structures at S, and hold neither their types nor their sizes nor the
\* places of elements in other heaps.
Inside(h, S, P) ==
    \A p \in P : \E a \in S : \E x \in 1 .. Extent(h, a) - 1 :
        p = a + x /\ h.cell[a] \notin SideArrays /\ (h.cell[a] \in Arrays => x >= 2)

\* Writing inside structures keeps types and sizes.
LEMMA HeadersStay ==
    ASSUME NEW h, NEW g, NEW S, Layout(h, S), h.top \in Nat, NEW P, Inside(h, S, P),
           \A p \in 0 .. h.top - 1 : p \notin P => g.cell[p] = h.cell[p]
    PROVE  HeadersKept(h, g, S)
<1> SUFFICES ASSUME NEW a \in S
             PROVE  g.cell[a] = h.cell[a] /\ (h.cell[a] \in Arrays => g.cell[a + 1] = h.cell[a + 1])
    BY DEF HeadersKept
<1>1. /\ a \in Nat \ {0} /\ Extent(h, a) \in Nat \ {0} /\ a + Extent(h, a) <= h.top
      /\ h.cell[a] \in Arrays => Extent(h, a) >= 2
    BY SizeIs DEF Layout, Extent
<1>2. a \notin P
    <2> SUFFICES ASSUME a \in P PROVE FALSE
        OBVIOUS
    <2>0. PICK b \in S : \E x \in 1 .. Extent(h, b) - 1 : a = b + x
        BY DEF Inside
    <2>1. PICK x \in 1 .. Extent(h, b) - 1 : a = b + x
        BY <2>0
    <2>2. 0 \in 0 .. Extent(h, a) - 1 /\ x \in 0 .. Extent(h, b) - 1 /\ a + 0 = b + x /\ x # 0
        BY <1>1, <2>1
    <2> QED  BY <2>2, Interior
<1>3. ASSUME h.cell[a] \in Arrays PROVE a + 1 \notin P
    <2> SUFFICES ASSUME a + 1 \in P PROVE FALSE
        OBVIOUS
    <2>1. PICK b \in S : \E x \in 1 .. Extent(h, b) - 1 : a + 1 = b + x /\ (h.cell[b] \in Arrays => x >= 2)
        BY DEF Inside
    <2>2. PICK x \in 1 .. Extent(h, b) - 1 : a + 1 = b + x /\ (h.cell[b] \in Arrays => x >= 2)
        BY <2>1
    <2>3. 1 \in 0 .. Extent(h, a) - 1 /\ x \in 0 .. Extent(h, b) - 1
        BY <1>1, <1>3, <2>2
    <2>4. a = b /\ x = 1
        BY <2>2, <2>3, Interior
    <2> QED  BY <1>3, <2>2, <2>4
<1> QED  BY <1>1, <1>2, <1>3


-----------------------------------------------------------------------------
(* Steps that change some slots of one object *)

\* A slot of an object has the place of a cell of that object.
LEMMA PosIs ==
    ASSUME NEW S, Layout(heap, S), NEW a \in Objects, a \in S, ObjectFits(a, S), InMain(a), NEW i \in SlotsOf(a)
    PROVE  /\ Pos(a, i) = a + Place(stored[a].type, i)
           /\ Place(stored[a].type, i) \in 1 .. Extent(heap, a) - 1
           /\ heap.cell[a] \in Arrays => Place(stored[a].type, i) >= 2
           /\ \A j \in SlotsOf(a) : Place(stored[a].type, j) = Place(stored[a].type, i) => j = i
<1>1. stored[a].type \in Types /\ stored[a].type \notin SideArrays /\ stored[a].type = heap.cell[a]
    BY TypesAre DEF ObjectFits, InMain
<1>2. stored[a].type \in Arrays => heap.cell[a + 1] \in Nat
    BY <1>1 DEF Layout
<1>3. i \in SlotsIn(stored[a].type, heap.cell[a + 1])
    BY DEF SlotsOf
<1>4. /\ Place(stored[a].type, i) \in 1 .. SizeOf(stored[a].type, heap.cell[a + 1]) - 1
      /\ stored[a].type \in Arrays => Place(stored[a].type, i) >= 2
      /\ \A j \in SlotsIn(stored[a].type, heap.cell[a + 1]) :
           Place(stored[a].type, j) = Place(stored[a].type, i) => j = i
    BY <1>1, <1>2, <1>3, PlaceIs
<1> QED  BY <1>1, <1>4 DEF Pos, SlotsOf, Extent

\* Slots of the same or of different objects are in different cells.
LEMMA PosApart ==
    ASSUME NEW S, Layout(heap, S), Objects \subseteq S, \A a \in Objects : ObjectFits(a, S),
           NEW a \in Objects, InMain(a), NEW i \in SlotsOf(a),
           NEW b \in Objects, InMain(b), NEW j \in SlotsOf(b), Pos(a, i) = Pos(b, j)
    PROVE  a = b /\ i = j
<1> DEFINE x == Place(stored[a].type, i)
           y == Place(stored[b].type, j)
<1>1. /\ Pos(a, i) = a + x /\ x \in 1 .. Extent(heap, a) - 1
      /\ \A k \in SlotsOf(a) : Place(stored[a].type, k) = x => k = i
    BY PosIs
<1>2. Pos(b, j) = b + y /\ y \in 1 .. Extent(heap, b) - 1
    BY PosIs
<1>3. a = b /\ x = y
    <2>1. Extent(heap, a) \in Nat /\ Extent(heap, b) \in Nat
        BY SizeIs DEF Layout, Extent
    <2>2. a + x = b + y
        BY <1>1, <1>2
    <2> HIDE DEF x, y
    <2>3. x \in 0 .. Extent(heap, a) - 1 /\ y \in 0 .. Extent(heap, b) - 1
        BY <1>1, <1>2, <2>1
    <2> QED  BY <2>2, <2>3, Interior
<1> QED  BY <1>1, <1>3

\* The value of slot i of b, its cell and its reference stay as they are.
Same(b, i) ==
    /\ stored'[b].slots[i] = stored[b].slots[i]
    /\ InMain(b) => heap'.cell[Pos(b, i)] = heap.cell[Pos(b, i)]
    /\ IsSet(b, i, "string") =>
         LET c == RefCell(heap.cell[Pos(b, i)])
         IN refs'.cell[c] = refs.cell[c] /\ refs'.cell[c + 1] = refs.cell[c + 1]

\* All objects and all slots stay, but for the slots D of a.
KeptBut(a, D) ==
    /\ Objects \subseteq Objects' /\ Objects' \subseteq Objects \cup {a}
    /\ \A b \in Objects :
         /\ stored'[b] = [type |-> stored[b].type, slots |-> stored'[b].slots]
         /\ DOMAIN stored'[b].slots = DOMAIN stored[b].slots
         /\ heap'.cell[b] = heap.cell[b]
         /\ heap.cell[b] \in Arrays => heap'.cell[b + 1] = heap.cell[b + 1]
         /\ heap.cell[b] \in SideArrays => heap'.cell[b + 2] = heap.cell[b + 2]
         /\ \A i \in SlotsOf(b) : (b = a /\ i \in D) \/ Same(b, i)
    /\ refs'.top >= refs.top
    /\ Grown(chars, chars') /\ Grown(longs, longs') /\ Grown(bytes, bytes')

OutsideArray(c, b) == c < heap.cell[b + 2] \/ c >= heap.cell[b + 2] + heap.cell[b + 1]

\* The slots D of a fit after the step, and share no reference and no cell with others.
NewFits(a, D, S) ==
    /\ \A d \in D : SlotFits(a, d, S)'
    /\ \A d \in D : IsSet(a, d, "string")' =>
         /\ \A b \in Objects : \A j \in SlotsOf(b) :
              IsSet(b, j, "string") /\ ~(b = a /\ j \in D) => heap.cell[Pos(b, j)] # heap'.cell[Pos(a, d)']
         /\ \A e \in D : IsSet(a, e, "string")' /\ heap'.cell[Pos(a, e)'] = heap'.cell[Pos(a, d)'] => e = d
    /\ \A d \in D : IsSet(a, d, "long")' =>
         \A b \in Objects : stored[b].type = LongArray => OutsideArray(heap'.cell[Pos(a, d)'], b)

\* A cell fits as before when nothing of what it leads to has changed.
LEMMA CellStays ==
    ASSUME NEW R, NEW C, NEW L, HeapFits(R), HeapFits(C), HeapFits(L),
           NEW R2, NEW C2, NEW L2, R2.top >= R.top, Grown(C, C2), Grown(L, L2),
           R2.top \in Nat, C2.top \in Nat, L2.top \in Nat,
           NEW w, NEW c, CellFits(R, C, L, w, c),
           w.kind = "string" => /\ R2.cell[RefCell(c)] = R.cell[RefCell(c)]
                                /\ R2.cell[RefCell(c) + 1] = R.cell[RefCell(c) + 1]
    PROVE  CellFits(R2, C2, L2, w, c)
<1>1. /\ C.top \in Nat /\ C2.top >= C.top /\ \A p \in 0 .. C.top - 1 : C2.cell[p] = C.cell[p]
      /\ L.top \in Nat /\ L2.top >= L.top /\ \A p \in 0 .. L.top - 1 : L2.cell[p] = L.cell[p]
      /\ R.top \in Nat
    BY DEF Grown, HeapFits
<1>2. CASE w.kind = "string"
    <2>1. StringFits(R, C, c, w.v)
        BY <1>2 DEF CellFits
    <2> DEFINE s == w.v
               p == R.cell[RefCell(c)]
    <2>2. /\ s \in Seq(Int \ {0}) /\ Len(s) \in Nat /\ p \in Nat /\ p + Len(s) < C.top
          /\ c \in Nat \ {0} /\ RefCell(c) + 1 < R.top /\ R.cell[RefCell(c) + 1] = Len(s)
          /\ \A j \in 1 .. Len(s) : C.cell[p + j - 1] = s[j]
          /\ C.cell[p + Len(s)] = 0
        BY <2>1 DEF StringFits
    <2>3. R2.cell[RefCell(c)] = p /\ R2.cell[RefCell(c) + 1] = Len(s) /\ RefCell(c) + 1 < R2.top
        BY <1>1, <1>2, <2>2 DEF RefCell
    <2> HIDE DEF s, p
    <2>4. /\ p + Len(s) < C2.top /\ C2.cell[p + Len(s)] = 0
          /\ \A j \in 1 .. Len(s) : C2.cell[p + j - 1] = s[j]
        <3>1. p + Len(s) \in 0 .. C.top - 1 /\ p + Len(s) < C2.top
            BY <1>1, <2>2
        <3>2. ASSUME NEW j \in 1 .. Len(s) PROVE C2.cell[p + j - 1] = s[j]
            <4>1. p + j - 1 \in 0 .. C.top - 1
                BY <1>1, <2>2
            <4> QED  BY <1>1, <2>2, <4>1
        <3> QED  BY <1>1, <2>2, <3>1, <3>2
    <2>5. StringFits(R2, C2, c, s)
        BY <2>2, <2>3, <2>4 DEF StringFits
    <2>6. StringFits(R2, C2, c, w.v)
        BY <2>5 DEF s
    <2> QED  BY <1>2, <2>6 DEF CellFits
<1>3. CASE w.kind = "long"
    BY <1>1, <1>3 DEF CellFits
<1>4. CASE w.kind \notin {"string", "long"}
    BY <1>4 DEF CellFits
<1> QED  BY <1>2, <1>3, <1>4

\* A slot that stays fits after the step.
LEMMA SlotStays ==
    ASSUME HeapsAreFit, HeapsAreFit', NEW S, NEW S2, S \subseteq S2, NEW a, NEW D, KeptBut(a, D),
           NEW b \in Objects, ObjectFits(b, S), NEW i \in SlotsOf(b), Same(b, i)
    PROVE  SlotFits(b, i, S2)' /\ (InMain(b) => Pos(b, i)' = Pos(b, i)) /\ InMain(b)' = InMain(b)
<1>1. stored'[b].type = stored[b].type /\ stored'[b].slots[i] = stored[b].slots[i]
    <2>1. stored'[b] = [type |-> stored[b].type, slots |-> stored'[b].slots]
        BY DEF KeptBut
    <2>2. stored'[b].type = stored[b].type
        BY <2>1
    <2> QED  BY <2>2 DEF Same
<1>2. InMain(b)' = InMain(b) /\ Pos(b, i)' = Pos(b, i)
    BY <1>1 DEF InMain, Pos
<1>3. SlotFits(b, i, S)
    BY DEF ObjectFits
<1>4. ValueFits(stored[b].type, i, stored[b].slots[i], S2)
    BY <1>3 DEF SlotFits, ValueFits
<1>5. ASSUME InMain(b)
      PROVE  CellFits(refs', chars', longs', stored[b].slots[i], heap.cell[Pos(b, i)])
    <2>1. HeapFits(refs) /\ HeapFits(chars) /\ HeapFits(longs)
        BY DEF HeapsAreFit
    <2>2. refs'.top \in Nat /\ chars'.top \in Nat /\ longs'.top \in Nat
        BY DEF HeapsAreFit, HeapFits
    <2>3. PICK w, c : w = stored[b].slots[i] /\ c = heap.cell[Pos(b, i)]
        OBVIOUS
    <2>4. CellFits(refs, chars, longs, w, c)
        BY <1>3, <1>5, <2>3 DEF SlotFits
    <2>5. refs'.top >= refs.top /\ Grown(chars, chars') /\ Grown(longs, longs')
        BY DEF KeptBut
    <2>6. w.kind = "string" => /\ refs'.cell[RefCell(c)] = refs.cell[RefCell(c)]
                               /\ refs'.cell[RefCell(c) + 1] = refs.cell[RefCell(c) + 1]
        BY <1>5, <2>3 DEF Same, IsSet
    <2>7. CellFits(refs', chars', longs', w, c)
        BY <2>1, <2>2, <2>4, <2>5, <2>6, CellStays
    <2> QED  BY <2>3, <2>7
<1>6. InMain(b) => heap'.cell[Pos(b, i)] = heap.cell[Pos(b, i)]
    BY DEF Same
<1> QED  BY <1>1, <1>2, <1>4, <1>5, <1>6 DEF SlotFits


\* What of the main heap stays when only cells inside P were written.
LEMMA MainKept ==
    ASSUME NEW S, Layout(heap, S), HeapFits(heap), Objects \subseteq S, \A b \in Objects : ObjectFits(b, S),
           NEW P, Inside(heap, S, P), \A p \in 0 .. heap.top - 1 : p \notin P => heap'.cell[p] = heap.cell[p],
           NEW b \in Objects
    PROVE  /\ heap'.cell[b] = heap.cell[b]
           /\ heap.cell[b] \in Arrays => heap'.cell[b + 1] = heap.cell[b + 1]
           /\ heap.cell[b] \in SideArrays => heap'.cell[b + 2] = heap.cell[b + 2]
           /\ \A i \in SlotsOf(b) : InMain(b) /\ Pos(b, i) \notin P => heap'.cell[Pos(b, i)] = heap.cell[Pos(b, i)]
<1>1. HeadersKept(heap, heap', S)
    BY HeadersStay DEF HeapFits
<1>2. b \in Nat \ {0} /\ Extent(heap, b) \in Nat \ {0} /\ b + Extent(heap, b) <= heap.top /\ heap.top \in Nat
    BY SizeIs DEF Layout, Extent, HeapFits
<1>3. ASSUME heap.cell[b] \in SideArrays PROVE heap'.cell[b + 2] = heap.cell[b + 2]
    <2>1. Extent(heap, b) = 3
        BY <1>3 DEF Extent, SizeOf
    <2>2. b + 2 \notin P
        <3> SUFFICES ASSUME b + 2 \in P PROVE FALSE
            OBVIOUS
        <3>1. PICK c \in S : \E x \in 1 .. Extent(heap, c) - 1 : b + 2 = c + x /\ heap.cell[c] \notin SideArrays
            BY DEF Inside
        <3>2. PICK x \in 1 .. Extent(heap, c) - 1 : b + 2 = c + x
            BY <3>1
        <3>3. 2 \in 0 .. Extent(heap, b) - 1 /\ x \in 0 .. Extent(heap, c) - 1
            BY <2>1, <3>2
        <3>4. b = c
            BY <3>2, <3>3, Interior
        <3> QED  BY <1>3, <3>1, <3>4
    <2> QED  BY <1>2, <2>1, <2>2
<1>4. ASSUME NEW i \in SlotsOf(b), InMain(b), Pos(b, i) \notin P
      PROVE  heap'.cell[Pos(b, i)] = heap.cell[Pos(b, i)]
    <2> DEFINE x == Place(stored[b].type, i)
    <2>1. Pos(b, i) = b + x /\ x \in 1 .. Extent(heap, b) - 1
        BY <1>4, PosIs
    <2> HIDE DEF x
    <2>2. b + x \in 0 .. heap.top - 1
        BY <1>2, <2>1
    <2> QED  BY <1>4, <2>1, <2>2
<1>5. heap'.cell[b] = heap.cell[b] /\ (heap.cell[b] \in Arrays => heap'.cell[b + 1] = heap.cell[b + 1])
    BY <1>1 DEF HeadersKept
<1> QED  BY <1>3, <1>4, <1>5

\* A new array takes cells of its own in the side heap.
SideFresh(a) ==
    /\ stored'[a].type = BooleanArray => heap'.cell[a + 2] >= bytes.top
    /\ stored'[a].type = LongArray => heap'.cell[a + 2] >= longs.top

\* When the new slots fit and the others stay, all objects fit after the step.
LEMMA ObjectsKept ==
    ASSUME HeapsAreFit, HeapsAreFit', NEW S, NEW S2, S \subseteq S2, Layout(heap, S), Objects \subseteq S, ObjectsFit(S),
           NEW a, NEW D, KeptBut(a, D), NewFits(a, D, S2),
           a \in Objects /\ ~InMain(a) => D = {},
           a \in Objects' \ Objects => D = SlotsOf(a)' /\ ObjectFits(a, S2)' /\ SideFresh(a)
    PROVE  ObjectsFit(S2)'
<1> DEFINE Old(b, i) == b \in Objects /\ i \in SlotsOf(b) /\ Same(b, i) /\ ~(b = a /\ i \in D)
           New(b, i) == b = a /\ i \in D
<1>1. ASSUME NEW b \in Objects
      PROVE  /\ b \in Objects' /\ stored'[b].type = stored[b].type /\ InMain(b)' = InMain(b)
             /\ stored[b].type = heap.cell[b] /\ stored[b].type \in Types
             /\ SlotsOf(b)' = SlotsOf(b)
             /\ heap'.cell[b] = heap.cell[b]
             /\ heap.cell[b] \in Arrays => heap'.cell[b + 1] = heap.cell[b + 1]
             /\ heap.cell[b] \in SideArrays => heap'.cell[b + 2] = heap.cell[b + 2]
    <2>1. stored[b].type = heap.cell[b] /\ stored[b].type \in Types
        BY TypesAre DEF ObjectsFit, ObjectFits
    <2>2. stored'[b] = [type |-> stored[b].type, slots |-> stored'[b].slots]
        BY DEF KeptBut
    <2>3. /\ b \in Objects'
          /\ heap'.cell[b] = heap.cell[b]
          /\ heap.cell[b] \in Arrays => heap'.cell[b + 1] = heap.cell[b + 1]
          /\ heap.cell[b] \in SideArrays => heap'.cell[b + 2] = heap.cell[b + 2]
        BY DEF KeptBut
    <2>4. stored'[b].type = stored[b].type
        BY <2>2
    <2>5. SlotsOf(b)' = SlotsOf(b)
        BY <2>1, <2>3, <2>4 DEF SlotsOf, SlotsIn
    <2>6. InMain(b)' = InMain(b)
        BY <2>4 DEF InMain
    <2> QED  BY <2>1, <2>3, <2>4, <2>5, <2>6
<1>2. ASSUME NEW b \in Objects, NEW i \in SlotsOf(b) PROVE Old(b, i) \/ New(b, i)
    BY DEF KeptBut
<1>3. ASSUME NEW b \in Objects', NEW i \in SlotsOf(b)' PROVE Old(b, i) \/ New(b, i)
    <2>1. CASE b \in Objects
        BY <1>1, <1>2, <2>1
    <2>2. CASE b \notin Objects
        BY <2>2 DEF KeptBut
    <2> QED  BY <2>1, <2>2
<1>4. ASSUME NEW b, NEW i, Old(b, i)
      PROVE  /\ SlotFits(b, i, S2)' /\ stored'[b].slots[i] = stored[b].slots[i]
             /\ InMain(b) => heap'.cell[Pos(b, i)'] = heap.cell[Pos(b, i)]
             /\ \A kind : IsSet(b, i, kind)' = IsSet(b, i, kind)
             /\ InMain(b) => CellFits(refs, chars, longs, stored[b].slots[i], heap.cell[Pos(b, i)])
    <2>1. b \in Objects /\ i \in SlotsOf(b) /\ Same(b, i) /\ ObjectFits(b, S)
        BY <1>4 DEF ObjectsFit
    <2>2. SlotFits(b, i, S2)' /\ (InMain(b) => Pos(b, i)' = Pos(b, i)) /\ InMain(b)' = InMain(b)
        BY <2>1, SlotStays
    <2>3. stored'[b].slots[i] = stored[b].slots[i] /\ (InMain(b) => heap'.cell[Pos(b, i)] = heap.cell[Pos(b, i)])
        BY <2>1 DEF Same
    <2>4. SlotFits(b, i, S)
        BY <2>1 DEF ObjectFits
    <2>5. \A kind : IsSet(b, i, kind)' = IsSet(b, i, kind)
        BY <2>2, <2>3 DEF IsSet
    <2>6. InMain(b) => heap'.cell[Pos(b, i)'] = heap.cell[Pos(b, i)]
        BY <2>2, <2>3
    <2>7. InMain(b) => CellFits(refs, chars, longs, stored[b].slots[i], heap.cell[Pos(b, i)])
        BY <2>4 DEF SlotFits
    <2> QED  BY <2>2, <2>3, <2>5, <2>6, <2>7
<1>5. ASSUME NEW b \in Objects PROVE ObjectFits(b, S2)'
    <2>1. ObjectFits(b, S)
        BY DEF ObjectsFit
    <2>2. stored'[b] = [type |-> stored'[b].type, slots |-> stored'[b].slots]
        BY <1>1 DEF KeptBut
    <2>3. DOMAIN stored'[b].slots = SlotsOf(b)'
        BY <1>1, <2>1 DEF KeptBut, ObjectFits
    <2>4. \A i \in SlotsOf(b)' : SlotFits(b, i, S2)'
        BY <1>1, <1>2, <1>4 DEF NewFits
    <2>5. ASSUME NEW g, NEW g2, Grown(g, g2), g.top \in Nat, g2.top \in Nat, SideFits(b, g), heap.cell[b] \in SideArrays
          PROVE  /\ heap'.cell[b + 2] \in Nat \ {0}
                 /\ heap'.cell[b + 2] + heap'.cell[b + 1] <= g2.top
                 /\ \A i \in 0 .. heap'.cell[b + 1] - 1 :
                      g2.cell[heap'.cell[b + 2] + i] = IF stored'[b].slots[i].kind = "unset" THEN 0
                                                       ELSE stored'[b].slots[i].v
        <3>1. heap'.cell[b + 1] = heap.cell[b + 1] /\ heap'.cell[b + 2] = heap.cell[b + 2]
            BY <1>1, <2>5, TypesAre
        <3>2. \A i \in 0 .. heap.cell[b + 1] - 1 : stored'[b].slots[i] = stored[b].slots[i]
            <4>1. heap.cell[b] \in Arrays
                BY <2>5, TypesAre
            <4>2. SlotsOf(b) = 0 .. heap.cell[b + 1] - 1
                BY <1>1, <4>1 DEF SlotsOf, SlotsIn
            <4>3. b = a => D = {}
                BY <1>1, <2>5 DEF InMain
            <4> QED  BY <1>2, <1>4, <4>2, <4>3
        <3>3. heap.cell[b + 2] \in Nat \ {0} /\ heap.cell[b + 2] + heap.cell[b + 1] <= g.top
            BY <2>5 DEF SideFits
        <3>4. heap.cell[b + 1] \in Nat
            BY <2>5, TypesAre DEF Layout
        <3>5. heap.cell[b + 2] + heap.cell[b + 1] <= g2.top
            BY <2>5, <3>3, <3>4 DEF Grown
        <3>6. ASSUME NEW i \in 0 .. heap.cell[b + 1] - 1
              PROVE  g2.cell[heap.cell[b + 2] + i] = g.cell[heap.cell[b + 2] + i]
            <4>1. heap.cell[b + 2] + i \in 0 .. g.top - 1
                BY <2>5, <3>3, <3>4
            <4> QED  BY <2>5, <4>1 DEF Grown
        <3> QED  BY <2>5, <3>1, <3>2, <3>3, <3>5, <3>6 DEF SideFits
    <2>6. /\ bytes.top \in Nat /\ longs.top \in Nat /\ bytes'.top \in Nat /\ longs'.top \in Nat
          /\ Grown(bytes, bytes') /\ Grown(longs, longs')
        BY DEF HeapsAreFit, HeapFits, KeptBut
    <2>7. stored'[b].type = BooleanArray => SideFits(b, bytes)'
        BY <1>1, <2>1, <2>5, <2>6 DEF ObjectFits, SideFits, SideArrays
    <2>8. stored'[b].type = LongArray => SideFits(b, longs)'
        BY <1>1, <2>1, <2>5, <2>6 DEF ObjectFits, SideFits, SideArrays
    <2>9. stored'[b].type = heap'.cell[b] /\ stored'[b].type \in Creatable \cup Arrays
        BY <1>1, <2>1 DEF ObjectFits
    <2> QED  BY <2>2, <2>3, <2>4, <2>7, <2>8, <2>9 DEF ObjectFits
<1>6. \A b \in Objects' : ObjectFits(b, S2)'
    BY <1>5 DEF KeptBut
<1>7. RefsApart'
    <2> SUFFICES ASSUME NEW b \in Objects', NEW c \in Objects', NEW i \in SlotsOf(b)', NEW j \in SlotsOf(c)',
                        IsSet(b, i, "string")', IsSet(c, j, "string")',
                        heap'.cell[Pos(b, i)'] = heap'.cell[Pos(c, j)']
                 PROVE  b = c /\ i = j
        BY DEF RefsApart
    <2>1. CASE Old(b, i) /\ Old(c, j)
        <3>1. IsSet(b, i, "string") /\ IsSet(c, j, "string") /\ heap.cell[Pos(b, i)] = heap.cell[Pos(c, j)]
            BY <1>4, <2>1 DEF IsSet
        <3> QED  BY <2>1, <3>1 DEF ObjectsFit, RefsApart
    <2>2. CASE Old(b, i) /\ New(c, j)
        <3>1. IsSet(b, i, "string") /\ heap'.cell[Pos(b, i)'] = heap.cell[Pos(b, i)]
            BY <1>4, <2>2 DEF IsSet
        <3> QED  BY <2>2, <3>1 DEF NewFits
    <2>3. CASE New(b, i) /\ Old(c, j)
        <3>1. IsSet(c, j, "string") /\ heap'.cell[Pos(c, j)'] = heap.cell[Pos(c, j)]
            BY <1>4, <2>3 DEF IsSet
        <3> QED  BY <2>3, <3>1 DEF NewFits
    <2>4. CASE New(b, i) /\ New(c, j)
        BY <2>4 DEF NewFits
    <2> QED  BY <1>3, <2>1, <2>2, <2>3, <2>4
<1>8. ASSUME NEW t \in SideArrays, NEW g, g.top \in Nat, SidesApart(t),
             \A b \in Objects : stored[b].type = t => SideFits(b, g),
             \A b \in Objects' \ Objects : stored'[b].type = t => heap'.cell[b + 2] >= g.top,
             \A b \in Objects' \ Objects : stored'[b].type = t => heap'.cell[b + 2] \in Nat
      PROVE  SidesApart(t)'
    <2> SUFFICES ASSUME NEW b \in Objects', NEW c \in Objects', stored'[b].type = t, stored'[c].type = t, b # c
                 PROVE  \/ heap'.cell[b + 2] + heap'.cell[b + 1] <= heap'.cell[c + 2]
                        \/ heap'.cell[c + 2] + heap'.cell[c + 1] <= heap'.cell[b + 2]
        BY DEF SidesApart
    <2>1. ASSUME NEW d \in Objects, stored'[d].type = t
          PROVE  /\ stored[d].type = t
                 /\ heap'.cell[d + 1] = heap.cell[d + 1] /\ heap'.cell[d + 2] = heap.cell[d + 2]
                 /\ heap'.cell[d + 1] \in Nat /\ heap'.cell[d + 2] \in Nat
                 /\ heap'.cell[d + 2] + heap'.cell[d + 1] <= g.top
        <3>1. stored[d].type = t /\ heap.cell[d] = t
            BY <1>1, <2>1
        <3>2. heap'.cell[d + 1] = heap.cell[d + 1] /\ heap'.cell[d + 2] = heap.cell[d + 2]
            BY <1>1, <1>8, <3>1, TypesAre
        <3>3. heap.cell[d + 1] \in Nat
            BY <1>8, <3>1, TypesAre DEF Layout
        <3>4. heap.cell[d + 2] \in Nat /\ heap.cell[d + 2] + heap.cell[d + 1] <= g.top
            BY <1>8, <3>1 DEF SideFits
        <3> QED  BY <3>1, <3>2, <3>3, <3>4
    <2>2. CASE b \in Objects /\ c \in Objects
        <3>1. \/ heap.cell[b + 2] + heap.cell[b + 1] <= heap.cell[c + 2]
              \/ heap.cell[c + 2] + heap.cell[c + 1] <= heap.cell[b + 2]
            BY <1>8, <2>1, <2>2 DEF SidesApart
        <3> QED  BY <2>1, <2>2, <3>1
    <2>3. CASE b \in Objects /\ c \notin Objects
        BY <1>8, <2>1, <2>3
    <2>4. CASE b \notin Objects /\ c \in Objects
        BY <1>8, <2>1, <2>4
    <2>5. CASE b \notin Objects /\ c \notin Objects
        BY <2>5 DEF KeptBut
    <2> QED  BY <2>2, <2>3, <2>4, <2>5
<1>9. SidesApart(BooleanArray)' /\ SidesApart(LongArray)'
    <2>1. bytes.top \in Nat /\ longs.top \in Nat
        BY DEF HeapsAreFit, HeapFits
    <2>2. SidesApart(BooleanArray) /\ SidesApart(LongArray) /\ \A b \in Objects : ObjectFits(b, S)
        BY DEF ObjectsFit
    <2>3. ASSUME NEW b \in Objects' \ Objects
          PROVE  /\ stored'[b].type = BooleanArray => heap'.cell[b + 2] \in Nat /\ heap'.cell[b + 2] >= bytes.top
                 /\ stored'[b].type = LongArray => heap'.cell[b + 2] \in Nat /\ heap'.cell[b + 2] >= longs.top
        <3>1. b = a /\ ObjectFits(a, S2)' /\ SideFresh(a)
            BY DEF KeptBut
        <3> QED  BY <3>1 DEF ObjectFits, SideFits, SideFresh
    <2>4. SidesApart(BooleanArray)'
        BY <1>8, <2>1, <2>2, <2>3 DEF ObjectFits, SideArrays
    <2>5. SidesApart(LongArray)'
        BY <1>8, <2>1, <2>2, <2>3 DEF ObjectFits, SideArrays
    <2> QED  BY <2>4, <2>5
<1>10. LongsApart'
    <2> SUFFICES ASSUME NEW b \in Objects', NEW c \in Objects', NEW i \in SlotsOf(b)',
                        IsSet(b, i, "long")', stored'[c].type = LongArray
                 PROVE  \/ heap'.cell[Pos(b, i)'] < heap'.cell[c + 2]
                        \/ heap'.cell[Pos(b, i)'] >= heap'.cell[c + 2] + heap'.cell[c + 1]
        BY DEF LongsApart
    <2>1. ASSUME c \in Objects
          PROVE  /\ stored[c].type = LongArray
                 /\ heap'.cell[c + 1] = heap.cell[c + 1] /\ heap'.cell[c + 2] = heap.cell[c + 2]
        BY <1>1, <2>1, TypesAre DEF SideArrays
    <2>2. ASSUME c \notin Objects
          PROVE  c = a /\ heap'.cell[c + 2] >= longs.top /\ heap'.cell[c + 2] \in Nat /\ ~InMain(c)'
        <3>1. c = a /\ ObjectFits(a, S2)' /\ SideFresh(a)
            BY <2>2 DEF KeptBut
        <3> QED  BY <3>1 DEF ObjectFits, SideFits, SideFresh, InMain, SideArrays
    <2>3. CASE Old(b, i)
        <3>1. /\ IsSet(b, i, "long") /\ heap'.cell[Pos(b, i)'] = heap.cell[Pos(b, i)]
              /\ heap.cell[Pos(b, i)] \in 1 .. longs.top - 1
            BY <1>4, <2>3 DEF IsSet, CellFits
        <3>2. CASE c \in Objects
            BY <2>1, <2>3, <3>1, <3>2 DEF ObjectsFit, LongsApart
        <3>3. CASE c \notin Objects
            <4>1. longs.top \in Nat
                BY DEF HeapsAreFit, HeapFits
            <4> QED  BY <2>2, <3>1, <3>3, <4>1
        <3> QED  BY <3>2, <3>3
    <2>4. CASE New(b, i)
        <3>1. CASE c \in Objects
            BY <2>1, <2>4, <3>1 DEF NewFits, OutsideArray
        <3>2. CASE c \notin Objects
            BY <2>2, <2>4, <3>2 DEF IsSet
        <3> QED  BY <3>1, <3>2
    <2> QED  BY <1>3, <2>3, <2>4
<1> QED  BY <1>6, <1>7, <1>9, <1>10 DEF ObjectsFit


\* The references of slots that are not D of a lead where they led.
RefsStay(a, D) ==
    \A b \in Objects : \A i \in SlotsOf(b) : ~(b = a /\ i \in D) /\ IsSet(b, i, "string") =>
        LET c == RefCell(heap.cell[Pos(b, i)])
        IN refs'.cell[c] = refs.cell[c] /\ refs'.cell[c + 1] = refs.cell[c + 1]

\* They do when no reference is changed: each is below the top of the table.
LEMMA RefsGrown ==
    ASSUME HeapsAreFit, NEW S, Layout(heap, S), Objects \subseteq S, ObjectsFit(S), Grown(refs, refs'), NEW a, NEW D
    PROVE  RefsStay(a, D)
<1> SUFFICES ASSUME NEW b \in Objects, NEW i \in SlotsOf(b), IsSet(b, i, "string")
             PROVE  LET c == RefCell(heap.cell[Pos(b, i)])
                    IN refs'.cell[c] = refs.cell[c] /\ refs'.cell[c + 1] = refs.cell[c + 1]
    BY DEF RefsStay
<1>1. SlotFits(b, i, S) /\ InMain(b) /\ stored[b].slots[i].kind = "string"
    BY DEF ObjectsFit, ObjectFits, IsSet
<1> DEFINE r == heap.cell[Pos(b, i)]
<1>2. StringFits(refs, chars, r, stored[b].slots[i].v)
    BY <1>1 DEF SlotFits, CellFits
<1>3. r \in Nat \ {0} /\ RefCell(r) + 1 < refs.top
    BY <1>2 DEF StringFits
<1> HIDE DEF r
<1>4. refs.top \in Nat
    BY DEF HeapsAreFit, HeapFits
<1>5. RefCell(r) \in 0 .. refs.top - 1 /\ RefCell(r) + 1 \in 0 .. refs.top - 1
    BY <1>3, <1>4 DEF RefCell
<1>6. refs'.cell[RefCell(r)] = refs.cell[RefCell(r)] /\ refs'.cell[RefCell(r) + 1] = refs.cell[RefCell(r) + 1]
    BY <1>5 DEF Grown
<1> QED  BY <1>6 DEF r

\* Of all objects only the slots D of a get other values.
Rewritten(a, D) ==
    /\ Objects' = Objects
    /\ \A b \in Objects : stored'[b] = [type |-> stored[b].type, slots |-> stored'[b].slots]
    /\ \A b \in Objects : b # a => stored'[b].slots = stored[b].slots
    /\ DOMAIN stored'[a].slots = DOMAIN stored[a].slots
    /\ \A i \in SlotsOf(a) \ D : stored'[a].slots[i] = stored[a].slots[i]

\* Writing one slot does that.
LEMMA WroteIs ==
    ASSUME NEW N, Fits(N), NEW a \in Objects, NEW i \in SlotsOf(a), NEW k, NEW v, Wrote(a, i, k, v)
    PROVE  Rewritten(a, {i}) /\ stored'[a].slots[i] = Value(k, v)
<1>1. stored' = [stored EXCEPT ![a] = [stored[a] EXCEPT !.slots = [stored[a].slots EXCEPT ![i] = Value(k, v)]]]
    BY DEF Wrote
<1>2. \A b \in Objects : ObjectFits(b, Objects \cup N)
    BY DEF Fits, ObjectsFit
<1>3. stored[a] = [type |-> stored[a].type, slots |-> stored[a].slots]
    BY <1>2 DEF ObjectFits
<1> DEFINE new == [stored[a].slots EXCEPT ![i] = Value(k, v)]
<1>4. [stored[a] EXCEPT !.slots = new] = [type |-> stored[a].type, slots |-> new]
    BY <1>3
<1>5. DOMAIN stored' = Objects /\ stored'[a] = [type |-> stored[a].type, slots |-> new]
      /\ \A b \in Objects : b # a => stored'[b] = stored[b]
    BY <1>1, <1>4 DEF Objects
<1>6. i \in DOMAIN stored[a].slots
    BY <1>2 DEF ObjectFits
<1>7. DOMAIN new = DOMAIN stored[a].slots /\ new[i] = Value(k, v)
      /\ \A j \in SlotsOf(a) \ {i} : new[j] = stored[a].slots[j]
    BY <1>2, <1>6 DEF ObjectFits
<1> HIDE DEF new
<1>8. stored'[a].slots = new /\ stored'[a].type = stored[a].type
    BY <1>5
<1>9. ASSUME NEW b \in Objects PROVE stored'[b] = [type |-> stored[b].type, slots |-> stored'[b].slots]
    <2>1. CASE b = a
        BY <1>5, <1>8, <2>1
    <2>2. CASE b # a
        BY <1>2, <1>5, <2>2 DEF ObjectFits
    <2> QED  BY <2>1, <2>2
<1>10. Objects' = Objects
    BY <1>5 DEF Objects
<1>11. \A b \in Objects : b # a => stored'[b].slots = stored[b].slots
    BY <1>5
<1> QED  BY <1>7, <1>8, <1>9, <1>10, <1>11 DEF Rewritten

\* Slots D of an object are written, and nothing else in the main heap below the top.
LEMMA SlotsWritten ==
    ASSUME HeapsAreFit, HeapsAreFit', NEW S, NEW S2, S \subseteq S2, Layout(heap, S), Objects \subseteq S, ObjectsFit(S),
           NEW a \in Objects, InMain(a), NEW D \in SUBSET SlotsOf(a), Rewritten(a, D),
           \A p \in 0 .. heap.top - 1 : p \notin {Pos(a, d) : d \in D} => heap'.cell[p] = heap.cell[p],
           RefsStay(a, D), refs'.top >= refs.top,
           Grown(chars, chars'), Grown(longs, longs'), Grown(bytes, bytes'), NewFits(a, D, S2)
    PROVE  ObjectsFit(S2)' /\ HeadersKept(heap, heap', S)
<1> DEFINE P == {Pos(a, d) : d \in D}
<1>1. HeapFits(heap) /\ heap.top \in Nat /\ \A b \in Objects : ObjectFits(b, S)
    BY DEF HeapsAreFit, HeapFits, ObjectsFit
<1>2. Inside(heap, S, P)
    <2> SUFFICES ASSUME NEW d \in D
                 PROVE  \E b \in S : \E x \in 1 .. Extent(heap, b) - 1 :
                            Pos(a, d) = b + x /\ heap.cell[b] \notin SideArrays /\ (heap.cell[b] \in Arrays => x >= 2)
        BY DEF Inside
    <2> DEFINE x == Place(stored[a].type, d)
    <2>1. Pos(a, d) = a + x /\ x \in 1 .. Extent(heap, a) - 1 /\ (heap.cell[a] \in Arrays => x >= 2)
        BY <1>1, PosIs
    <2>2. heap.cell[a] \notin SideArrays
        BY <1>1 DEF InMain, ObjectFits
    <2> QED  BY <2>1, <2>2
<1>3. HeadersKept(heap, heap', S)
    BY <1>1, <1>2, HeadersStay
<1>4. ASSUME NEW b \in Objects
      PROVE  /\ heap'.cell[b] = heap.cell[b]
             /\ heap.cell[b] \in Arrays => heap'.cell[b + 1] = heap.cell[b + 1]
             /\ heap.cell[b] \in SideArrays => heap'.cell[b + 2] = heap.cell[b + 2]
             /\ \A i \in SlotsOf(b) : InMain(b) /\ Pos(b, i) \notin P => heap'.cell[Pos(b, i)] = heap.cell[Pos(b, i)]
    <2> HIDE DEF P
    <2>1. \A p \in 0 .. heap.top - 1 : p \notin P => heap'.cell[p] = heap.cell[p]
        BY DEF P
    <2> QED  BY <1>1, <1>2, <2>1, MainKept
<1>5. ASSUME NEW b \in Objects, NEW i \in SlotsOf(b) PROVE (b = a /\ i \in D) \/ Same(b, i)
    <2> SUFFICES ASSUME ~(b = a /\ i \in D) PROVE Same(b, i)
        OBVIOUS
    <2>1. stored'[b].slots[i] = stored[b].slots[i]
        BY DEF Rewritten
    <2>2. ASSUME InMain(b) PROVE Pos(b, i) \notin P
        <3> SUFFICES ASSUME NEW d \in D, Pos(b, i) = Pos(a, d) PROVE FALSE
            OBVIOUS
        <3>1. d \in SlotsOf(a)
            OBVIOUS
        <3>2. a = b /\ d = i
            BY <1>1, <2>2, <3>1, PosApart
        <3> QED  BY <3>2
    <2>3. InMain(b) => heap'.cell[Pos(b, i)] = heap.cell[Pos(b, i)]
        BY <1>4, <2>2
    <2> QED  BY <2>1, <2>3 DEF Same, RefsStay
<1>6. KeptBut(a, D)
    <2>1. Objects \subseteq Objects' /\ Objects' \subseteq Objects \cup {a}
        BY DEF Rewritten
    <2>2. ASSUME NEW b \in Objects
          PROVE  /\ stored'[b] = [type |-> stored[b].type, slots |-> stored'[b].slots]
                 /\ DOMAIN stored'[b].slots = DOMAIN stored[b].slots
        BY DEF Rewritten
    <2> QED  BY <1>4, <1>5, <2>1, <2>2 DEF KeptBut
<1>7. a \notin Objects' \ Objects
    OBVIOUS
<1>8. ObjectsFit(S2)'
    BY <1>6, <1>7, ObjectsKept
<1> QED  BY <1>3, <1>8


\* The whole invariant holds again when slots D of an object were written and the lists left alone.
LEMMA SlotsFitAgain ==
    ASSUME NEW N, Fits(N), HeapsAreFit', NEW S, S = Objects \cup N,
           NEW a \in Objects, InMain(a), NEW D \in SUBSET SlotsOf(a), Rewritten(a, D), heap'.top = heap.top,
           \A p \in 0 .. heap.top - 1 : p \notin {Pos(a, d) : d \in D} => heap'.cell[p] = heap.cell[p],
           RefsStay(a, D), refs'.top >= refs.top,
           Grown(chars, chars'), Grown(longs, longs'), Grown(bytes, bytes'), NewFits(a, D, S), list' = list
    PROVE  Fits(N)'
<1>1. /\ HeapsAreFit /\ Layout(heap, S) /\ Objects \cap N = {} /\ ObjectsFit(S) /\ NodesFit(heap, N, S) /\ HandlesFit(N, S)
    BY DEF Fits
<1>2. ObjectsFit(S)' /\ HeadersKept(heap, heap', S)
    BY <1>1, SlotsWritten
<1>3. Layout(heap', S)
    BY <1>1, <1>2, LayoutKept
<1>4. NodesFit(heap', N, S)
    <2> SUFFICES ASSUME NEW n \in N
                 PROVE  /\ heap'.cell[n] = heap.cell[n]
                        /\ heap.cell[n] = NEIntList => heap'.cell[n + 2] = heap.cell[n + 2]
        BY <1>1 DEF NodesFit
    <2>1. heap'.cell[n] = heap.cell[n]
        BY <1>2 DEF HeadersKept
    <2>2. ASSUME heap.cell[n] = NEIntList PROVE heap'.cell[n + 2] = heap.cell[n + 2]
        <3>1. Extent(heap, n) = 3
            BY <2>2, TypesAre DEF Extent, SizeOf
        <3>2. n \in Nat /\ heap.top \in Nat /\ n + 3 <= heap.top
            BY <1>1, <3>1 DEF Layout, HeapsAreFit, HeapFits
        <3>3. ASSUME NEW d \in D PROVE n + 2 # Pos(a, d)
            <4> DEFINE x == Place(stored[a].type, d)
            <4>1. Pos(a, d) = a + x /\ x \in 1 .. Extent(heap, a) - 1
                BY <1>1, PosIs DEF ObjectsFit
            <4>2. x \in 0 .. Extent(heap, a) - 1 /\ 2 \in 0 .. Extent(heap, n) - 1 /\ n # a
                BY <1>1, <3>1, <4>1
            <4> QED  BY <1>1, <4>1, <4>2, Interior
        <3> QED  BY <3>2, <3>3
    <2> QED  BY <2>1, <2>2
<1>5. Objects' = Objects
    BY DEF Rewritten
<1>6. HandlesFit(N, S)'
    BY <1>1 DEF HandlesFit
<1> QED  BY <1>1, <1>2, <1>3, <1>4, <1>5, <1>6 DEF Fits

\* The same for one slot that gets value v of kind k.  A reference to a string is not that of another
\* slot, and a 64-bit value has a new cell.
LEMMA SlotFitsAgain ==
    ASSUME NEW N, Fits(N), HeapsAreFit',
           NEW a \in Objects, InMain(a), NEW i \in SlotsOf(a), NEW k, NEW v, Wrote(a, i, k, v), heap'.top = heap.top,
           \A p \in 0 .. heap.top - 1 : p # Pos(a, i) => heap'.cell[p] = heap.cell[p],
           RefsStay(a, {i}), refs'.top >= refs.top,
           Grown(chars, chars'), Grown(longs, longs'), Grown(bytes, bytes'), list' = list,
           ValueFits(stored[a].type, i, Value(k, v), Objects \cup N),
           CellFits(refs', chars', longs', Value(k, v), heap'.cell[Pos(a, i)]),
           k = "string" => \A b \in Objects : \A j \in SlotsOf(b) :
               IsSet(b, j, "string") /\ ~(b = a /\ j = i) => heap.cell[Pos(b, j)] # heap'.cell[Pos(a, i)],
           k = "long" => heap'.cell[Pos(a, i)] \in Nat /\ heap'.cell[Pos(a, i)] >= longs.top
    PROVE  Fits(N)'
<1>0. PICK S, c : S = Objects \cup N /\ c = heap'.cell[Pos(a, i)]
    OBVIOUS
<1>1. HeapsAreFit /\ Layout(heap, S) /\ ObjectsFit(S) /\ \A b \in Objects : ObjectFits(b, S)
    BY <1>0 DEF Fits, ObjectsFit
<1>2. Rewritten(a, {i}) /\ stored'[a].slots[i] = Value(k, v)
    BY WroteIs
<1>3. stored'[a] = [type |-> stored[a].type, slots |-> stored'[a].slots]
    BY <1>2 DEF Rewritten
<1>4. stored'[a].type = stored[a].type
    BY <1>3
<1>5. InMain(a)' /\ Pos(a, i)' = Pos(a, i) /\ stored'[a].slots[i].kind = k
    BY <1>2, <1>4 DEF InMain, Pos, Value
<1>6. SlotFits(a, i, S)'
    BY <1>0, <1>2, <1>4, <1>5 DEF SlotFits
<1>7. ASSUME k = "long", NEW b \in Objects, stored[b].type = LongArray PROVE OutsideArray(c, b)
    <2>1. heap.cell[b + 2] \in Nat /\ heap.cell[b + 2] + heap.cell[b + 1] <= longs.top
        BY <1>1, <1>7 DEF ObjectFits, SideFits
    <2>2. heap.cell[b + 1] \in Nat
        BY <1>0, <1>1, <1>7 DEF ObjectFits, Layout, Arrays
    <2>3. longs.top \in Nat
        BY <1>1 DEF HeapsAreFit, HeapFits
    <2> QED  BY <1>0, <1>7, <2>1, <2>2, <2>3 DEF OutsideArray
<1>8. NewFits(a, {i}, S)
    BY <1>0, <1>5, <1>6, <1>7 DEF NewFits, IsSet
<1>9. \A p \in 0 .. heap.top - 1 : p \notin {Pos(a, d) : d \in {i}} => heap'.cell[p] = heap.cell[p]
    OBVIOUS
<1> QED  BY <1>0, <1>2, <1>8, <1>9, SlotsFitAgain

-----------------------------------------------------------------------------
(* What a feature takes *)

\* A feature of an object is a slot of it.
LEMMA FeatureIsSlot ==
    ASSUME NEW S, Layout(heap, S), HeapsAreFit, Objects \subseteq S, ObjectsFit(S),
           NEW a \in Objects, NEW f, HasFeature(a, f)
    PROVE  /\ InMain(a) /\ f \in SlotsOf(a) /\ heap.cell[a] = stored[a].type /\ stored[a].type \in Types \ Arrays
           /\ Pos(a, f) = a + FeatureOffset(TypeOf(heap, a), f)
           /\ Pos(a, f) \in 1 .. heap.top - 1 /\ f \in Features
           /\ KindsIn(stored[a].type, f) = IF IsString(f) THEN {"string"}
                                           ELSE IF Subsumes(IntList, RangeOf[f]) THEN {"fs"}
                                           ELSE {"number", "boolean", "long", "fs"}
<1>1. ObjectFits(a, S) /\ a \in S
    BY DEF ObjectsFit
<1>2. heap.cell[a] = stored[a].type /\ stored[a].type \in Types
    BY <1>1, TypesAre DEF ObjectFits
<1>3. PICK i \in DOMAIN FeaturesOf[stored[a].type] : FeaturesOf[stored[a].type][i] = f
    BY <1>2 DEF HasFeature, TypeOf
<1>4. stored[a].type \notin Arrays
    <2> SUFFICES ASSUME stored[a].type \in Arrays PROVE FALSE
        OBVIOUS
    <2>1. FeaturesOf[stored[a].type] = << >>
        BY TypesAssumption
    <2> QED  BY <1>3, <2>1
<1>5. InMain(a) /\ f \in SlotsOf(a)
    BY <1>3, <1>4, TypesAre DEF InMain, SlotsOf, SlotsIn
<1>6. Pos(a, f) = a + FeatureOffset(TypeOf(heap, a), f)
    BY <1>2, <1>4 DEF Pos, Place, TypeOf
<1> DEFINE x == Place(stored[a].type, f)
<1>7. Pos(a, f) = a + x /\ x \in 1 .. Extent(heap, a) - 1
    BY <1>1, <1>5, PosIs
<1>8. a \in Nat \ {0} /\ Extent(heap, a) \in Nat /\ a + Extent(heap, a) <= heap.top
    BY <1>1, SizeIs DEF Layout, Extent
<1>9. f \in Features
    <2>1. FeaturesOf[stored[a].type] \in Seq(Features)
        BY <1>2, TypesAssumption
    <2> QED  BY <1>3, <2>1
<1>10. heap.top \in Nat
    BY DEF HeapsAreFit, HeapFits
<1> HIDE DEF x
<1> QED  BY <1>2, <1>4, <1>5, <1>6, <1>7, <1>8, <1>9, <1>10 DEF KindsIn


\* A feature that takes a number can hold any kind but a string, ...
LEMMA TakesNumbers ==
    ASSUME NEW a, NEW f \in Features, NEW t \in {Integer, Boolean, Long}, Takes(a, f, t)
    PROVE  ~IsString(f) /\ ~Subsumes(IntList, RangeOf[f])
<1>1. t # FSArray /\ t \in Primitives /\ t \in Types /\ t # String /\ t # IntList
    BY TypesAre DEF FSArray, Integer, Boolean, Long, Primitives, String, IntList
<1>2. RangeOf[f] \in Supertypes[t]
    BY <1>1 DEF Takes, Subsumes
<1>3. Supertypes[RangeOf[f]] \subseteq {Top, t}
    BY <1>1, <1>2, TypesAssumption
<1>4. Top # String /\ Top # IntList
    BY DEF Top, String, IntList
<1> QED  BY <1>1, <1>3, <1>4 DEF IsString, Subsumes

\* ... and one that takes a structure is not of strings.
LEMMA TakesStructures ==
    ASSUME NEW a, NEW f \in Features, NEW t \in Creatable \cup Arrays \cup {EIntList, NEIntList}, Takes(a, f, t)
    PROVE  ~IsString(f)
<1>1. t \in Types /\ ~Subsumes(String, t)
    <2>1. CASE t \in Creatable
        BY <2>1 DEF Creatable
    <2>2. CASE t \in Arrays \cup {EIntList, NEIntList}
        <3>1. t \in Types
            BY <2>2, TypesAre
        <3>2. ~Subsumes(String, t)
            BY <2>2, TypesAssumption
        <3> QED  BY <3>1, <3>2
    <2> QED  BY <2>1, <2>2
<1>2. RangeOf[f] \in Types
    BY TypesAssumption
<1>3. CASE t # FSArray
    <2>1. RangeOf[f] \in Supertypes[t]
        BY <1>3 DEF Takes, Subsumes
    <2>2. Supertypes[RangeOf[f]] \subseteq Supertypes[t]
        BY <1>1, <2>1, TypesAssumption
    <2> QED  BY <1>1, <2>2 DEF IsString, Subsumes
<1>4. CASE t = FSArray
    <2> SUFFICES ASSUME IsString(f) PROVE FALSE
        OBVIOUS
    <2>1. FSArray \in Supertypes[RangeOf[f]] /\ String \in Supertypes[RangeOf[f]]
        BY <1>4 DEF Takes, Subsumes, IsString
    <2>2. Subsumes(String, FSArray) \/ Subsumes(FSArray, String)
        BY <1>2, <2>1, TypesAssumption
    <2>3. Supertypes[String] = {Top, String} /\ FSArray \notin {Top, String}
        BY TypesAssumption DEF Primitives, String, Top, FSArray
    <2> QED  BY <1>1, <1>4, <2>2, <2>3 DEF Subsumes
<1> QED  BY <1>3, <1>4

-----------------------------------------------------------------------------
(* Features are set *)

\* The side heaps are as they were.
LEMMA SideUnchanged ==
    ASSUME HeapsAreFit, HeapFits(heap'), UNCHANGED side
    PROVE  /\ HeapsAreFit'
           /\ Grown(refs, refs') /\ refs'.top >= refs.top
           /\ Grown(chars, chars') /\ Grown(longs, longs') /\ Grown(bytes, bytes')
<1>1. refs' = refs /\ chars' = chars /\ longs' = longs /\ bytes' = bytes
    BY DEF side
<1>2. \A h \in {refs, chars, longs, bytes} : h.top \in Nat
    BY DEF HeapsAreFit, HeapFits
<1>3. Grown(refs, refs) /\ Grown(chars, chars) /\ Grown(longs, longs) /\ Grown(bytes, bytes)
    BY <1>2 DEF Grown
<1>4. HeapsAreFit'
    BY <1>1 DEF HeapsAreFit
<1>5. refs.top >= refs.top
    BY <1>2
<1> QED  BY <1>1, <1>3, <1>4, <1>5

\* One cell of an object is written.
LEMMA SlotCellFits ==
    ASSUME NEW N, Fits(N), NEW a \in Objects, InMain(a), NEW i \in SlotsOf(a),
           NEW c, heap' = SetCells(heap, Pos(a, i), <<c>>)
    PROVE  /\ HeapFits(heap') /\ heap'.top = heap.top /\ heap'.cell[Pos(a, i)] = c
           /\ \A p \in 0 .. heap.top - 1 : p # Pos(a, i) => heap'.cell[p] = heap.cell[p]
<1>0. PICK S : S = Objects \cup N
    OBVIOUS
<1>1. HeapFits(heap) /\ Layout(heap, S) /\ Objects \subseteq S /\ ObjectsFit(S)
    BY <1>0 DEF Fits, HeapsAreFit
<1>2. a \in S /\ ObjectFits(a, S)
    BY <1>1 DEF ObjectsFit
<1> DEFINE x == Place(stored[a].type, i)
<1>3. Pos(a, i) = a + x /\ x \in 1 .. Extent(heap, a) - 1
    BY <1>1, <1>2, PosIs
<1>4. a \in Nat \ {0} /\ Extent(heap, a) \in Nat /\ a + Extent(heap, a) <= heap.top /\ heap.top \in Nat
    BY <1>1, <1>2, SizeIs DEF Layout, Extent, HeapFits
<1> HIDE DEF x
<1>5. Pos(a, i) \in Nat /\ Pos(a, i) < heap.top
    BY <1>3, <1>4
<1> QED  BY <1>1, <1>5, SetCellFits

\* A number, a boolean or an address is written.
LEMMA CellWritten ==
    ASSUME NEW N, Fits(N), NEW S, S = Objects \cup N,
           NEW a \in Objects, InMain(a), NEW i \in SlotsOf(a), NEW k \in {"number", "boolean", "fs"}, NEW v,
           NEW c, heap' = SetCells(heap, Pos(a, i), <<c>>), Wrote(a, i, k, v), UNCHANGED side, list' = list,
           k \in KindsIn(stored[a].type, i), k = "fs" => v \in S,
           IF k = "boolean" THEN v \in {0, 1} /\ c = BooleanCell(v) ELSE c = v
    PROVE  Fits(N)'
<1>1. HeapsAreFit /\ HeapFits(heap) /\ Layout(heap, S) /\ Objects \subseteq S /\ ObjectsFit(S)
    BY DEF Fits, HeapsAreFit
<1>2. /\ HeapFits(heap') /\ heap'.top = heap.top /\ heap'.cell[Pos(a, i)] = c
      /\ \A p \in 0 .. heap.top - 1 : p # Pos(a, i) => heap'.cell[p] = heap.cell[p]
    BY SlotCellFits
<1>3. /\ HeapsAreFit' /\ Grown(refs, refs') /\ refs'.top >= refs.top
      /\ Grown(chars, chars') /\ Grown(longs, longs') /\ Grown(bytes, bytes')
    BY <1>1, <1>2, SideUnchanged
<1>4. RefsStay(a, {i})
    BY <1>1, <1>3, RefsGrown
<1>5. Value(k, v).kind = k /\ Value(k, v).v = v
    BY DEF Value
<1>6. ValueFits(stored[a].type, i, Value(k, v), Objects \cup N)
    BY <1>5 DEF ValueFits
<1>7. CellFits(refs', chars', longs', Value(k, v), heap'.cell[Pos(a, i)])
    BY <1>2, <1>5 DEF CellFits
<1>8. k = "string" => \A b \in Objects : \A j \in SlotsOf(b) :
            IsSet(b, j, "string") /\ ~(b = a /\ j = i) => heap.cell[Pos(b, j)] # heap'.cell[Pos(a, i)]
    OBVIOUS
<1>9. k = "long" => heap'.cell[Pos(a, i)] \in Nat /\ heap'.cell[Pos(a, i)] >= longs.top
    OBVIOUS
<1> QED  BY <1>2, <1>3, <1>4, <1>6, <1>7, <1>8, <1>9, SlotFitsAgain

\* What the actions on features start from
LEMMA FitsIs ==
    ASSUME NEW N, Fits(N)
    PROVE  \E S : /\ S = Objects \cup N
                  /\ HeapsAreFit /\ Layout(heap, S) /\ Objects \subseteq S /\ Objects \cap N = {}
                  /\ ObjectsFit(S) /\ NodesFit(heap, N, S) /\ HandlesFit(N, S)
                  /\ \A h \in {heap, refs, chars, longs, bytes} : HeapFits(h)
                  /\ \A a \in Objects : ObjectFits(a, S)
    BY DEF Fits, ObjectsFit, HeapsAreFit

\* Writing a number into a feature keeps everything in its place, ...
LEMMA SetNumberFits ==
    ASSUME NEW N, Fits(N), NEW a, NEW f, NEW v, SetNumber(a, f, v)
    PROVE  Fits(N)'
<1>1. PICK S : S = Objects \cup N /\ HeapsAreFit /\ Layout(heap, S) /\ Objects \subseteq S /\ ObjectsFit(S)
    BY FitsIs
<1>2. a \in Objects /\ Takes(a, f, Integer) /\ HasFeature(a, f)
    BY DEF SetNumber, Takes
<1>3. /\ InMain(a) /\ f \in SlotsOf(a) /\ f \in Features
      /\ Pos(a, f) = a + FeatureOffset(TypeOf(heap, a), f)
      /\ "number" \in KindsIn(stored[a].type, f)
    BY <1>1, <1>2, FeatureIsSlot, TakesNumbers
<1>4. heap' = SetCells(heap, Pos(a, f), <<v>>) /\ Wrote(a, f, "number", v) /\ UNCHANGED side /\ list' = list
    BY <1>3 DEF SetNumber, Quiet
<1> QED  BY <1>1, <1>2, <1>3, <1>4, CellWritten

\* ... so does a boolean, ...
LEMMA SetBooleanFits ==
    ASSUME NEW N, Fits(N), NEW a, NEW f, NEW v \in {0, 1}, SetBoolean(a, f, v)
    PROVE  Fits(N)'
<1>1. PICK S : S = Objects \cup N /\ HeapsAreFit /\ Layout(heap, S) /\ Objects \subseteq S /\ ObjectsFit(S)
    BY FitsIs
<1>2. a \in Objects /\ Takes(a, f, Boolean) /\ HasFeature(a, f)
    BY DEF SetBoolean, Takes
<1>3. /\ InMain(a) /\ f \in SlotsOf(a) /\ f \in Features
      /\ Pos(a, f) = a + FeatureOffset(TypeOf(heap, a), f)
      /\ "boolean" \in KindsIn(stored[a].type, f)
    BY <1>1, <1>2, FeatureIsSlot, TakesNumbers
<1>4. heap' = SetCells(heap, Pos(a, f), <<BooleanCell(v)>>) /\ Wrote(a, f, "boolean", v) /\ UNCHANGED side /\ list' = list
    BY <1>3 DEF SetBoolean, Quiet
<1> QED  BY <1>1, <1>2, <1>3, <1>4, CellWritten

\* Whatever is in the heap is an object, an array or a node.
LEMMA TypesInHeap ==
    ASSUME NEW S, Objects \subseteq S, ObjectsFit(S), NEW N, S = Objects \cup N, NodesFit(heap, N, S), NEW b \in S
    PROVE  TypeOf(heap, b) \in Creatable \cup Arrays \cup {EIntList, NEIntList}
    BY DEF ObjectsFit, ObjectFits, NodesFit, TypeOf

\* ... the address of a structure, ...
LEMMA SetAddressFits ==
    ASSUME NEW N, Fits(N), NEW a \in Objects, NEW f, NEW b \in Objects \cup N, Takes(a, f, TypeOf(heap, b)),
           heap' = SetCells(heap, a + FeatureOffset(TypeOf(heap, a), f), <<b>>), Wrote(a, f, "fs", b),
           UNCHANGED side, list' = list
    PROVE  Fits(N)'
<1>1. PICK S : /\ S = Objects \cup N /\ HeapsAreFit /\ Layout(heap, S) /\ Objects \subseteq S /\ ObjectsFit(S)
               /\ NodesFit(heap, N, S)
    BY FitsIs
<1>2. HasFeature(a, f)
    BY DEF Takes
<1>3. /\ InMain(a) /\ f \in SlotsOf(a) /\ f \in Features
      /\ Pos(a, f) = a + FeatureOffset(TypeOf(heap, a), f)
      /\ KindsIn(stored[a].type, f) = IF IsString(f) THEN {"string"}
                                      ELSE IF Subsumes(IntList, RangeOf[f]) THEN {"fs"}
                                      ELSE {"number", "boolean", "long", "fs"}
    BY <1>1, <1>2, FeatureIsSlot
<1>4. ~IsString(f)
    BY <1>1, <1>3, TypesInHeap, TakesStructures
<1>5. "fs" \in KindsIn(stored[a].type, f)
    BY <1>3, <1>4
<1>6. heap' = SetCells(heap, Pos(a, f), <<b>>)
    BY <1>3
<1> QED  BY <1>1, <1>3, <1>5, <1>6, CellWritten

\* ... that of an object the caller has, ...
LEMMA SetFSFits ==
    ASSUME NEW N, Fits(N), NEW a, NEW f, NEW b, SetFS(a, f, b)
    PROVE  Fits(N)'
    BY SetAddressFits DEF SetFS, Quiet

\* ... and that of a list.
LEMMA SetListFits ==
    ASSUME NEW N, Fits(N), NEW a, NEW f, NEW h \in Handles, SetList(a, f, h)
    PROVE  Fits(N)'
<1>1. list[h] \in Objects \cup N
    BY DEF Fits, HandlesFit, SetList, Valid
<1>2. PICK b : b = list[h]
    OBVIOUS
<1> QED  BY <1>1, <1>2, SetAddressFits DEF SetList, Quiet


-----------------------------------------------------------------------------
(* Strings *)

\* In C the string s begins at p, with the end mark behind it.
TextFits(C, p, s) ==
    /\ s \in Seq(Int \ {0})
    /\ p \in Nat
    /\ p + Len(s) < C.top
    /\ \A j \in 1 .. Len(s) : C.cell[p + j - 1] = s[j]
    /\ C.cell[p + Len(s)] = 0

\* What is measured up to the end mark is the length of the string.
LEMMA LengthIs ==
    ASSUME NEW C, C.top \in Nat, NEW p, NEW s, TextFits(C, p, s)
    PROVE  Length(C, p) = Len(s) /\ Len(s) \in Nat
<1> DEFINE L == Len(s)
           Ends0(n) == C.cell[p + n] = 0 /\ \A m \in 0 .. n - 1 : C.cell[p + m] # 0
<1>1. L \in Nat /\ p \in Nat /\ p + L < C.top /\ C.cell[p + L] = 0
    BY DEF TextFits
<1>2. ASSUME NEW m \in 0 .. L - 1 PROVE C.cell[p + m] # 0
    <2>1. m + 1 \in 1 .. L /\ p + (m + 1) - 1 = p + m
        BY <1>1
    <2>2. C.cell[p + (m + 1) - 1] = s[m + 1]
        BY <2>1 DEF TextFits
    <2>3. s[m + 1] \in Int \ {0}
        BY <2>1 DEF TextFits
    <2> QED  BY <2>1, <2>2, <2>3
<1> HIDE DEF L
<1>3. L \in 0 .. C.top - p /\ Ends0(L)
    BY <1>1, <1>2
<1>4. ASSUME NEW n \in 0 .. C.top - p, Ends0(n) PROVE n = L
    BY <1>1, <1>2, <1>3, <1>4
<1>5. Length(C, p) = CHOOSE n \in 0 .. C.top - p : Ends0(n)
    BY DEF Length
<1> HIDE DEF Ends0
<1>6. Length(C, p) = L
    BY <1>3, <1>4, <1>5
<1> QED  BY <1>1, <1>6 DEF L

\* Adding a string puts it behind the others.
LEMMA AddStringFits ==
    ASSUME HeapFits(chars), NEW s \in Seq(Int \ {0})
    PROVE  HeapFits(AddString(s)) /\ Grown(chars, AddString(s)) /\ TextFits(AddString(s), chars.top, s)
<1>1. Len(s) \in Nat /\ chars.top \in Nat \ {0}
    BY DEF HeapFits
<1> DEFINE T == chars.top
           L == Len(s)
           h == IncreaseHeap(chars, L + 1)
<1>2. /\ HeapFits(h) /\ h.top = T + (L + 1)
      /\ \A i \in 0 .. T - 1 : h.cell[i] = chars.cell[i]
      /\ \A i \in T .. T + (L + 1) - 1 : h.cell[i] = 0
    <2>1. L + 1 \in Nat
        BY <1>1
    <2> HIDE DEF L
    <2> QED  BY <2>1, IncreaseFits
<1>3. AddString(s) = SetCells(h, T, s)
    BY DEF AddString
<1> HIDE DEF h, T, L
<1> DEFINE g == SetCells(h, T, s)
<1>4. /\ HeapFits(g) /\ g.top = h.top
      /\ \A i \in 0 .. h.top - 1 : g.cell[i] = IF i \in T .. T + L - 1 THEN s[i - T + 1] ELSE h.cell[i]
    <2>0. L = Len(s)
        BY DEF L
    <2>1. T \in Nat /\ Len(s) \in Nat /\ T + Len(s) <= h.top
        BY <1>1, <1>2, <2>0 DEF T
    <2>2. HeapFits(h)
        BY <1>2
    <2>3. /\ HeapFits(SetCells(h, T, s)) /\ SetCells(h, T, s).top = h.top
          /\ \A i \in 0 .. h.top - 1 :
               SetCells(h, T, s).cell[i] = IF i \in T .. T + Len(s) - 1 THEN s[i - T + 1] ELSE h.cell[i]
        BY <2>1, <2>2, SetCellsFits
    <2> QED  BY <2>0, <2>3
<1> HIDE DEF g
<1>5. T \in Nat \ {0} /\ L \in Nat
    BY <1>1 DEF T, L
<1>6. g.top >= T /\ \A i \in 0 .. T - 1 : g.cell[i] = chars.cell[i]
    BY <1>2, <1>4, <1>5
<1>7. ASSUME NEW j \in 1 .. L PROVE g.cell[T + j - 1] = s[j]
    <2>1. PICK q : q = T + j - 1
        OBVIOUS
    <2>2. q \in 0 .. h.top - 1 /\ q \in T .. T + L - 1 /\ q - T + 1 = j
        BY <1>2, <1>5, <2>1
    <2>3. g.cell[q] = s[q - T + 1]
        BY <1>4, <2>2
    <2> QED  BY <2>1, <2>2, <2>3
<1>8. g.cell[T + L] = 0
    BY <1>2, <1>4, <1>5
<1>9. T + L < g.top
    BY <1>2, <1>4, <1>5
<1>10. Grown(chars, g)
    BY <1>6 DEF Grown, T
<1>11. TextFits(g, T, s)
    BY <1>5, <1>7, <1>8, <1>9 DEF TextFits, L
<1> QED  BY <1>3, <1>4, <1>10, <1>11 DEF g, T

\* A reference below the top is none from the top on.
LEMMA RefsInOrder ==
    ASSUME NEW top \in Nat, NEW q \in Nat \ {0}, RefCell(q) + 1 < top, NEW r \in Nat \ {0}, RefCell(r) >= top
    PROVE  q # r
    BY DEF RefCell

\* Pointing reference r of R at a string
LEMMA SetStringRefFits ==
    ASSUME NEW R, HeapFits(R), NEW C, C.top \in Nat, NEW p, NEW s, TextFits(C, p, s),
           NEW r \in Nat \ {0}, RefCell(r) + 1 < R.top
    PROVE  /\ HeapFits(SetStringRef(R, C, r, p)) /\ SetStringRef(R, C, r, p).top = R.top
           /\ \A i \in 0 .. R.top - 1 : i \notin {RefCell(r), RefCell(r) + 1} =>
                  SetStringRef(R, C, r, p).cell[i] = R.cell[i]
           /\ StringFits(SetStringRef(R, C, r, p), C, r, s)
<1> DEFINE q == RefCell(r)
           w == <<p, Len(s)>>
           g == SetCells(R, q, w)
<1>1. SetStringRef(R, C, r, p) = g
    BY LengthIs DEF SetStringRef
<1>2. q \in Nat /\ q + 1 < R.top /\ R.top \in Nat
    BY DEF RefCell, HeapFits
<1>3. Len(w) = 2 /\ w[1] = p /\ w[2] = Len(s)
    OBVIOUS
<1> HIDE DEF q, w
<1>4. /\ HeapFits(g) /\ g.top = R.top
      /\ \A i \in 0 .. R.top - 1 : g.cell[i] = IF i \in q .. q + Len(w) - 1 THEN w[i - q + 1] ELSE R.cell[i]
    <2>1. Len(w) \in Nat /\ q + Len(w) <= R.top
        BY <1>2, <1>3
    <2> QED  BY <1>2, <2>1, SetCellsFits
<1> HIDE DEF g
<1>5. g.cell[q] = p
    BY <1>2, <1>3, <1>4
<1>6. g.cell[q + 1] = Len(s)
    BY <1>2, <1>3, <1>4
<1>7. \A i \in 0 .. R.top - 1 : i \notin {q, q + 1} => g.cell[i] = R.cell[i]
    BY <1>2, <1>3, <1>4
<1>8. StringFits(g, C, r, s)
    BY <1>2, <1>4, <1>5, <1>6 DEF StringFits, TextFits, q
<1> QED  BY <1>1, <1>4, <1>7, <1>8 DEF q

\* A new reference to a string
LEMMA WithRefFits ==
    ASSUME NEW R, HeapFits(R), RefCell(NextRef(R)) = R.top, NEW C, C.top \in Nat, NEW p, NEW s, TextFits(C, p, s)
    PROVE  /\ HeapFits(WithRef(R, C, p)) /\ Grown(R, WithRef(R, C, p))
           /\ RefCell(NextRef(WithRef(R, C, p))) = WithRef(R, C, p).top
           /\ StringFits(WithRef(R, C, p), C, NextRef(R), s)
<1>1. R.top \in Nat \ {0}
    BY DEF HeapFits
<1> DEFINE r == NextRef(R)
           h == IncreaseHeap(R, 2)
           g == SetStringRef(h, C, r, p)
<1>2. HeapFits(h) /\ h.top = R.top + 2 /\ \A i \in 0 .. R.top - 1 : h.cell[i] = R.cell[i]
    BY IncreaseFits
<1>3. r \in Nat \ {0} /\ RefCell(r) = R.top
    BY <1>1 DEF NextRef
<1>4. WithRef(R, C, p) = g
    BY DEF WithRef
<1> HIDE DEF r, h
<1>5. RefCell(r) + 1 < h.top
    BY <1>1, <1>2, <1>3
<1>6. /\ HeapFits(g) /\ g.top = h.top /\ StringFits(g, C, r, s)
      /\ \A i \in 0 .. h.top - 1 : i \notin {RefCell(r), RefCell(r) + 1} => g.cell[i] = h.cell[i]
    BY <1>2, <1>3, <1>5, SetStringRefFits
<1> HIDE DEF g
<1>7. Grown(R, g)
    BY <1>1, <1>2, <1>3, <1>6 DEF Grown
<1>8. RefCell(NextRef(g)) = g.top
    <2>1. g.top = R.top + 2
        BY <1>2, <1>6
    <2>2. 1 + 2 * ((1 + ((R.top - 1) \div 2)) - 1) = R.top
        BY DEF RefCell, NextRef
    <2>3. 1 + 2 * ((1 + ((R.top + 2 - 1) \div 2)) - 1) = R.top + 2
        BY <1>1, <2>2
    <2> QED  BY <1>1, <2>1, <2>3 DEF RefCell, NextRef
<1> QED  BY <1>4, <1>6, <1>7, <1>8 DEF r


-----------------------------------------------------------------------------
(* Values in side heaps *)

\* A 64-bit value gets new cells and the slot their place.
LEMMA SetLongFits ==
    ASSUME NEW N, Fits(N), NEW a, NEW f, NEW v, SetLong(a, f, v)
    PROVE  Fits(N)'
<1>1. PICK S : S = Objects \cup N /\ HeapsAreFit /\ Layout(heap, S) /\ Objects \subseteq S /\ ObjectsFit(S)
    BY FitsIs
<1>2. a \in Objects /\ Takes(a, f, Long) /\ HasFeature(a, f)
    BY DEF SetLong, Takes
<1>3. /\ InMain(a) /\ f \in SlotsOf(a) /\ f \in Features
      /\ Pos(a, f) = a + FeatureOffset(TypeOf(heap, a), f)
      /\ "long" \in KindsIn(stored[a].type, f)
    BY <1>1, <1>2, FeatureIsSlot, TakesNumbers
<1>4. /\ heap' = SetCells(heap, Pos(a, f), <<longs.top>>) /\ Wrote(a, f, "long", v)
      /\ longs' = SetCells(IncreaseHeap(longs, 8), longs.top, <<v>>)
      /\ refs' = refs /\ chars' = chars /\ bytes' = bytes /\ list' = list
    BY <1>3 DEF SetLong, Quiet, LongCells
<1>5. PICK c : c = longs.top
    OBVIOUS
<1>6. /\ HeapFits(heap') /\ heap'.top = heap.top /\ heap'.cell[Pos(a, f)] = c
      /\ \A p \in 0 .. heap.top - 1 : p # Pos(a, f) => heap'.cell[p] = heap.cell[p]
    BY <1>2, <1>3, <1>4, <1>5, SlotCellFits
<1>7. HeapFits(longs) /\ c \in Nat \ {0}
    BY <1>1, <1>5 DEF HeapsAreFit, HeapFits
<1> DEFINE h == IncreaseHeap(longs, 8)
<1>8. HeapFits(h) /\ h.top = c + 8 /\ \A p \in 0 .. c - 1 : h.cell[p] = longs.cell[p]
    <2>1. PICK n \in Nat : n = 8
        OBVIOUS
    <2>2. PICK g : g = IncreaseHeap(longs, n)
        OBVIOUS
    <2>3. HeapFits(g) /\ g.top = longs.top + n /\ \A p \in 0 .. longs.top - 1 : g.cell[p] = longs.cell[p]
        BY <1>7, <2>2, IncreaseFits
    <2> QED  BY <1>5, <2>1, <2>2, <2>3
<1>9. longs' = SetCells(h, c, <<v>>)
    BY <1>4, <1>5
<1> HIDE DEF h
<1>10. /\ HeapFits(longs') /\ longs'.top = c + 8 /\ longs'.cell[c] = v
       /\ \A p \in 0 .. c - 1 : longs'.cell[p] = longs.cell[p]
    <2>1. c < h.top
        BY <1>7, <1>8
    <2>2. /\ HeapFits(longs') /\ longs'.top = h.top /\ longs'.cell[c] = v
          /\ \A p \in 0 .. h.top - 1 : p # c => longs'.cell[p] = h.cell[p]
        BY <1>7, <1>8, <1>9, <2>1, SetCellFits
    <2> QED  BY <1>7, <1>8, <2>2
<1>11. HeapsAreFit'
    BY <1>1, <1>4, <1>6, <1>10 DEF HeapsAreFit
<1>12. Grown(refs, refs') /\ refs'.top >= refs.top /\ Grown(chars, chars') /\ Grown(bytes, bytes') /\ Grown(longs, longs')
    <2>1. refs.top \in Nat /\ chars.top \in Nat /\ bytes.top \in Nat
        BY <1>1 DEF HeapsAreFit, HeapFits
    <2>2. Grown(longs, longs')
        BY <1>5, <1>7, <1>10 DEF Grown
    <2> QED  BY <1>4, <2>1, <2>2 DEF Grown
<1>13. RefsStay(a, {f})
    BY <1>1, <1>12, RefsGrown
<1>14. Value("long", v).kind = "long" /\ Value("long", v).v = v
    BY DEF Value
<1>15. ValueFits(stored[a].type, f, Value("long", v), Objects \cup N)
    BY <1>3, <1>14 DEF ValueFits
<1>16. CellFits(refs', chars', longs', Value("long", v), heap'.cell[Pos(a, f)])
    BY <1>6, <1>7, <1>10, <1>14 DEF CellFits
<1>17. "long" = "string" => \A b \in Objects : \A j \in SlotsOf(b) :
           IsSet(b, j, "string") /\ ~(b = a /\ j = f) => heap.cell[Pos(b, j)] # heap'.cell[Pos(a, f)]
    OBVIOUS
<1>18. "long" = "long" => heap'.cell[Pos(a, f)] \in Nat /\ heap'.cell[Pos(a, f)] >= longs.top
    BY <1>5, <1>6, <1>7
<1> QED  BY <1>2, <1>3, <1>4, <1>6, <1>11, <1>12, <1>13, <1>15, <1>16, <1>17, <1>18, SlotFitsAgain

\* References to strings are below the top of the table.
LEMMA RefsBelow ==
    ASSUME NEW N, Fits(N), NEW b \in Objects, NEW j \in SlotsOf(b), IsSet(b, j, "string")
    PROVE  /\ StringFits(refs, chars, heap.cell[Pos(b, j)], stored[b].slots[j].v)
           /\ heap.cell[Pos(b, j)] \in Nat \ {0} /\ RefCell(heap.cell[Pos(b, j)]) + 1 < refs.top
<1>1. ObjectFits(b, Objects \cup N)
    BY DEF Fits, ObjectsFit
<1>2. SlotFits(b, j, Objects \cup N)
    BY <1>1 DEF ObjectFits
<1>3. StringFits(refs, chars, heap.cell[Pos(b, j)], stored[b].slots[j].v)
    BY <1>2 DEF SlotFits, IsSet, CellFits
<1> QED  BY <1>3 DEF StringFits

\* A slot gets a reference of its own to a string.
LEMMA StringWritten ==
    ASSUME NEW N, Fits(N), NEW a \in Objects, InMain(a), NEW i \in SlotsOf(a), NEW s \in Seq(Int \ {0}),
           chars' = AddString(s), refs' = WithRef(refs, chars', chars.top),
           heap' = SetCells(heap, Pos(a, i), <<NextRef(refs)>>), longs' = longs, bytes' = bytes,
           Wrote(a, i, "string", s), list' = list, "string" \in KindsIn(stored[a].type, i)
    PROVE  Fits(N)'
<1>1. PICK S : S = Objects \cup N /\ HeapsAreFit /\ Layout(heap, S) /\ Objects \subseteq S /\ ObjectsFit(S)
    BY FitsIs
<1>2. /\ HeapFits(refs) /\ HeapFits(chars) /\ HeapFits(longs) /\ HeapFits(bytes) /\ RefCell(NextRef(refs)) = refs.top
      /\ refs.top \in Nat /\ longs.top \in Nat /\ bytes.top \in Nat
    BY <1>1 DEF HeapsAreFit, HeapFits
<1>3. PICK c : c = NextRef(refs)
    OBVIOUS
<1>4. HeapFits(chars') /\ Grown(chars, chars') /\ TextFits(chars', chars.top, s)
    BY <1>2, AddStringFits
<1>5. chars'.top \in Nat
    BY <1>4 DEF HeapFits
<1>6. HeapFits(refs') /\ Grown(refs, refs') /\ RefCell(NextRef(refs')) = refs'.top /\ StringFits(refs', chars', c, s)
    BY <1>2, <1>3, <1>4, <1>5, WithRefFits
<1>7. /\ HeapFits(heap') /\ heap'.top = heap.top /\ heap'.cell[Pos(a, i)] = c
      /\ \A p \in 0 .. heap.top - 1 : p # Pos(a, i) => heap'.cell[p] = heap.cell[p]
    BY <1>3, SlotCellFits
<1>8. HeapsAreFit'
    BY <1>2, <1>4, <1>6, <1>7 DEF HeapsAreFit
<1>9. refs'.top >= refs.top /\ Grown(longs, longs') /\ Grown(bytes, bytes')
    BY <1>2, <1>6 DEF Grown
<1>10. RefsStay(a, {i})
    BY <1>1, <1>6, RefsGrown
<1>11. Value("string", s).kind = "string" /\ Value("string", s).v = s
    BY DEF Value
<1>12. ValueFits(stored[a].type, i, Value("string", s), Objects \cup N)
    BY <1>11 DEF ValueFits
<1>13. CellFits(refs', chars', longs', Value("string", s), heap'.cell[Pos(a, i)])
    BY <1>6, <1>7, <1>11 DEF CellFits
<1>14. ASSUME NEW b \in Objects, NEW j \in SlotsOf(b), IsSet(b, j, "string")
       PROVE  heap.cell[Pos(b, j)] # c
    <2>1. heap.cell[Pos(b, j)] \in Nat \ {0} /\ RefCell(heap.cell[Pos(b, j)]) + 1 < refs.top
        BY <1>14, RefsBelow
    <2>2. RefCell(c) = refs.top
        BY <1>2, <1>3
    <2> QED  BY <1>2, <2>1, <2>2 DEF RefCell
<1>15. "string" = "string" => \A b \in Objects : \A j \in SlotsOf(b) :
           IsSet(b, j, "string") /\ ~(b = a /\ j = i) => heap.cell[Pos(b, j)] # heap'.cell[Pos(a, i)]
    BY <1>7, <1>14
<1>16. "string" = "long" => heap'.cell[Pos(a, i)] \in Nat /\ heap'.cell[Pos(a, i)] >= longs.top
    OBVIOUS
<1> QED  BY <1>4, <1>7, <1>8, <1>9, <1>10, <1>12, <1>13, <1>15, <1>16, SlotFitsAgain

\* The slot that has a reference keeps it: it is pointed at the new string.
LEMMA StringReplaced ==
    ASSUME NEW N, Fits(N), NEW a \in Objects, NEW i \in SlotsOf(a), IsSet(a, i, "string"), NEW s \in Seq(Int \ {0}),
           chars' = AddString(s), refs' = SetStringRef(refs, chars', heap.cell[Pos(a, i)], chars.top),
           heap' = heap, longs' = longs, bytes' = bytes,
           Wrote(a, i, "string", s), list' = list, "string" \in KindsIn(stored[a].type, i)
    PROVE  Fits(N)'
<1>1. PICK S : S = Objects \cup N /\ HeapsAreFit /\ Layout(heap, S) /\ Objects \subseteq S /\ ObjectsFit(S)
    BY FitsIs
<1>2. /\ HeapFits(refs) /\ HeapFits(chars) /\ HeapFits(longs) /\ HeapFits(bytes) /\ HeapFits(heap)
      /\ RefCell(NextRef(refs)) = refs.top
      /\ refs.top \in Nat /\ longs.top \in Nat /\ bytes.top \in Nat
    BY <1>1 DEF HeapsAreFit, HeapFits
<1>3. PICK c : c = heap.cell[Pos(a, i)]
    OBVIOUS
<1>4. HeapFits(chars') /\ Grown(chars, chars') /\ TextFits(chars', chars.top, s)
    BY <1>2, AddStringFits
<1>5. chars'.top \in Nat
    BY <1>4 DEF HeapFits
<1>6. c \in Nat \ {0} /\ RefCell(c) + 1 < refs.top
    BY <1>3, RefsBelow
<1>7. /\ HeapFits(refs') /\ refs'.top = refs.top /\ StringFits(refs', chars', c, s)
      /\ \A p \in 0 .. refs.top - 1 : p \notin {RefCell(c), RefCell(c) + 1} => refs'.cell[p] = refs.cell[p]
    BY <1>2, <1>3, <1>4, <1>5, <1>6, SetStringRefFits
<1>8. HeapsAreFit'
    <2>1. RefCell(NextRef(refs')) = refs'.top
        BY <1>2, <1>7 DEF NextRef
    <2> QED  BY <1>2, <1>4, <1>7, <2>1 DEF HeapsAreFit
<1>9. refs'.top >= refs.top /\ Grown(longs, longs') /\ Grown(bytes, bytes')
    BY <1>2, <1>7 DEF Grown
<1>10. ASSUME NEW b \in Objects, NEW j \in SlotsOf(b), IsSet(b, j, "string"), ~(b = a /\ j = i)
       PROVE  heap.cell[Pos(b, j)] # c
    BY <1>1, <1>3, <1>10 DEF ObjectsFit, RefsApart
<1>11. RefsStay(a, {i})
    <2> SUFFICES ASSUME NEW b \in Objects, NEW j \in SlotsOf(b), IsSet(b, j, "string"), ~(b = a /\ j = i)
                 PROVE  LET q == RefCell(heap.cell[Pos(b, j)])
                        IN refs'.cell[q] = refs.cell[q] /\ refs'.cell[q + 1] = refs.cell[q + 1]
        BY DEF RefsStay
    <2>1. PICK r : r = heap.cell[Pos(b, j)]
        OBVIOUS
    <2>2. r \in Nat \ {0} /\ RefCell(r) + 1 < refs.top /\ r # c
        BY <1>10, <2>1, RefsBelow
    <2>3. RefCell(r) \notin {RefCell(c), RefCell(c) + 1} /\ RefCell(r) + 1 \notin {RefCell(c), RefCell(c) + 1}
        BY <1>6, <2>2 DEF RefCell
    <2>4. RefCell(r) \in 0 .. refs.top - 1 /\ RefCell(r) + 1 \in 0 .. refs.top - 1
        BY <1>2, <2>2 DEF RefCell
    <2> QED  BY <1>7, <2>1, <2>3, <2>4
<1>12. Value("string", s).kind = "string" /\ Value("string", s).v = s
    BY DEF Value
<1>13. ValueFits(stored[a].type, i, Value("string", s), Objects \cup N)
    BY <1>12 DEF ValueFits
<1>14. CellFits(refs', chars', longs', Value("string", s), heap'.cell[Pos(a, i)])
    BY <1>3, <1>7, <1>12 DEF CellFits
<1>15. "string" = "string" => \A b \in Objects : \A j \in SlotsOf(b) :
           IsSet(b, j, "string") /\ ~(b = a /\ j = i) => heap.cell[Pos(b, j)] # heap'.cell[Pos(a, i)]
    BY <1>3, <1>10
<1>16. "string" = "long" => heap'.cell[Pos(a, i)] \in Nat /\ heap'.cell[Pos(a, i)] >= longs.top
    OBVIOUS
<1>17. heap'.top = heap.top /\ InMain(a) /\ \A p \in 0 .. heap.top - 1 : p # Pos(a, i) => heap'.cell[p] = heap.cell[p]
    BY DEF IsSet
<1> QED  BY <1>4, <1>8, <1>9, <1>11, <1>13, <1>14, <1>15, <1>16, <1>17, SlotFitsAgain

\* Writing a string: the feature gets a reference, or its reference another string.
LEMMA SetStringFits ==
    ASSUME NEW N, Fits(N), NEW a, NEW f, NEW s \in Strings, SetString(a, f, s)
    PROVE  Fits(N)'
<1>1. PICK S : S = Objects \cup N /\ HeapsAreFit /\ Layout(heap, S) /\ Objects \subseteq S /\ ObjectsFit(S)
    BY FitsIs
<1>2. a \in Objects /\ HasFeature(a, f) /\ IsString(f) /\ s \in Seq(Int \ {0})
    BY ValuesAssumption DEF SetString
<1>3. /\ InMain(a) /\ f \in SlotsOf(a)
      /\ Pos(a, f) = a + FeatureOffset(TypeOf(heap, a), f)
      /\ KindsIn(stored[a].type, f) = {"string"}
    BY <1>1, <1>2, FeatureIsSlot
<1>4. Cell(a, f) = heap.cell[Pos(a, f)]
    BY <1>3 DEF Cell, TypeOf
<1>5. chars' = AddString(s) /\ longs' = longs /\ bytes' = bytes /\ Wrote(a, f, "string", s) /\ list' = list
    BY DEF SetString, Quiet
<1>6. CASE Cell(a, f) = 0
    <2>1. refs' = WithRef(refs, chars', chars.top) /\ heap' = SetCells(heap, Pos(a, f), <<NextRef(refs)>>)
        BY <1>3, <1>6 DEF SetString
    <2> QED  BY <1>2, <1>3, <1>5, <2>1, StringWritten
<1>7. CASE Cell(a, f) # 0
    <2>1. refs' = SetStringRef(refs, chars', heap.cell[Pos(a, f)], chars.top) /\ heap' = heap
        BY <1>4, <1>7 DEF SetString
    <2>2. SlotFits(a, f, S)
        BY <1>1, <1>2, <1>3 DEF ObjectsFit, ObjectFits
    <2>3. IsSet(a, f, "string")
        BY <1>3, <1>4, <1>7, <2>2 DEF SlotFits, ValueFits, CellFits, IsSet
    <2> QED  BY <1>2, <1>3, <1>5, <2>1, <2>3, StringReplaced
<1> QED  BY <1>6, <1>7


-----------------------------------------------------------------------------
(* New objects *)

\* Structures end below the top.
LEMMA TopIsFree ==
    ASSUME NEW h, NEW S, Layout(h, S), h.top \in Nat
    PROVE  h.top \notin S /\ \A a \in S : a < h.top
<1>1. ASSUME NEW a \in S PROVE a < h.top
    <2>1. a \in Nat \ {0} /\ Extent(h, a) \in Nat \ {0} /\ a + Extent(h, a) <= h.top
        BY SizeIs DEF Layout, Extent
    <2> QED  BY <2>1
<1> QED  BY <1>1

\* What lies in the heap stays when it grows.
LEMMA GrownKeeps ==
    ASSUME NEW h, NEW g, NEW S, Layout(h, S), h.top \in Nat, Grown(h, g)
    PROVE  /\ HeadersKept(h, g, S)
           /\ \A a \in S : h.cell[a] = NEIntList => g.cell[a + 1] = h.cell[a + 1] /\ g.cell[a + 2] = h.cell[a + 2]
<1>1. Inside(h, S, {}) /\ \A p \in 0 .. h.top - 1 : p \notin {} => g.cell[p] = h.cell[p]
    BY DEF Inside, Grown
<1>2. HeadersKept(h, g, S)
    BY <1>1, HeadersStay
<1>3. ASSUME NEW a \in S, h.cell[a] = NEIntList PROVE g.cell[a + 1] = h.cell[a + 1] /\ g.cell[a + 2] = h.cell[a + 2]
    <2>1. Extent(h, a) = 3
        BY <1>3, TypesAre DEF Extent, SizeOf
    <2>2. a \in Nat /\ a + 3 <= h.top
        BY <2>1 DEF Layout
    <2>3. a + 1 \in 0 .. h.top - 1 /\ a + 2 \in 0 .. h.top - 1
        BY <2>2
    <2> QED  BY <2>3 DEF Grown
<1> QED  BY <1>2, <1>3

\* A new object at the top of the main heap that fits leaves the others where they are.
LEMMA ObjectMade ==
    ASSUME NEW N, Fits(N), HeapsAreFit', NEW k, k = heap.top, NEW o, stored' = With(stored, k, o), list' = list,
           Grown(heap, heap'), Grown(refs, refs'), Grown(chars, chars'), Grown(longs, longs'), Grown(bytes, bytes'),
           heap'.cell[k] \in Types, heap'.cell[k] \in Arrays => heap'.cell[k + 1] \in Nat,
           heap'.top = k + Extent(heap', k),
           NEW S2, S2 = Objects \cup N \cup {k},
           ObjectFits(k, S2)', SideFresh(k), NEW D, D = SlotsOf(k)', NewFits(k, D, S2)
    PROVE  Fits(N)'
<1>0. PICK S : S = Objects \cup N /\ S2 = S \cup {k}
    OBVIOUS
<1>1. /\ HeapsAreFit /\ HeapFits(heap) /\ Layout(heap, S) /\ Objects \subseteq S /\ Objects \cap N = {}
      /\ ObjectsFit(S) /\ NodesFit(heap, N, S) /\ HandlesFit(N, S)
      /\ \A b \in Objects : ObjectFits(b, S)
    BY <1>0 DEF Fits, HeapsAreFit, ObjectsFit
<1>2. heap.top \in Nat \ {0} /\ refs.top \in Nat /\ refs'.top \in Nat
    BY <1>1 DEF HeapsAreFit, HeapFits
<1>3. k \notin S
    BY <1>1, <1>2, TopIsFree
<1>4. /\ HeadersKept(heap, heap', S)
      /\ \A a \in S : heap.cell[a] = NEIntList => heap'.cell[a + 2] = heap.cell[a + 2]
    BY <1>1, <1>2, GrownKeeps
<1>5. Layout(heap', S2)
    BY <1>0, <1>1, <1>2, <1>4, LayoutGrown
<1>6. Objects' = Objects \cup {k} /\ \A b \in Objects : stored'[b] = stored[b]
    BY <1>0, <1>3 DEF Objects, With
<1>7. S2 = Objects' \cup N
    BY <1>0, <1>6
<1>8. KeptBut(k, D)
    <2>1. RefsStay(k, {})
        BY <1>1, RefsGrown
    <2>2. ASSUME NEW b \in Objects
          PROVE  /\ heap'.cell[b] = heap.cell[b]
                 /\ heap.cell[b] \in Arrays => heap'.cell[b + 1] = heap.cell[b + 1]
                 /\ heap.cell[b] \in SideArrays => heap'.cell[b + 2] = heap.cell[b + 2]
                 /\ \A i \in SlotsOf(b) : InMain(b) => heap'.cell[Pos(b, i)] = heap.cell[Pos(b, i)]
        <3>1. Inside(heap, S, {}) /\ \A p \in 0 .. heap.top - 1 : p \notin {} => heap'.cell[p] = heap.cell[p]
            BY DEF Inside, Grown
        <3> QED  BY <1>1, <3>1, MainKept
    <2>3. ASSUME NEW b \in Objects, NEW i \in SlotsOf(b) PROVE Same(b, i)
        BY <1>6, <2>1, <2>2 DEF Same, RefsStay
    <2>4. ASSUME NEW b \in Objects
          PROVE  /\ stored'[b] = [type |-> stored[b].type, slots |-> stored'[b].slots]
                 /\ DOMAIN stored'[b].slots = DOMAIN stored[b].slots
        BY <1>1, <1>6 DEF ObjectFits
    <2>5. Objects \subseteq Objects' /\ Objects' \subseteq Objects \cup {k} /\ refs'.top >= refs.top
        BY <1>6 DEF Grown
    <2> QED  BY <2>2, <2>3, <2>4, <2>5 DEF KeptBut
<1>9. ObjectsFit(S2)'
    <2>1. S \subseteq S2 /\ k \notin Objects
        BY <1>0, <1>1, <1>3
    <2>2. k \in Objects' \ Objects => D = SlotsOf(k)' /\ ObjectFits(k, S2)' /\ SideFresh(k)
        OBVIOUS
    <2> QED  BY <1>1, <1>8, <2>1, <2>2, ObjectsKept
<1>10. NodesFit(heap', N, S2)
    BY <1>0, <1>1, <1>4 DEF NodesFit, HeadersKept
<1>11. HandlesFit(N, S2)'
    BY <1>0, <1>1 DEF HandlesFit
<1>12. Objects' \cap N = {}
    BY <1>0, <1>1, <1>3, <1>6
<1> QED  BY <1>5, <1>7, <1>9, <1>10, <1>11, <1>12 DEF Fits

\* A new structure has its type and, on a heap that fits, nothing in its features.
LEMMA CreateFSFits ==
    ASSUME NEW h, HeapFits(h), NEW t \in Types
    PROVE  LET g == CreateFS(h, t)
               n == Len(FeaturesOf[t])
           IN /\ HeapFits(g) /\ Grown(h, g) /\ n \in Nat /\ g.top = h.top + (n + 1)
              /\ g.cell[h.top] = t
              /\ \A x \in 1 .. n : g.cell[h.top + x] = 0
<1> DEFINE n == Len(FeaturesOf[t])
           m == IncreaseHeap(h, n + 1)
           g == SetCells(m, h.top, <<t>>)
<1>1. n \in Nat /\ h.top \in Nat \ {0}
    BY TypesAre DEF HeapFits
<1> HIDE DEF n
<1>2. /\ HeapFits(m) /\ m.top = h.top + (n + 1)
      /\ \A i \in 0 .. h.top - 1 : m.cell[i] = h.cell[i]
      /\ \A i \in h.top .. h.top + (n + 1) - 1 : m.cell[i] = 0
    <2>1. n + 1 \in Nat
        BY <1>1
    <2> QED  BY <2>1, IncreaseFits
<1> HIDE DEF m
<1>3. /\ HeapFits(g) /\ g.top = m.top /\ g.cell[h.top] = t
      /\ \A i \in 0 .. m.top - 1 : i # h.top => g.cell[i] = m.cell[i]
    <2>1. h.top \in Nat /\ h.top < m.top
        BY <1>1, <1>2
    <2> QED  BY <1>2, <2>1, SetCellFits
<1> HIDE DEF g
<1>4. Grown(h, g)
    BY <1>1, <1>2, <1>3 DEF Grown
<1>5. ASSUME NEW x \in 1 .. n PROVE g.cell[h.top + x] = 0
    BY <1>1, <1>2, <1>3
<1>6. g.top = h.top + (n + 1)
    BY <1>2, <1>3
<1> QED  BY <1>1, <1>3, <1>4, <1>5, <1>6 DEF CreateFS, n, m, g


\* A new object of which nothing was written yet
LEMMA BlankMade ==
    ASSUME NEW N, Fits(N), HeapsAreFit', NEW k, k = heap.top, list' = list,
           NEW t \in Creatable \cup Arrays, NEW slots, stored' = With(stored, k, [type |-> t, slots |-> slots]),
           Grown(heap, heap'), Grown(refs, refs'), Grown(chars, chars'), Grown(longs, longs'), Grown(bytes, bytes'),
           heap'.cell[k] = t, t \in Arrays => heap'.cell[k + 1] \in Nat,
           heap'.top = k + Extent(heap', k),
           DOMAIN slots = SlotsIn(t, heap'.cell[k + 1]), \A i \in DOMAIN slots : slots[i] = Unset,
           t \notin SideArrays => \A i \in DOMAIN slots : heap'.cell[k + Place(t, i)] = 0,
           \A i \in 0 .. heap'.cell[k + 1] - 1 :
               /\ t = BooleanArray => bytes'.cell[bytes.top + i] = 0
               /\ t = LongArray => longs'.cell[longs.top + i] = 0,
           t = BooleanArray => heap'.cell[k + 2] = bytes.top /\ bytes'.top = bytes.top + heap'.cell[k + 1],
           t = LongArray => heap'.cell[k + 2] = longs.top /\ longs'.top = longs.top + heap'.cell[k + 1]
    PROVE  Fits(N)'
<1>0. PICK S2, D : S2 = Objects \cup N \cup {k} /\ D = DOMAIN slots
    OBVIOUS
<1>1. bytes.top \in Nat \ {0} /\ longs.top \in Nat \ {0}
    BY DEF Fits, HeapsAreFit, HeapFits
<1>2. stored'[k] = [type |-> t, slots |-> slots]
    BY DEF With
<1>3. stored'[k].type = t /\ stored'[k].slots = slots
    BY <1>2
<1>4. SlotsOf(k)' = DOMAIN slots
    BY <1>3 DEF SlotsOf
<1>5. t \in Types
    BY TypesAre
<1>6. \A i \in SlotsOf(k)' : stored'[k].slots[i].kind = "unset"
    BY <1>3, <1>4 DEF Unset
<1>7. ASSUME NEW i \in SlotsOf(k)' PROVE SlotFits(k, i, S2)'
    <2>1. InMain(k)' => heap'.cell[Pos(k, i)'] = 0
        BY <1>3, <1>4 DEF InMain, Pos
    <2> QED  BY <1>6, <2>1 DEF SlotFits, ValueFits, CellFits
<1>8. ASSUME NEW g, NEW T, T \in Nat \ {0}, t \in SideArrays, heap'.cell[k + 2] = T, g.top = T + heap'.cell[k + 1],
             \A i \in 0 .. heap'.cell[k + 1] - 1 : g.cell[T + i] = 0
      PROVE  /\ heap'.cell[k + 2] \in Nat \ {0} /\ heap'.cell[k + 2] + heap'.cell[k + 1] <= g.top
             /\ \A i \in 0 .. heap'.cell[k + 1] - 1 :
                  g.cell[heap'.cell[k + 2] + i] = IF stored'[k].slots[i].kind = "unset" THEN 0
                                                  ELSE stored'[k].slots[i].v
    <2>1. t \in Arrays /\ heap'.cell[k + 1] \in Nat
        BY <1>8, TypesAre
    <2>2. SlotsOf(k)' = 0 .. heap'.cell[k + 1] - 1
        BY <1>4, <2>1 DEF SlotsIn
    <2> QED  BY <1>6, <1>8, <2>1, <2>2
<1>9. (t = BooleanArray => SideFits(k, bytes)') /\ (t = LongArray => SideFits(k, longs)')
    <2>1. BooleanArray \in SideArrays /\ LongArray \in SideArrays
        BY DEF SideArrays
    <2>2. ASSUME t = BooleanArray PROVE SideFits(k, bytes)'
        BY <1>1, <1>8, <2>1, <2>2 DEF SideFits
    <2>3. ASSUME t = LongArray PROVE SideFits(k, longs)'
        BY <1>1, <1>8, <2>1, <2>3 DEF SideFits
    <2> QED  BY <2>2, <2>3
<1>10. ObjectFits(k, S2)'
    BY <1>2, <1>3, <1>4, <1>7, <1>9 DEF ObjectFits
<1>11. SideFresh(k)
    BY <1>1, <1>3 DEF SideFresh
<1>12. D = SlotsOf(k)' /\ NewFits(k, D, S2)
    BY <1>0, <1>4, <1>6, <1>7 DEF NewFits, IsSet
<1>13. heap'.cell[k] \in Types /\ (heap'.cell[k] \in Arrays => heap'.cell[k + 1] \in Nat)
    BY <1>5
<1> QED  BY <1>0, <1>10, <1>11, <1>12, <1>13, ObjectMade

\* createFS(): the features of a new structure read as nothing.
LEMMA CreateFits ==
    ASSUME NEW N, Fits(N), NEW t, Create(t)
    PROVE  Fits(N)'
<1>1. /\ t \in Creatable /\ heap' = CreateFS(heap, t)
      /\ stored' = With(stored, heap.top, BlankObject(t)) /\ UNCHANGED side /\ list' = list
    BY DEF Create, Quiet
<1>2. t \in Types /\ t \notin Arrays
    BY <1>1, TypesAre
<1>3. HeapFits(heap) /\ HeapsAreFit
    BY DEF Fits, HeapsAreFit
<1>4. PICK k, n : k = heap.top /\ n = Len(FeaturesOf[t])
    OBVIOUS
<1>5. /\ HeapFits(heap') /\ Grown(heap, heap') /\ n \in Nat /\ heap'.top = k + (n + 1)
      /\ heap'.cell[k] = t /\ \A x \in 1 .. n : heap'.cell[k + x] = 0
    BY <1>1, <1>2, <1>3, <1>4, CreateFSFits
<1>6. /\ HeapsAreFit' /\ Grown(refs, refs')
      /\ Grown(chars, chars') /\ Grown(longs, longs') /\ Grown(bytes, bytes')
    BY <1>1, <1>3, <1>5, SideUnchanged
<1> DEFINE slots == BlankObject(t).slots
<1>7. BlankObject(t) = [type |-> t, slots |-> slots] /\ DOMAIN slots = {FeaturesOf[t][i] : i \in DOMAIN FeaturesOf[t]}
      /\ \A f \in DOMAIN slots : slots[f] = Unset
    BY DEF BlankObject
<1> HIDE DEF slots
<1>8. heap'.top = k + Extent(heap', k)
    BY <1>2, <1>4, <1>5, TypesAre DEF Extent, SizeOf
<1>9. DOMAIN slots = SlotsIn(t, heap'.cell[k + 1])
    BY <1>2, <1>7 DEF SlotsIn
<1>10. ASSUME NEW i \in DOMAIN slots PROVE heap'.cell[k + Place(t, i)] = 0
    <2>1. PICK x \in DOMAIN FeaturesOf[t] : i = FeaturesOf[t][x]
        BY <1>7
    <2>2. Place(t, i) = x /\ x \in 1 .. n
        BY <1>2, <1>4, <2>1, OffsetIs, TypesAre DEF Place
    <2> QED  BY <1>5, <2>2
<1>11. t # BooleanArray /\ t # LongArray
    BY <1>2 DEF Arrays
<1>12. t \in Creatable \cup Arrays /\ stored' = With(stored, k, [type |-> t, slots |-> slots])
    BY <1>1, <1>4, <1>7
<1> QED  BY <1>1, <1>2, <1>4, <1>5, <1>6, <1>7, <1>8, <1>9, <1>10, <1>11, <1>12, BlankMade


\* New cells that are set to w at once: the others among them are zero.
LEMMA BlockFits ==
    ASSUME NEW h, HeapFits(h), NEW m \in Nat, NEW w, Len(w) \in Nat, Len(w) <= m,
           NEW G, G = SetCells(IncreaseHeap(h, m), h.top, w)
    PROVE  /\ HeapFits(G) /\ Grown(h, G) /\ G.top = h.top + m
           /\ \A i \in 1 .. Len(w) : G.cell[h.top + (i - 1)] = w[i]
           /\ \A i \in Len(w) .. m - 1 : G.cell[h.top + i] = 0
<1> DEFINE a == IncreaseHeap(h, m)
           T == h.top
           g == SetCells(a, T, w)
<1>1. T \in Nat \ {0}
    BY DEF HeapFits
<1>2. /\ HeapFits(a) /\ a.top = T + m
      /\ \A i \in 0 .. T - 1 : a.cell[i] = h.cell[i]
      /\ \A i \in T .. T + m - 1 : a.cell[i] = 0
    BY IncreaseFits
<1> HIDE DEF a, T
<1>3. /\ HeapFits(g) /\ g.top = a.top
      /\ \A i \in 0 .. a.top - 1 : g.cell[i] = IF i \in T .. T + Len(w) - 1 THEN w[i - T + 1] ELSE a.cell[i]
    <2>1. T \in Nat /\ Len(w) \in Nat /\ T + Len(w) <= a.top
        BY <1>1, <1>2
    <2> QED  BY <1>2, <2>1, SetCellsFits
<1> HIDE DEF g
<1>4. ASSUME NEW i \in 1 .. Len(w) PROVE g.cell[T + (i - 1)] = w[i]
    <2>1. PICK q : q = T + (i - 1)
        OBVIOUS
    <2>2. q \in 0 .. a.top - 1 /\ q \in T .. T + Len(w) - 1 /\ q - T + 1 = i
        BY <1>1, <1>2, <2>1
    <2>3. g.cell[q] = w[q - T + 1]
        BY <1>3, <2>2
    <2> QED  BY <2>1, <2>2, <2>3
<1>5. ASSUME NEW i \in Len(w) .. m - 1 PROVE g.cell[T + i] = 0
    BY <1>1, <1>2, <1>3
<1>6. g.top = T + m /\ g.top >= T /\ \A i \in 0 .. T - 1 : g.cell[i] = h.cell[i]
    BY <1>1, <1>2, <1>3
<1>7. Grown(h, g)
    BY <1>6 DEF Grown, T
<1> QED  BY <1>3, <1>4, <1>5, <1>6, <1>7 DEF g, a, T

\* An array in the main heap: its type, its size and cells that are zero
LEMMA MainArrayFits ==
    ASSUME NEW N, Fits(N), NEW t \in Arrays \ SideArrays, NEW n \in Nat,
           heap' = SetCells(IncreaseHeap(heap, 2 + n), heap.top, <<t, n>>),
           stored' = With(stored, heap.top, BlankArray(t, n)), UNCHANGED side, list' = list
    PROVE  Fits(N)'
<1>1. HeapFits(heap) /\ HeapsAreFit /\ heap.top \in Nat
    BY DEF Fits, HeapsAreFit, HeapFits
<1>2. PICK k : k = heap.top
    OBVIOUS
<1> DEFINE w == <<t, n>>
<1>3. Len(w) = 2 /\ w[1] = t /\ w[2] = n
    OBVIOUS
<1>4. heap' = SetCells(IncreaseHeap(heap, 2 + n), heap.top, w)
    OBVIOUS
<1> HIDE DEF w
<1>5. /\ HeapFits(heap') /\ Grown(heap, heap') /\ heap'.top = k + (2 + n)
      /\ \A i \in 1 .. 2 : heap'.cell[k + (i - 1)] = w[i]
      /\ \A i \in 2 .. 2 + n - 1 : heap'.cell[k + i] = 0
    <2>1. PICK m, G : m = 2 + n /\ G = SetCells(IncreaseHeap(heap, m), heap.top, w)
        OBVIOUS
    <2>2. Len(w) \in Nat /\ Len(w) <= m /\ m \in Nat /\ G = SetCells(IncreaseHeap(heap, m), heap.top, w)
        BY <1>3, <2>1
    <2>3. /\ HeapFits(G) /\ Grown(heap, G) /\ G.top = heap.top + m
          /\ \A i \in 1 .. Len(w) : G.cell[heap.top + (i - 1)] = w[i]
          /\ \A i \in Len(w) .. m - 1 : G.cell[heap.top + i] = 0
        BY <1>1, <2>2, BlockFits
    <2> QED  BY <1>2, <1>3, <1>4, <2>1, <2>3
<1>6. heap'.cell[k] = t /\ heap'.cell[k + 1] = n
    <2>1. heap'.cell[k + (1 - 1)] = w[1] /\ heap'.cell[k + (2 - 1)] = w[2]
        BY <1>5
    <2> QED  BY <1>1, <1>2, <1>3, <2>1
<1>7. /\ HeapsAreFit' /\ Grown(refs, refs')
      /\ Grown(chars, chars') /\ Grown(longs, longs') /\ Grown(bytes, bytes')
    BY <1>1, <1>5, SideUnchanged
<1> DEFINE slots == BlankArray(t, n).slots
<1>8. BlankArray(t, n) = [type |-> t, slots |-> slots] /\ DOMAIN slots = 0 .. n - 1
      /\ \A i \in DOMAIN slots : slots[i] = Unset
    BY DEF BlankArray
<1> HIDE DEF slots
<1>9. heap'.top = k + Extent(heap', k)
    BY <1>5, <1>6 DEF Extent, SizeOf
<1>10. DOMAIN slots = SlotsIn(t, heap'.cell[k + 1])
    BY <1>6, <1>8 DEF SlotsIn
<1>11. ASSUME NEW i \in DOMAIN slots PROVE heap'.cell[k + Place(t, i)] = 0
    BY <1>5, <1>8 DEF Place
<1>12. t # BooleanArray /\ t # LongArray
    BY DEF SideArrays
<1>13. t \in Creatable \cup Arrays /\ stored' = With(stored, k, [type |-> t, slots |-> slots])
    BY <1>2, <1>8
<1> QED  BY <1>2, <1>5, <1>6, <1>7, <1>8, <1>9, <1>10, <1>11, <1>12, <1>13, BlankMade

\* An array with elements in side heap g: its type, its size and their place in g
LEMMA SideArrayIs ==
    ASSUME HeapFits(heap), NEW t \in SideArrays, NEW n \in Nat, NEW p, NEW k, k = heap.top,
           heap' = SetCells(IncreaseHeap(heap, 3), heap.top, <<t, n, p>>)
    PROVE  /\ HeapFits(heap') /\ Grown(heap, heap')
           /\ heap'.cell[k] = t /\ heap'.cell[k + 1] = n /\ heap'.cell[k + 2] = p
           /\ heap'.top = k + Extent(heap', k)
<1>1. heap.top \in Nat
    BY DEF HeapFits
<1> DEFINE w == <<t, n, p>>
<1>2. Len(w) = 3 /\ w[1] = t /\ w[2] = n /\ w[3] = p
    OBVIOUS
<1>3. heap' = SetCells(IncreaseHeap(heap, 3), heap.top, w)
    OBVIOUS
<1> HIDE DEF w
<1>4. /\ HeapFits(heap') /\ Grown(heap, heap') /\ heap'.top = k + 3
      /\ \A i \in 1 .. 3 : heap'.cell[k + (i - 1)] = w[i]
    <2>1. Len(w) \in Nat /\ Len(w) <= 3 /\ 3 \in Nat
        BY <1>2
    <2>2. PICK G : G = SetCells(IncreaseHeap(heap, 3), heap.top, w)
        OBVIOUS
    <2>3. /\ HeapFits(G) /\ Grown(heap, G) /\ G.top = heap.top + 3
          /\ \A i \in 1 .. Len(w) : G.cell[heap.top + (i - 1)] = w[i]
        BY <1>1, <2>1, <2>2, BlockFits
    <2> QED  BY <1>2, <1>3, <2>2, <2>3
<1>5. heap'.cell[k] = t /\ heap'.cell[k + 1] = n /\ heap'.cell[k + 2] = p
    <2>1. heap'.cell[k + (1 - 1)] = w[1] /\ heap'.cell[k + (2 - 1)] = w[2] /\ heap'.cell[k + (3 - 1)] = w[3]
        BY <1>4
    <2> QED  BY <1>1, <1>2, <2>1
<1>6. heap'.top = k + Extent(heap', k)
    BY <1>4, <1>5 DEF Extent, SizeOf
<1> QED  BY <1>4, <1>5, <1>6

\* Arrays are made with elements that read as nothing, whichever heap they are in.
LEMMA CreateArrayFits ==
    ASSUME NEW N, Fits(N), NEW t, NEW n \in Sizes, CreateArray(t, n)
    PROVE  Fits(N)'
<1>1. /\ t \in Arrays /\ n \in Nat /\ list' = list /\ refs' = refs /\ chars' = chars
      /\ stored' = With(stored, heap.top, BlankArray(t, n))
    BY ValuesAssumption DEF CreateArray, Quiet
<1>2. /\ HeapFits(heap) /\ HeapFits(longs) /\ HeapFits(bytes) /\ HeapFits(refs) /\ HeapFits(chars) /\ HeapsAreFit
      /\ RefCell(NextRef(refs)) = refs.top
      /\ heap.top \in Nat /\ longs.top \in Nat /\ bytes.top \in Nat /\ refs.top \in Nat /\ chars.top \in Nat
    BY DEF Fits, HeapsAreFit, HeapFits
<1>3. PICK k : k = heap.top
    OBVIOUS
<1> DEFINE slots == BlankArray(t, n).slots
<1>4. BlankArray(t, n) = [type |-> t, slots |-> slots] /\ DOMAIN slots = 0 .. n - 1
      /\ \A i \in DOMAIN slots : slots[i] = Unset
    BY DEF BlankArray
<1> HIDE DEF slots
<1>5. /\ t \in Creatable \cup Arrays /\ stored' = With(stored, k, [type |-> t, slots |-> slots])
      /\ DOMAIN slots = SlotsIn(t, n)
    BY <1>1, <1>3, <1>4 DEF SlotsIn
<1>6. LongArray # BooleanArray
    BY DEF LongArray, BooleanArray
<1>7. CASE t = LongArray
    <2>1. /\ longs' = IncreaseHeap(longs, n) /\ bytes' = bytes
          /\ heap' = SetCells(IncreaseHeap(heap, 3), heap.top, <<t, n, longs.top>>)
        BY <1>6, <1>7 DEF CreateArray
    <2> DEFINE g == IncreaseHeap(longs, n)
    <2>2. /\ HeapFits(g) /\ g.top = longs.top + n
          /\ \A i \in 0 .. longs.top - 1 : g.cell[i] = longs.cell[i]
          /\ \A i \in longs.top .. longs.top + n - 1 : g.cell[i] = 0
        <3>1. HeapFits(longs) /\ n \in Nat
            BY <1>1, <1>2
        <3> QED  BY <3>1, IncreaseFits
    <2>3. /\ HeapFits(longs') /\ longs'.top = longs.top + n
          /\ \A i \in 0 .. longs.top - 1 : longs'.cell[i] = longs.cell[i]
          /\ \A i \in longs.top .. longs.top + n - 1 : longs'.cell[i] = 0
        BY <2>2, <2>1
    <2> HIDE DEF g
    <2>4. t \in SideArrays
        BY <1>7 DEF SideArrays
    <2>5. /\ HeapFits(heap') /\ Grown(heap, heap')
          /\ heap'.cell[k] = t /\ heap'.cell[k + 1] = n /\ heap'.cell[k + 2] = longs.top
          /\ heap'.top = k + Extent(heap', k)
        BY <1>1, <1>2, <1>3, <2>1, <2>4, SideArrayIs
    <2>6. HeapsAreFit'
        BY <1>1, <1>2, <2>1, <2>3, <2>5 DEF HeapsAreFit
    <2>7. Grown(refs, refs') /\ Grown(chars, chars') /\ Grown(longs, longs') /\ Grown(bytes, bytes')
        BY <1>1, <1>2, <2>1, <2>3 DEF Grown
    <2>8. \A i \in 0 .. n - 1 : longs'.cell[longs.top + i] = 0
        BY <1>1, <1>2, <2>3
    <2> QED  BY <1>1, <1>3, <1>4, <1>5, <1>6, <1>7, <2>3, <2>4, <2>5, <2>6, <2>7, <2>8, BlankMade
<1>8. CASE t = BooleanArray
    <2>1. /\ bytes' = IncreaseHeap(bytes, n) /\ longs' = longs
          /\ heap' = SetCells(IncreaseHeap(heap, 3), heap.top, <<t, n, bytes.top>>)
        BY <1>6, <1>8 DEF CreateArray
    <2> DEFINE g == IncreaseHeap(bytes, n)
    <2>2. /\ HeapFits(g) /\ g.top = bytes.top + n
          /\ \A i \in 0 .. bytes.top - 1 : g.cell[i] = bytes.cell[i]
          /\ \A i \in bytes.top .. bytes.top + n - 1 : g.cell[i] = 0
        <3>1. HeapFits(bytes) /\ n \in Nat
            BY <1>1, <1>2
        <3> QED  BY <3>1, IncreaseFits
    <2>3. /\ HeapFits(bytes') /\ bytes'.top = bytes.top + n
          /\ \A i \in 0 .. bytes.top - 1 : bytes'.cell[i] = bytes.cell[i]
          /\ \A i \in bytes.top .. bytes.top + n - 1 : bytes'.cell[i] = 0
        BY <2>2, <2>1
    <2> HIDE DEF g
    <2>4. t \in SideArrays
        BY <1>8 DEF SideArrays
    <2>5. /\ HeapFits(heap') /\ Grown(heap, heap')
          /\ heap'.cell[k] = t /\ heap'.cell[k + 1] = n /\ heap'.cell[k + 2] = bytes.top
          /\ heap'.top = k + Extent(heap', k)
        BY <1>1, <1>2, <1>3, <2>1, <2>4, SideArrayIs
    <2>6. HeapsAreFit'
        BY <1>1, <1>2, <2>1, <2>3, <2>5 DEF HeapsAreFit
    <2>7. Grown(refs, refs') /\ Grown(chars, chars') /\ Grown(longs, longs') /\ Grown(bytes, bytes')
        BY <1>1, <1>2, <2>1, <2>3 DEF Grown
    <2>8. \A i \in 0 .. n - 1 : bytes'.cell[bytes.top + i] = 0
        BY <1>1, <1>2, <2>3
    <2> QED  BY <1>1, <1>3, <1>4, <1>5, <1>6, <1>8, <2>3, <2>4, <2>5, <2>6, <2>7, <2>8, BlankMade
<1>9. CASE t # LongArray /\ t # BooleanArray
    <2>1. /\ heap' = SetCells(IncreaseHeap(heap, 2 + n), heap.top, <<t, n>>) /\ UNCHANGED side
          /\ t \in Arrays \ SideArrays
        BY <1>1, <1>9 DEF CreateArray, side, SideArrays
    <2> QED  BY <1>1, <2>1, MainArrayFits
<1> QED  BY <1>7, <1>8, <1>9


-----------------------------------------------------------------------------
(* Elements of arrays are set *)

\* An array is what it was made for, and its elements are its slots.
LEMMA ArrayIs ==
    ASSUME NEW N, Fits(N), NEW a \in Objects, TypeOf(heap, a) \in Arrays
    PROVE  /\ stored[a].type = TypeOf(heap, a) /\ stored[a].type \in Arrays
           /\ ArraySize(a) \in Nat /\ ArraySize(a) = heap.cell[a + 1] /\ SlotsOf(a) = 0 .. ArraySize(a) - 1
           /\ ArrayOffset(a) \in Nat \ {0}
           /\ InMain(a) <=> TypeOf(heap, a) \notin SideArrays
           /\ InMain(a) => /\ ArrayOffset(a) = a + 2
                           /\ \A i \in SlotsOf(a) : Pos(a, i) = ArrayOffset(a) + i /\ KindsIn(stored[a].type, i) = {ElementKind(stored[a].type)}
           /\ ~InMain(a) => ArrayOffset(a) = heap.cell[a + 2]
           /\ TypeOf(heap, a) = BooleanArray => ArrayOffset(a) + ArraySize(a) <= bytes.top
           /\ TypeOf(heap, a) = LongArray => ArrayOffset(a) + ArraySize(a) <= longs.top
<1>1. PICK S : S = Objects \cup N /\ Layout(heap, S) /\ ObjectFits(a, S)
    BY DEF Fits, ObjectsFit
<1>2. stored[a].type = TypeOf(heap, a) /\ stored[a].type \in Arrays /\ a \in S
    BY <1>1 DEF ObjectFits, TypeOf
<1>3. a \in Nat \ {0} /\ heap.cell[a + 1] \in Nat
    BY <1>1, <1>2 DEF Layout, TypeOf
<1>4. SlotsOf(a) = 0 .. heap.cell[a + 1] - 1
    BY <1>2 DEF SlotsOf, SlotsIn
<1>5. InMain(a) <=> TypeOf(heap, a) \notin SideArrays
    BY <1>2 DEF InMain
<1>6. ArrayOffset(a) = IF TypeOf(heap, a) \in SideArrays THEN heap.cell[a + 2] ELSE a + 2
    BY DEF ArrayOffset, SideArrays
<1>7. ASSUME TypeOf(heap, a) \in SideArrays
      PROVE  /\ heap.cell[a + 2] \in Nat \ {0}
             /\ TypeOf(heap, a) = BooleanArray => heap.cell[a + 2] + heap.cell[a + 1] <= bytes.top
             /\ TypeOf(heap, a) = LongArray => heap.cell[a + 2] + heap.cell[a + 1] <= longs.top
    BY <1>1, <1>2, <1>7 DEF ObjectFits, SideFits, SideArrays
<1>8. BooleanArray \in SideArrays /\ LongArray \in SideArrays
    BY DEF SideArrays
<1>9. ASSUME NEW i \in SlotsOf(a) PROVE Pos(a, i) = a + 2 + i /\ KindsIn(stored[a].type, i) = {ElementKind(stored[a].type)}
    BY <1>2, <1>3, <1>4 DEF Pos, Place, KindsIn
<1>10. ArrayOffset(a) \in Nat \ {0}
    BY <1>3, <1>6, <1>7
<1> QED  BY <1>2, <1>3, <1>4, <1>5, <1>6, <1>7, <1>8, <1>9, <1>10 DEF ArraySize

\* Elements D of an array in a side heap are written, and no other cell of that heap.
LEMMA SideWritten ==
    ASSUME NEW N, Fits(N), NEW a \in Objects, stored[a].type \in SideArrays, NEW D \in SUBSET SlotsOf(a), Rewritten(a, D),
           heap' = heap, refs' = refs, chars' = chars, list' = list,
           HeapFits(bytes'), HeapFits(longs'), bytes'.top = bytes.top, longs'.top = longs.top,
           \A d \in D : stored'[a].slots[d].kind = ElementKind(stored[a].type),
           NEW W, W = {heap.cell[a + 2] + d : d \in D},
           stored[a].type = BooleanArray =>
               /\ longs' = longs
               /\ \A p \in 0 .. bytes.top - 1 : p \notin W => bytes'.cell[p] = bytes.cell[p]
               /\ \A d \in D : bytes'.cell[heap.cell[a + 2] + d] = stored'[a].slots[d].v,
           stored[a].type = LongArray =>
               /\ bytes' = bytes
               /\ \A p \in 0 .. longs.top - 1 : p \notin W => longs'.cell[p] = longs.cell[p]
               /\ \A d \in D : longs'.cell[heap.cell[a + 2] + d] = stored'[a].slots[d].v
    PROVE  Fits(N)'
<1>1. PICK S : /\ S = Objects \cup N /\ HeapsAreFit /\ Layout(heap, S) /\ Objects \subseteq S /\ Objects \cap N = {}
               /\ ObjectsFit(S) /\ NodesFit(heap, N, S) /\ HandlesFit(N, S)
               /\ \A b \in Objects : ObjectFits(b, S)
    BY FitsIs
<1>2. Objects' = Objects
    BY DEF Rewritten
<1>3. ASSUME NEW b \in Objects
      PROVE  /\ stored'[b].type = stored[b].type /\ stored[b].type = heap.cell[b] /\ InMain(b)' = InMain(b)
             /\ SlotsOf(b)' = SlotsOf(b) /\ \A i : Pos(b, i)' = Pos(b, i)
             /\ stored'[b] = [type |-> stored'[b].type, slots |-> stored'[b].slots]
             /\ DOMAIN stored'[b].slots = SlotsOf(b)
    <2>1. stored'[b] = [type |-> stored[b].type, slots |-> stored'[b].slots]
        BY DEF Rewritten
    <2>2. stored'[b].type = stored[b].type
        BY <2>1
    <2>3. ObjectFits(b, S)
        BY <1>1
    <2>4. DOMAIN stored'[b].slots = DOMAIN stored[b].slots
        BY DEF Rewritten
    <2> QED  BY <2>1, <2>2, <2>3, <2>4 DEF ObjectFits, InMain, SlotsOf, Pos
<1>4. a \notin {} /\ ~InMain(a)
    BY DEF InMain
<1>5. ASSUME NEW b \in Objects, NEW i \in SlotsOf(b), ~(b = a /\ i \in D)
      PROVE  stored'[b].slots[i] = stored[b].slots[i]
    BY <1>5 DEF Rewritten
<1>6. ASSUME NEW b \in Objects, InMain(b) PROVE b # a /\ stored'[b].slots = stored[b].slots
    BY <1>4, <1>6 DEF Rewritten
<1>7. longs.top \in Nat /\ bytes.top \in Nat
    BY <1>1 DEF HeapsAreFit, HeapFits
<1>8. ASSUME NEW b \in Objects, stored[b].type \in SideArrays
      PROVE  /\ heap.cell[b + 2] \in Nat \ {0} /\ heap.cell[b + 1] \in Nat /\ SlotsOf(b) = 0 .. heap.cell[b + 1] - 1
             /\ stored[b].type = BooleanArray => heap.cell[b + 2] + heap.cell[b + 1] <= bytes.top
             /\ stored[b].type = LongArray => heap.cell[b + 2] + heap.cell[b + 1] <= longs.top
    <2>1. ObjectFits(b, S) /\ stored[b].type \in Arrays /\ heap.cell[b] = stored[b].type
        BY <1>1, <1>3, <1>8, TypesAre
    <2>2. heap.cell[b + 1] \in Nat /\ SlotsOf(b) = 0 .. heap.cell[b + 1] - 1
        BY <1>1, <2>1 DEF Layout, SlotsOf, SlotsIn
    <2> QED  BY <1>8, <2>1, <2>2 DEF ObjectFits, SideFits, SideArrays
<1>9. ASSUME NEW b \in Objects, NEW i \in SlotsOf(b), IsSet(b, i, "long")
      PROVE  longs'.cell[heap.cell[Pos(b, i)]] = longs.cell[heap.cell[Pos(b, i)]]
    <2>1. SlotFits(b, i, S)
        BY <1>1 DEF ObjectFits
    <2>2. PICK c : c = heap.cell[Pos(b, i)]
        OBVIOUS
    <2>3. c \in 1 .. longs.top - 1
        BY <1>9, <2>1, <2>2 DEF SlotFits, IsSet, CellFits
    <2>4. CASE stored[a].type = BooleanArray
        BY <2>4
    <2>5. CASE stored[a].type = LongArray
        <3>1. c < heap.cell[a + 2] \/ c >= heap.cell[a + 2] + heap.cell[a + 1]
            BY <1>1, <1>9, <2>2, <2>5 DEF ObjectsFit, LongsApart
        <3>2. c \notin W
            BY <1>7, <1>8, <2>3, <3>1
        <3> QED  BY <1>7, <2>2, <2>3, <2>5, <3>2
    <2> QED  BY <2>4, <2>5 DEF SideArrays
<1>10. ASSUME NEW b \in Objects, NEW i \in SlotsOf(b) PROVE SlotFits(b, i, S)'
    <2>1. SlotFits(b, i, S)
        BY <1>1 DEF ObjectFits
    <2>2. ValueFits(stored[b].type, i, stored'[b].slots[i], S)
        <3>1. CASE b = a /\ i \in D
            <4>1. stored'[a].slots[i].kind = ElementKind(stored[a].type)
                BY <3>1
            <4>2. KindsIn(stored[a].type, i) = {ElementKind(stored[a].type)}
                BY TypesAre DEF KindsIn
            <4>3. ElementKind(stored[a].type) # "fs"
                BY DEF SideArrays, ElementKind, BooleanArray, LongArray, IntArray, StringArray, FSArray
            <4> QED  BY <3>1, <4>1, <4>2, <4>3 DEF ValueFits
        <3>2. CASE ~(b = a /\ i \in D)
            BY <1>5, <2>1, <3>2 DEF SlotFits
        <3> QED  BY <3>1, <3>2
    <2>3. ASSUME InMain(b) PROVE CellFits(refs', chars', longs', stored'[b].slots[i], heap'.cell[Pos(b, i)])
        <3>1. CellFits(refs, chars, longs, stored[b].slots[i], heap.cell[Pos(b, i)])
            BY <2>1, <2>3 DEF SlotFits
        <3>2. stored[b].slots[i].kind = "long" => longs'.cell[heap.cell[Pos(b, i)]] = longs.cell[heap.cell[Pos(b, i)]]
            BY <1>9, <2>3 DEF IsSet
        <3>3. CellFits(refs, chars, longs', stored[b].slots[i], heap.cell[Pos(b, i)])
            BY <3>1, <3>2 DEF CellFits
        <3> QED  BY <1>6, <2>3, <3>3
    <2>4. Pos(b, i)' = Pos(b, i)
        BY <1>3
    <2> QED  BY <1>3, <2>2, <2>3, <2>4 DEF SlotFits
<1>11. ASSUME NEW b \in Objects, NEW g, NEW g2, stored[b].type \in SideArrays, SideFits(b, g), g.top \in Nat, g2.top = g.top,
              \A i \in 0 .. heap.cell[b + 1] - 1 :
                  \/ b = a /\ i \in D /\ g2.cell[heap.cell[b + 2] + i] = stored'[b].slots[i].v
                  \/ ~(b = a /\ i \in D) /\ g2.cell[heap.cell[b + 2] + i] = g.cell[heap.cell[b + 2] + i]
       PROVE  /\ heap'.cell[b + 2] \in Nat \ {0}
              /\ heap'.cell[b + 2] + heap'.cell[b + 1] <= g2.top
              /\ \A i \in 0 .. heap'.cell[b + 1] - 1 :
                   g2.cell[heap'.cell[b + 2] + i] = IF stored'[b].slots[i].kind = "unset" THEN 0
                                                    ELSE stored'[b].slots[i].v
    <2>1. heap.cell[b + 2] \in Nat \ {0} /\ heap.cell[b + 2] + heap.cell[b + 1] <= g2.top
        BY <1>11 DEF SideFits
    <2>2. ASSUME NEW i \in 0 .. heap.cell[b + 1] - 1
          PROVE  g2.cell[heap.cell[b + 2] + i] = IF stored'[b].slots[i].kind = "unset" THEN 0 ELSE stored'[b].slots[i].v
        <3>1. i \in SlotsOf(b)
            BY <1>8, <1>11
        <3>2. CASE b = a /\ i \in D
            <4>1. stored'[a].slots[i].kind = ElementKind(stored[a].type)
                BY <3>2
            <4>2. ElementKind(stored[a].type) # "unset"
                BY DEF SideArrays, ElementKind, BooleanArray, LongArray, IntArray, StringArray, FSArray
            <4> QED  BY <1>11, <3>2, <4>1, <4>2
        <3>3. CASE ~(b = a /\ i \in D)
            BY <1>5, <1>11, <3>1, <3>3 DEF SideFits
        <3> QED  BY <3>2, <3>3
    <2> QED  BY <2>1, <2>2
<1>12. ASSUME NEW b \in Objects, NEW t \in SideArrays, stored[a].type = t, stored[b].type = t, SidesApart(t),
              NEW i \in 0 .. heap.cell[b + 1] - 1, ~(b = a /\ i \in D)
       PROVE  heap.cell[b + 2] + i \notin W
    <2> SUFFICES ASSUME NEW d \in D, heap.cell[b + 2] + i = heap.cell[a + 2] + d PROVE FALSE
        OBVIOUS
    <2>1. d \in 0 .. heap.cell[a + 1] - 1 /\ heap.cell[a + 2] \in Nat /\ heap.cell[b + 2] \in Nat
          /\ heap.cell[a + 1] \in Nat /\ heap.cell[b + 1] \in Nat
        BY <1>8, <1>12
    <2>2. CASE b = a
        BY <1>12, <2>1, <2>2
    <2>3. CASE b # a
        <3>1. \/ heap.cell[a + 2] + heap.cell[a + 1] <= heap.cell[b + 2]
              \/ heap.cell[b + 2] + heap.cell[b + 1] <= heap.cell[a + 2]
            BY <1>12, <2>3 DEF SidesApart
        <3> QED  BY <2>1, <3>1
    <2> QED  BY <2>2, <2>3
<1>13. ASSUME NEW b \in Objects, stored[b].type = BooleanArray PROVE SideFits(b, bytes)'
    <2>1. SideFits(b, bytes) /\ stored[b].type \in SideArrays /\ SidesApart(BooleanArray)
        BY <1>1, <1>13 DEF ObjectFits, SideArrays, ObjectsFit
    <2>2. heap.cell[b + 2] \in Nat /\ heap.cell[b + 1] \in Nat /\ heap.cell[b + 2] + heap.cell[b + 1] <= bytes.top
        BY <1>8, <1>13, <2>1
    <2>3. ASSUME NEW i \in 0 .. heap.cell[b + 1] - 1
          PROVE  \/ b = a /\ i \in D /\ bytes'.cell[heap.cell[b + 2] + i] = stored'[b].slots[i].v
                 \/ ~(b = a /\ i \in D) /\ bytes'.cell[heap.cell[b + 2] + i] = bytes.cell[heap.cell[b + 2] + i]
        <3>1. CASE b = a /\ i \in D
            BY <1>13, <3>1
        <3>2. CASE ~(b = a /\ i \in D) /\ stored[a].type = BooleanArray
            <4>1. heap.cell[b + 2] + i \notin W
                BY <1>12, <1>13, <2>1, <3>2
            <4>2. heap.cell[b + 2] + i \in 0 .. bytes.top - 1
                BY <1>7, <2>2
            <4> QED  BY <3>2, <4>1, <4>2
        <3>3. CASE ~(b = a /\ i \in D) /\ stored[a].type = LongArray
            BY <3>3
        <3> QED  BY <3>1, <3>2, <3>3 DEF SideArrays
    <2>4. bytes.top \in Nat /\ bytes'.top = bytes.top
        BY <1>7
    <2>5. /\ heap'.cell[b + 2] \in Nat \ {0}
          /\ heap'.cell[b + 2] + heap'.cell[b + 1] <= bytes'.top
          /\ \A i \in 0 .. heap'.cell[b + 1] - 1 :
               bytes'.cell[heap'.cell[b + 2] + i] = IF stored'[b].slots[i].kind = "unset" THEN 0
                                                   ELSE stored'[b].slots[i].v
        BY <1>11, <2>1, <2>3, <2>4
    <2> QED  BY <2>5 DEF SideFits
<1>14. ASSUME NEW b \in Objects, stored[b].type = LongArray PROVE SideFits(b, longs)'
    <2>1. SideFits(b, longs) /\ stored[b].type \in SideArrays /\ SidesApart(LongArray)
        BY <1>1, <1>14 DEF ObjectFits, SideArrays, ObjectsFit
    <2>2. heap.cell[b + 2] \in Nat /\ heap.cell[b + 1] \in Nat /\ heap.cell[b + 2] + heap.cell[b + 1] <= longs.top
        BY <1>8, <1>14, <2>1
    <2>3. ASSUME NEW i \in 0 .. heap.cell[b + 1] - 1
          PROVE  \/ b = a /\ i \in D /\ longs'.cell[heap.cell[b + 2] + i] = stored'[b].slots[i].v
                 \/ ~(b = a /\ i \in D) /\ longs'.cell[heap.cell[b + 2] + i] = longs.cell[heap.cell[b + 2] + i]
        <3>1. CASE b = a /\ i \in D
            BY <1>14, <3>1
        <3>2. CASE ~(b = a /\ i \in D) /\ stored[a].type = LongArray
            <4>1. heap.cell[b + 2] + i \notin W
                BY <1>12, <1>14, <2>1, <3>2
            <4>2. heap.cell[b + 2] + i \in 0 .. longs.top - 1
                BY <1>7, <2>2
            <4> QED  BY <3>2, <4>1, <4>2
        <3>3. CASE ~(b = a /\ i \in D) /\ stored[a].type = BooleanArray
            BY <3>3
        <3> QED  BY <3>1, <3>2, <3>3 DEF SideArrays
    <2>4. longs.top \in Nat /\ longs'.top = longs.top
        BY <1>7
    <2>5. /\ heap'.cell[b + 2] \in Nat \ {0}
          /\ heap'.cell[b + 2] + heap'.cell[b + 1] <= longs'.top
          /\ \A i \in 0 .. heap'.cell[b + 1] - 1 :
               longs'.cell[heap'.cell[b + 2] + i] = IF stored'[b].slots[i].kind = "unset" THEN 0
                                                   ELSE stored'[b].slots[i].v
        BY <1>11, <2>1, <2>3, <2>4
    <2> QED  BY <2>5 DEF SideFits
<1>15. \A b \in Objects : ObjectFits(b, S)'
    <2> SUFFICES ASSUME NEW b \in Objects PROVE ObjectFits(b, S)'
        OBVIOUS
    <2>1. ObjectFits(b, S)
        BY <1>1
    <2> QED  BY <1>3, <1>10, <1>13, <1>14, <2>1 DEF ObjectFits
<1>16. ASSUME NEW b \in Objects, NEW i \in SlotsOf(b), NEW kind PROVE IsSet(b, i, kind)' = IsSet(b, i, kind)
    BY <1>3, <1>6 DEF IsSet
<1>17. RefsApart'
    <2> SUFFICES ASSUME NEW b \in Objects', NEW c \in Objects', NEW i \in SlotsOf(b)', NEW j \in SlotsOf(c)',
                        IsSet(b, i, "string")', IsSet(c, j, "string")', heap'.cell[Pos(b, i)'] = heap'.cell[Pos(c, j)']
                 PROVE  b = c /\ i = j
        BY DEF RefsApart
    <2>1. b \in Objects /\ c \in Objects /\ i \in SlotsOf(b) /\ j \in SlotsOf(c)
        BY <1>2, <1>3
    <2>2. IsSet(b, i, "string") /\ IsSet(c, j, "string") /\ heap.cell[Pos(b, i)] = heap.cell[Pos(c, j)]
        BY <1>3, <1>16, <2>1
    <2> QED  BY <1>1, <2>1, <2>2 DEF ObjectsFit, RefsApart
<1>18. SidesApart(BooleanArray)' /\ SidesApart(LongArray)'
    <2>1. ASSUME NEW t, SidesApart(t) PROVE SidesApart(t)'
        <3> SUFFICES ASSUME NEW b \in Objects', NEW c \in Objects', stored'[b].type = t, stored'[c].type = t, b # c
                     PROVE  \/ heap'.cell[b + 2] + heap'.cell[b + 1] <= heap'.cell[c + 2]
                            \/ heap'.cell[c + 2] + heap'.cell[c + 1] <= heap'.cell[b + 2]
            BY DEF SidesApart
        <3>1. b \in Objects /\ c \in Objects /\ stored[b].type = t /\ stored[c].type = t
            BY <1>2, <1>3
        <3> QED  BY <2>1, <3>1 DEF SidesApart
    <2> QED  BY <1>1, <2>1 DEF ObjectsFit
<1>19. LongsApart'
    <2> SUFFICES ASSUME NEW b \in Objects', NEW c \in Objects', NEW i \in SlotsOf(b)',
                        IsSet(b, i, "long")', stored'[c].type = LongArray
                 PROVE  \/ heap'.cell[Pos(b, i)'] < heap'.cell[c + 2]
                        \/ heap'.cell[Pos(b, i)'] >= heap'.cell[c + 2] + heap'.cell[c + 1]
        BY DEF LongsApart
    <2>1. b \in Objects /\ c \in Objects /\ i \in SlotsOf(b)
        BY <1>2, <1>3
    <2>2. IsSet(b, i, "long") /\ stored[c].type = LongArray /\ Pos(b, i)' = Pos(b, i)
        BY <1>3, <1>16, <2>1
    <2> QED  BY <1>1, <2>1, <2>2 DEF ObjectsFit, LongsApart
<1>20. ObjectsFit(S)'
    BY <1>2, <1>15, <1>17, <1>18, <1>19 DEF ObjectsFit
<1>21. HeapsAreFit'
    BY <1>1 DEF HeapsAreFit
<1>22. HandlesFit(N, S)'
    BY <1>1 DEF HandlesFit
<1> QED  BY <1>1, <1>2, <1>20, <1>21, <1>22 DEF Fits

\* The slots of a become new.
SlotsBecome(a, new) == stored' = [stored EXCEPT ![a].slots = new]

\* Elements D of array a are written with values v.
LEMMA ElementsRewritten ==
    ASSUME NEW N, Fits(N), NEW a \in Objects, NEW D \in SUBSET SlotsOf(a), NEW w,
           NEW new, DOMAIN new = DOMAIN stored[a].slots,
           \A i \in DOMAIN new : new[i] = IF i \in D THEN w ELSE stored[a].slots[i],
           SlotsBecome(a, new)
    PROVE  /\ Rewritten(a, D)
           /\ \A d \in D : stored'[a].slots[d] = w
<1>1. \A b \in Objects : ObjectFits(b, Objects \cup N)
    BY DEF Fits, ObjectsFit
<1>2. stored[a] = [type |-> stored[a].type, slots |-> stored[a].slots] /\ DOMAIN stored[a].slots = SlotsOf(a)
    BY <1>1 DEF ObjectFits
<1>3. stored' = [stored EXCEPT ![a] = [stored[a] EXCEPT !.slots = new]]
    BY DEF SlotsBecome
<1>4. [stored[a] EXCEPT !.slots = new] = [type |-> stored[a].type, slots |-> new]
    BY <1>2
<1>5. DOMAIN stored' = Objects /\ stored'[a] = [type |-> stored[a].type, slots |-> new]
      /\ \A b \in Objects : b # a => stored'[b] = stored[b]
    BY <1>3, <1>4 DEF Objects
<1>6. DOMAIN new = DOMAIN stored[a].slots /\ (\A d \in D : new[d] = w)
      /\ \A j \in SlotsOf(a) \ D : new[j] = stored[a].slots[j]
    BY <1>2
<1>7. stored'[a].slots = new /\ stored'[a].type = stored[a].type
    BY <1>5
<1>8. ASSUME NEW b \in Objects PROVE stored'[b] = [type |-> stored[b].type, slots |-> stored'[b].slots]
    <2>1. CASE b = a
        BY <1>5, <1>7, <2>1
    <2>2. CASE b # a
        BY <1>1, <1>5, <2>2 DEF ObjectFits
    <2> QED  BY <2>1, <2>2
<1>9. Objects' = Objects /\ \A b \in Objects : b # a => stored'[b].slots = stored[b].slots
    BY <1>5 DEF Objects
<1> QED  BY <1>6, <1>7, <1>8, <1>9 DEF Rewritten

\* Writing one element is a case of it.
LEMMA OneElementRewritten ==
    ASSUME NEW N, Fits(N), NEW a \in Objects, NEW i \in SlotsOf(a), NEW k, NEW v, Wrote(a, i, k, v)
    PROVE  /\ Rewritten(a, {i})
           /\ \A d \in {i} : stored'[a].slots[d].kind = k /\ stored'[a].slots[d].v = v
<1>1. Rewritten(a, {i}) /\ stored'[a].slots[i] = Value(k, v)
    BY WroteIs
<1>2. Value(k, v).kind = k /\ Value(k, v).v = v
    BY DEF Value
<1> QED  BY <1>1, <1>2

\* Arrays by what they hold
LEMMA ArrayKinds ==
    /\ ElementKind(IntArray) = "number" /\ ElementKind(FSArray) = "fs" /\ ElementKind(StringArray) = "string"
    /\ ElementKind(BooleanArray) = "boolean" /\ ElementKind(LongArray) = "long"
    /\ IntArray \notin SideArrays /\ FSArray \notin SideArrays /\ StringArray \notin SideArrays
    /\ BooleanArray \in SideArrays /\ LongArray \in SideArrays /\ BooleanArray # LongArray
    /\ IntArray # BooleanArray /\ IntArray # LongArray
<1>1. ElementKind(7) = "number" /\ ElementKind(6) = "fs" /\ ElementKind(8) = "string"
    BY DEF ElementKind, IntArray, FSArray, StringArray, BooleanArray, LongArray
<1>2. ElementKind(9) = "boolean" /\ ElementKind(10) = "long"
    BY DEF ElementKind, IntArray, FSArray, StringArray, BooleanArray, LongArray
<1> QED  BY <1>1, <1>2 DEF SideArrays, IntArray, FSArray, StringArray, BooleanArray, LongArray

\* set() on an array writes one element of it and nothing else.
LEMMA ArraySetFits ==
    ASSUME NEW N, Fits(N), NEW a, NEW i \in Nat, NEW k, NEW v, ArraySet(a, i, k, v),
           k = "string" => v \in Seq(Int \ {0}), k = "fs" => v \in Objects
    PROVE  Fits(N)'
<1>1. /\ a \in Objects /\ TypeOf(heap, a) \in Arrays /\ i < ArraySize(a) /\ Wrote(a, i, k, v) /\ list' = list
    BY DEF ArraySet, Quiet
<1>2. PICK t : t = TypeOf(heap, a)
    OBVIOUS
<1>3. /\ stored[a].type = t /\ t \in Arrays /\ i \in SlotsOf(a) /\ ArrayOffset(a) \in Nat \ {0} /\ ArraySize(a) \in Nat
      /\ InMain(a) <=> t \notin SideArrays
      /\ InMain(a) => Pos(a, i) = ArrayOffset(a) + i /\ KindsIn(t, i) = {ElementKind(t)}
      /\ ~InMain(a) => ArrayOffset(a) = heap.cell[a + 2]
      /\ t = BooleanArray => ArrayOffset(a) + ArraySize(a) <= bytes.top
      /\ t = LongArray => ArrayOffset(a) + ArraySize(a) <= longs.top
    <2>1. \A j \in Nat : j < ArraySize(a) => j \in 0 .. ArraySize(a) - 1
        BY <1>1, ArrayIs
    <2> QED  BY <1>1, <1>2, <2>1, ArrayIs
<1>4. HeapFits(longs) /\ HeapFits(bytes) /\ longs.top \in Nat /\ bytes.top \in Nat
    BY DEF Fits, HeapsAreFit, HeapFits
<1>5. CASE k = "number" /\ t = IntArray
    <2>1. heap' = SetCells(heap, ArrayOffset(a) + i, <<v>>) /\ UNCHANGED side
        BY <1>2, <1>5 DEF ArraySet
    <2>2. t \notin SideArrays /\ ElementKind(t) = "number"
        BY <1>5, ArrayKinds
    <2>3. heap' = SetCells(heap, Pos(a, i), <<v>>) /\ InMain(a) /\ k \in KindsIn(stored[a].type, i)
        BY <1>3, <1>5, <2>1, <2>2
    <2> QED  BY <1>1, <1>3, <1>5, <2>1, <2>3, CellWritten
<1>6. CASE k = "fs" /\ t = FSArray
    <2>1. heap' = SetCells(heap, ArrayOffset(a) + i, <<v>>) /\ UNCHANGED side
        BY <1>2, <1>6 DEF ArraySet, FSArray, IntArray
    <2>2. t \notin SideArrays /\ ElementKind(t) = "fs"
        BY <1>6, ArrayKinds
    <2>3. heap' = SetCells(heap, Pos(a, i), <<v>>) /\ InMain(a) /\ k \in KindsIn(stored[a].type, i)
        BY <1>3, <1>6, <2>1, <2>2
    <2> QED  BY <1>1, <1>3, <1>6, <2>1, <2>3, CellWritten
<1>7. CASE k = "string" /\ t = StringArray
    <2>1. /\ chars' = AddString(v) /\ refs' = WithRef(refs, chars', chars.top)
          /\ heap' = SetCells(heap, ArrayOffset(a) + i, <<NextRef(refs)>>) /\ longs' = longs /\ bytes' = bytes
        BY <1>2, <1>7 DEF ArraySet
    <2>2. t \notin SideArrays /\ ElementKind(t) = "string"
        BY <1>7, ArrayKinds
    <2>3. heap' = SetCells(heap, Pos(a, i), <<NextRef(refs)>>) /\ InMain(a) /\ "string" \in KindsIn(stored[a].type, i)
        BY <1>3, <2>1, <2>2
    <2> QED  BY <1>1, <1>3, <1>7, <2>1, <2>3, StringWritten
<1>8. CASE k = "boolean" /\ t = BooleanArray
    <2>1. bytes' = SetCells(bytes, ArrayOffset(a) + i, <<v>>) /\ heap' = heap /\ refs' = refs /\ chars' = chars /\ longs' = longs
        BY <1>2, <1>8 DEF ArraySet
    <2>2. t \in SideArrays /\ ElementKind(t) = "boolean" /\ t # LongArray
        BY <1>8, ArrayKinds
    <2>3. PICK p : p = ArrayOffset(a) + i
        OBVIOUS
    <2>4. p \in Nat /\ p < bytes.top /\ p = heap.cell[a + 2] + i /\ bytes' = SetCells(bytes, p, <<v>>)
        BY <1>1, <1>3, <1>4, <1>8, <2>1, <2>2, <2>3
    <2>5. /\ HeapFits(bytes') /\ bytes'.top = bytes.top /\ bytes'.cell[p] = v
          /\ \A q \in 0 .. bytes.top - 1 : q # p => bytes'.cell[q] = bytes.cell[q]
        <3>1. HeapFits(bytes) /\ p \in Nat /\ p < bytes.top
            BY <1>4, <2>4
        <3>2. PICK g : g = SetCells(bytes, p, <<v>>)
            OBVIOUS
        <3>3. /\ HeapFits(g) /\ g.top = bytes.top /\ g.cell[p] = v
              /\ \A q \in 0 .. bytes.top - 1 : q # p => g.cell[q] = bytes.cell[q]
            BY <3>1, <3>2, SetCellFits
        <3> QED  BY <2>4, <3>2, <3>3
    <2>6. PICK D, W : D = {i} /\ W = {heap.cell[a + 2] + d : d \in D}
        OBVIOUS
    <2>7. D \in SUBSET SlotsOf(a) /\ Rewritten(a, D) /\ stored[a].type \in SideArrays
          /\ \A d \in D : stored'[a].slots[d].kind = ElementKind(stored[a].type) /\ stored'[a].slots[d].v = v
        BY <1>1, <1>3, <1>8, <2>2, <2>6, OneElementRewritten
    <2>8. W = {p}
        BY <2>4, <2>6
    <2>9. /\ \A q \in 0 .. bytes.top - 1 : q \notin W => bytes'.cell[q] = bytes.cell[q]
          /\ \A d \in D : bytes'.cell[heap.cell[a + 2] + d] = stored'[a].slots[d].v
        BY <2>4, <2>5, <2>6, <2>7, <2>8
    <2>10. stored[a].type = BooleanArray =>
               /\ longs' = longs
               /\ \A q \in 0 .. bytes.top - 1 : q \notin W => bytes'.cell[q] = bytes.cell[q]
               /\ \A d \in D : bytes'.cell[heap.cell[a + 2] + d] = stored'[a].slots[d].v
        BY <2>1, <2>9
    <2>11. /\ heap' = heap /\ refs' = refs /\ chars' = chars /\ list' = list /\ HeapFits(longs') /\ longs'.top = longs.top
           /\ stored[a].type # LongArray
        BY <1>1, <1>3, <1>4, <2>1, <2>2
    <2> QED  BY <1>1, <2>5, <2>6, <2>7, <2>10, <2>11, SideWritten
<1>9. CASE k = "long" /\ t = LongArray
    <2>1. longs' = SetCells(longs, ArrayOffset(a) + i, <<v>>) /\ heap' = heap /\ refs' = refs /\ chars' = chars /\ bytes' = bytes
        BY <1>2, <1>9 DEF ArraySet
    <2>2. t \in SideArrays /\ ElementKind(t) = "long" /\ t # BooleanArray
        BY <1>9, ArrayKinds
    <2>3. PICK p : p = ArrayOffset(a) + i
        OBVIOUS
    <2>4. p \in Nat /\ p < longs.top /\ p = heap.cell[a + 2] + i /\ longs' = SetCells(longs, p, <<v>>)
        BY <1>1, <1>3, <1>4, <1>9, <2>1, <2>2, <2>3
    <2>5. /\ HeapFits(longs') /\ longs'.top = longs.top /\ longs'.cell[p] = v
          /\ \A q \in 0 .. longs.top - 1 : q # p => longs'.cell[q] = longs.cell[q]
        <3>1. HeapFits(longs) /\ p \in Nat /\ p < longs.top
            BY <1>4, <2>4
        <3>2. PICK g : g = SetCells(longs, p, <<v>>)
            OBVIOUS
        <3>3. /\ HeapFits(g) /\ g.top = longs.top /\ g.cell[p] = v
              /\ \A q \in 0 .. longs.top - 1 : q # p => g.cell[q] = longs.cell[q]
            BY <3>1, <3>2, SetCellFits
        <3> QED  BY <2>4, <3>2, <3>3
    <2>6. PICK D, W : D = {i} /\ W = {heap.cell[a + 2] + d : d \in D}
        OBVIOUS
    <2>7. D \in SUBSET SlotsOf(a) /\ Rewritten(a, D) /\ stored[a].type \in SideArrays
          /\ \A d \in D : stored'[a].slots[d].kind = ElementKind(stored[a].type) /\ stored'[a].slots[d].v = v
        BY <1>1, <1>3, <1>9, <2>2, <2>6, OneElementRewritten
    <2>8. W = {p}
        BY <2>4, <2>6
    <2>9. /\ \A q \in 0 .. longs.top - 1 : q \notin W => longs'.cell[q] = longs.cell[q]
          /\ \A d \in D : longs'.cell[heap.cell[a + 2] + d] = stored'[a].slots[d].v
        BY <2>4, <2>5, <2>6, <2>7, <2>8
    <2>10. stored[a].type = LongArray =>
               /\ bytes' = bytes
               /\ \A q \in 0 .. longs.top - 1 : q \notin W => longs'.cell[q] = longs.cell[q]
               /\ \A d \in D : longs'.cell[heap.cell[a + 2] + d] = stored'[a].slots[d].v
        BY <2>1, <2>9
    <2>11. /\ heap' = heap /\ refs' = refs /\ chars' = chars /\ list' = list /\ HeapFits(bytes') /\ bytes'.top = bytes.top
           /\ stored[a].type # BooleanArray
        BY <1>1, <1>3, <1>4, <2>1, <2>2
    <2> QED  BY <1>1, <2>5, <2>6, <2>7, <2>10, <2>11, SideWritten
<1>10. \/ (k = "number" /\ t = IntArray) \/ (k = "fs" /\ t = FSArray) \/ (k = "string" /\ t = StringArray)
       \/ (k = "boolean" /\ t = BooleanArray) \/ (k = "long" /\ t = LongArray)
    BY <1>2 DEF ArraySet
<1> QED  BY <1>5, <1>6, <1>7, <1>8, <1>9, <1>10

\* Values from outside are n times v: the same is written to elements offset .. offset + n - 1.
LEMMA CopyFromArrayFits ==
    ASSUME NEW N, Fits(N), NEW a, NEW v, NEW n \in Sizes, NEW offset \in Nat, CopyFromArray(a, v, n, offset)
    PROVE  Fits(N)'
<1>1. /\ a \in Objects /\ TypeOf(heap, a) \in {IntArray, BooleanArray, LongArray}
      /\ n \in Nat /\ n >= 1 /\ offset + n - 1 < ArraySize(a)
      /\ list' = list /\ refs' = refs /\ chars' = chars
    BY ValuesAssumption DEF CopyFromArray, Quiet
<1>2. PICK t, D, w, values, at :
        /\ t = TypeOf(heap, a) /\ D = offset .. offset + n - 1 /\ w = Value(ElementKind(TypeOf(heap, a)), v)
        /\ values = [i \in 1 .. n |-> v] /\ at = ArrayOffset(a) + offset
    OBVIOUS
<1>3. TypeOf(heap, a) \in Arrays
    BY <1>1 DEF Arrays
<1>4. /\ stored[a].type = t /\ ArrayOffset(a) \in Nat \ {0} /\ ArraySize(a) \in Nat /\ SlotsOf(a) = 0 .. ArraySize(a) - 1
      /\ InMain(a) <=> t \notin SideArrays
      /\ InMain(a) => \A i \in SlotsOf(a) : Pos(a, i) = ArrayOffset(a) + i /\ KindsIn(t, i) = {ElementKind(t)}
      /\ ~InMain(a) => ArrayOffset(a) = heap.cell[a + 2]
      /\ t = BooleanArray => ArrayOffset(a) + ArraySize(a) <= bytes.top
      /\ t = LongArray => ArrayOffset(a) + ArraySize(a) <= longs.top
    BY <1>1, <1>2, <1>3, ArrayIs
<1>5. D \in SUBSET SlotsOf(a)
    BY <1>1, <1>2, <1>4
<1>6. PICK k : k = ElementKind(t)
    OBVIOUS
<1>7. stored' = [stored EXCEPT ![a].slots = [i \in DOMAIN @ |-> IF i \in D THEN w ELSE @[i]]] /\ w = Value(k, v)
    BY <1>2, <1>6 DEF CopyFromArray
<1>8. /\ Rewritten(a, D)
      /\ \A d \in D : stored'[a].slots[d].kind = k /\ stored'[a].slots[d].v = v
    <2>1. PICK new : new = [i \in DOMAIN stored[a].slots |-> IF i \in D THEN w ELSE stored[a].slots[i]]
        OBVIOUS
    <2>2. SlotsBecome(a, new)
        BY <1>7, <2>1 DEF SlotsBecome
    <2>3. DOMAIN new = DOMAIN stored[a].slots /\ \A i \in DOMAIN new : new[i] = IF i \in D THEN w ELSE stored[a].slots[i]
        BY <2>1
    <2>4. a \in Objects
        BY <1>1
    <2>5. Rewritten(a, D) /\ \A d \in D : stored'[a].slots[d] = w
        BY <1>5, <2>2, <2>3, <2>4, ElementsRewritten
    <2>6. w.kind = k /\ w.v = v
        BY <1>7 DEF Value
    <2> QED  BY <2>5, <2>6
<1>9. /\ HeapsAreFit /\ HeapFits(heap) /\ HeapFits(longs) /\ HeapFits(bytes)
      /\ longs.top \in Nat /\ bytes.top \in Nat /\ heap.top \in Nat
    BY DEF Fits, HeapsAreFit, HeapFits
<1>10. values \in Seq({v}) /\ Len(values) = n /\ at \in Nat
    BY <1>1, <1>2, <1>4
<1>11. ASSUME NEW h, HeapFits(h), h.top \in Nat, ArrayOffset(a) + ArraySize(a) <= h.top, NEW g, g = SetCells(h, at, values)
       PROVE  /\ HeapFits(g) /\ g.top = h.top
              /\ \A q \in 0 .. h.top - 1 : q \notin {ArrayOffset(a) + d : d \in D} => g.cell[q] = h.cell[q]
              /\ \A d \in D : g.cell[ArrayOffset(a) + d] = v
    <2>1. Len(values) \in Nat /\ at + Len(values) <= h.top /\ at \in Nat
        BY <1>1, <1>2, <1>4, <1>10, <1>11
    <2>2. /\ HeapFits(g) /\ g.top = h.top
          /\ \A i \in 0 .. h.top - 1 :
               g.cell[i] = IF i \in at .. at + Len(values) - 1 THEN values[i - at + 1] ELSE h.cell[i]
        <3> DEFINE G == SetCells(h, at, values)
        <3>1. /\ HeapFits(G) /\ G.top = h.top
              /\ \A i \in 0 .. h.top - 1 :
                   G.cell[i] = IF i \in at .. at + Len(values) - 1 THEN values[i - at + 1] ELSE h.cell[i]
            <4>1. HeapFits(h)
                BY <1>11
            <4> QED  BY <2>1, <4>1, SetCellsFits
        <3> QED  BY <1>11, <3>1
    <2>3. ASSUME NEW q \in 0 .. h.top - 1, q \notin {ArrayOffset(a) + d : d \in D} PROVE g.cell[q] = h.cell[q]
        <3>1. q \notin at .. at + n - 1
            <4> SUFFICES ASSUME q \in at .. at + n - 1 PROVE FALSE
                OBVIOUS
            <4>1. q - ArrayOffset(a) \in D /\ q = ArrayOffset(a) + (q - ArrayOffset(a))
                BY <1>1, <1>2, <1>4
            <4> QED  BY <2>3, <4>1
        <3> QED  BY <1>10, <2>2, <3>1
    <2>4. ASSUME NEW d \in D PROVE g.cell[ArrayOffset(a) + d] = v
        <3>1. PICK first : first = ArrayOffset(a)
            OBVIOUS
        <3>2. d \in offset .. offset + n - 1 /\ at = first + offset /\ n \in Nat /\ first \in Nat
            BY <1>1, <1>2, <1>4, <3>1
        <3>3. PICK e \in 0 .. n - 1 : d = offset + e
            BY <3>2
        <3>4. at + n <= h.top /\ h.top \in Nat
            BY <1>10, <1>11, <2>1
        <3>5. PICK q : q = at + e
            OBVIOUS
        <3>6. q \in 0 .. h.top - 1 /\ q \in at .. at + n - 1 /\ q - at + 1 = e + 1
            BY <1>10, <3>2, <3>3, <3>4, <3>5
        <3>7. g.cell[q] = values[e + 1]
            BY <1>10, <2>2, <3>6
        <3>8. values[e + 1] = v
            BY <1>2, <3>2, <3>3
        <3>9. first + d = q
            BY <3>2, <3>3, <3>5
        <3> QED  BY <3>1, <3>7, <3>8, <3>9
    <2> QED  BY <2>2, <2>3, <2>4
<1>12. CASE t = IntArray
    <2>1. heap' = SetCells(heap, at, values) /\ UNCHANGED side
        <3>1. heap' = SetCells(heap, at, values) /\ longs' = longs /\ bytes' = bytes
            BY <1>2, <1>12, ArrayKinds DEF CopyFromArray
        <3> QED  BY <1>1, <3>1 DEF side
    <2>2. InMain(a) /\ k = "number"
        BY <1>4, <1>6, <1>12, ArrayKinds
    <2>3. PICK S : /\ S = Objects \cup N /\ Layout(heap, S) /\ Objects \subseteq S /\ ObjectsFit(S)
        BY FitsIs
    <2>4. ArrayOffset(a) + ArraySize(a) <= heap.top
        <3>1. a \in S /\ heap.cell[a] = t /\ t \in Arrays /\ t \notin SideArrays
            BY <1>1, <1>2, <1>3, <1>12, <2>3, ArrayKinds DEF TypeOf
        <3>2. ArrayOffset(a) = a + 2 /\ ArraySize(a) = heap.cell[a + 1]
            BY <1>1, <1>3, <2>2, ArrayIs
        <3>3. Extent(heap, a) = 2 + heap.cell[a + 1] /\ a + Extent(heap, a) <= heap.top /\ a \in Nat
            BY <2>3, <3>1 DEF Extent, SizeOf, Layout
        <3> QED  BY <1>4, <3>2, <3>3
    <2>5. /\ HeapFits(heap') /\ heap'.top = heap.top
          /\ \A q \in 0 .. heap.top - 1 : q \notin {ArrayOffset(a) + d : d \in D} => heap'.cell[q] = heap.cell[q]
          /\ \A d \in D : heap'.cell[ArrayOffset(a) + d] = v
        BY <1>9, <1>11, <2>1, <2>4
    <2>6. /\ HeapsAreFit' /\ Grown(refs, refs') /\ refs'.top >= refs.top
          /\ Grown(chars, chars') /\ Grown(longs, longs') /\ Grown(bytes, bytes')
        BY <1>9, <2>1, <2>5, SideUnchanged
    <2>7. RefsStay(a, D)
        BY <1>9, <2>3, <2>6, RefsGrown
    <2>8. \A d \in D : Pos(a, d) = ArrayOffset(a) + d
        BY <1>4, <1>5, <2>2
    <2>9. \A p \in 0 .. heap.top - 1 : p \notin {Pos(a, d) : d \in D} => heap'.cell[p] = heap.cell[p]
        BY <2>5, <2>8
    <2>10. stored'[a].type = stored[a].type
        <3>1. stored'[a] = [type |-> stored[a].type, slots |-> stored'[a].slots]
            BY <1>1, <1>8 DEF Rewritten
        <3> QED  BY <3>1
    <2>11. ASSUME NEW d \in D PROVE SlotFits(a, d, S)'
        <3>1. ValueFits(stored[a].type, d, stored'[a].slots[d], S)
            BY <1>4, <1>5, <1>6, <1>8, <2>2 DEF ValueFits
        <3>2. CellFits(refs', chars', longs', stored'[a].slots[d], heap'.cell[Pos(a, d)])
            BY <1>8, <2>2, <2>5, <2>8 DEF CellFits
        <3>3. Pos(a, d)' = Pos(a, d)
            BY <2>10 DEF Pos
        <3> QED  BY <2>10, <3>1, <3>2, <3>3 DEF SlotFits
    <2>12. NewFits(a, D, S)
        BY <1>8, <2>2, <2>11 DEF NewFits, IsSet
    <2> QED  BY <1>1, <1>5, <1>8, <2>2, <2>3, <2>5, <2>6, <2>7, <2>9, <2>12, SlotsFitAgain
<1>13. PICK W : W = {heap.cell[a + 2] + d : d \in D}
    OBVIOUS
<1>14. CASE t = BooleanArray
    <2>1. bytes' = SetCells(bytes, at, values) /\ heap' = heap /\ longs' = longs
        BY <1>2, <1>14, ArrayKinds DEF CopyFromArray
    <2>2. ArrayOffset(a) = heap.cell[a + 2] /\ stored[a].type \in SideArrays
        BY <1>4, <1>14, ArrayKinds
    <2>3. /\ HeapFits(bytes') /\ bytes'.top = bytes.top
          /\ \A q \in 0 .. bytes.top - 1 : q \notin W => bytes'.cell[q] = bytes.cell[q]
          /\ \A d \in D : bytes'.cell[heap.cell[a + 2] + d] = stored'[a].slots[d].v
        BY <1>4, <1>8, <1>9, <1>11, <1>13, <1>14, <2>1, <2>2
    <2>4. stored[a].type = BooleanArray =>
               /\ longs' = longs
               /\ \A p \in 0 .. bytes.top - 1 : p \notin W => bytes'.cell[p] = bytes.cell[p]
               /\ \A d \in D : bytes'.cell[heap.cell[a + 2] + d] = stored'[a].slots[d].v
        BY <2>1, <2>3
    <2>5. heap' = heap /\ HeapFits(longs') /\ longs'.top = longs.top /\ stored[a].type # LongArray
        BY <1>4, <1>9, <1>14, <2>1, ArrayKinds
    <2>6. \A d \in D : stored'[a].slots[d].kind = ElementKind(stored[a].type)
        BY <1>4, <1>6, <1>8
    <2> QED  BY <1>1, <1>5, <1>8, <1>13, <2>2, <2>3, <2>4, <2>5, <2>6, SideWritten
<1>15. CASE t = LongArray
    <2>1. longs' = SetCells(longs, at, values) /\ heap' = heap /\ bytes' = bytes
        BY <1>2, <1>15, ArrayKinds DEF CopyFromArray
    <2>2. ArrayOffset(a) = heap.cell[a + 2] /\ stored[a].type \in SideArrays
        BY <1>4, <1>15, ArrayKinds
    <2>3. /\ HeapFits(longs') /\ longs'.top = longs.top
          /\ \A q \in 0 .. longs.top - 1 : q \notin W => longs'.cell[q] = longs.cell[q]
          /\ \A d \in D : longs'.cell[heap.cell[a + 2] + d] = stored'[a].slots[d].v
        BY <1>4, <1>8, <1>9, <1>11, <1>13, <1>15, <2>1, <2>2
    <2>4. stored[a].type = LongArray =>
               /\ bytes' = bytes
               /\ \A p \in 0 .. longs.top - 1 : p \notin W => longs'.cell[p] = longs.cell[p]
               /\ \A d \in D : longs'.cell[heap.cell[a + 2] + d] = stored'[a].slots[d].v
        BY <2>1, <2>3
    <2>5. heap' = heap /\ HeapFits(bytes') /\ bytes'.top = bytes.top /\ stored[a].type # BooleanArray
        BY <1>4, <1>9, <1>15, <2>1, ArrayKinds
    <2>6. \A d \in D : stored'[a].slots[d].kind = ElementKind(stored[a].type)
        BY <1>4, <1>6, <1>8
    <2> QED  BY <1>1, <1>5, <1>8, <1>13, <2>2, <2>3, <2>4, <2>5, <2>6, SideWritten
<1> QED  BY <1>1, <1>2, <1>12, <1>14, <1>15

(* Clones *)

\* Members of a set of numbers are counted in order, without a gap.
LEMMA RankIs ==
    ASSUME NEW n \in Nat, NEW own \in SUBSET (1 .. n)
    PROVE  /\ Cardinality(own) \in Nat
           /\ \A i \in own : Cardinality({j \in own : j < i}) \in 0 .. Cardinality(own) - 1
           /\ \A i, k \in own : i < k => Cardinality({j \in own : j < i}) < Cardinality({j \in own : j < k})
<1> DEFINE Below(i) == {j \in own : j < i}
<1>1. IsFiniteSet(own) /\ Cardinality(own) \in Nat
    <2>1. IsFiniteSet(1 .. n)
        BY FS_Interval
    <2>2. IsFiniteSet(own)
        BY <2>1, FS_Subset
    <2> QED  BY <2>2, FS_CardinalityType
<1>2. ASSUME NEW i \in own
      PROVE  /\ IsFiniteSet(Below(i)) /\ Cardinality(Below(i)) \in Nat
             /\ IsFiniteSet(Below(i) \cup {i}) /\ Cardinality(Below(i) \cup {i}) = Cardinality(Below(i)) + 1
    <2>1. Below(i) \in SUBSET own /\ i \notin Below(i)
        OBVIOUS
    <2> HIDE DEF Below
    <2>2. IsFiniteSet(Below(i))
        BY <1>1, <2>1, FS_Subset
    <2> QED  BY <2>1, <2>2, FS_CardinalityType, FS_AddElement
<1>3. ASSUME NEW i \in own PROVE Cardinality(Below(i)) + 1 <= Cardinality(own)
    <2>1. Below(i) \cup {i} \in SUBSET own
        OBVIOUS
    <2> HIDE DEF Below
    <2>2. Cardinality(Below(i) \cup {i}) <= Cardinality(own)
        BY <1>1, <2>1, FS_Subset
    <2> QED  BY <1>2, <2>2
<1>4. ASSUME NEW i \in own, NEW k \in own, i < k PROVE Cardinality(Below(i)) < Cardinality(Below(k))
    <2>1. Below(i) \cup {i} \in SUBSET Below(k)
        <3>1. i \in Int /\ k \in Int /\ i \in own /\ i < k /\ own \subseteq Int
            BY <1>4
        <3>2. \A x \in own : x < i => x < k
            BY <3>1
        <3> QED  BY <3>1, <3>2
    <2> HIDE DEF Below
    <2>2. Cardinality(Below(i) \cup {i}) <= Cardinality(Below(k))
        BY <1>2, <2>1, FS_Subset
    <2>3. PICK x, y, z : x = Cardinality(Below(i)) /\ y = Cardinality(Below(k)) /\ z = Cardinality(Below(i) \cup {i})
        OBVIOUS
    <2>4. x \in Nat /\ y \in Nat /\ z = x + 1
        BY <1>2, <2>3
    <2> QED  BY <2>2, <2>3, <2>4
<1> HIDE DEF Below
<1>5. ASSUME NEW i \in own PROVE Cardinality(Below(i)) \in 0 .. Cardinality(own) - 1
    <2>1. PICK x, y : x = Cardinality(Below(i)) /\ y = Cardinality(own)
        OBVIOUS
    <2>2. x \in Nat /\ y \in Nat /\ x + 1 <= y
        BY <1>1, <1>2, <1>3, <2>1
    <2> QED  BY <2>1, <2>2
<1> QED  BY <1>1, <1>4, <1>5 DEF Below

\* The table with new references for strings at the places given
RefsFilled(wide, place) ==
    [wide EXCEPT !.cell = [c \in DOMAIN wide.cell |->
        IF \E r \in DOMAIN place : c \in {RefCell(r), RefCell(r) + 1}
        THEN LET r == CHOOSE q \in DOMAIN place : c \in {RefCell(q), RefCell(q) + 1}
             IN IF c = RefCell(r) THEN place[r] ELSE Length(chars, place[r])
        ELSE wide.cell[c]]]

\* Filling the references at DOMAIN place leaves those below them alone.
LEMMA RefsFilledFits ==
    ASSUME NEW wide, HeapFits(wide), NEW low \in Nat, low <= wide.top,
           NEW place, \A r \in DOMAIN place : r \in Int /\ low <= RefCell(r) /\ RefCell(r) + 1 < wide.top,
           NEW g, g = RefsFilled(wide, place)
    PROVE  /\ HeapFits(g) /\ g.top = wide.top
           /\ \A i \in 0 .. low - 1 : g.cell[i] = wide.cell[i]
           /\ \A r \in DOMAIN place : /\ g.cell[RefCell(r)] = place[r]
                                      /\ g.cell[RefCell(r) + 1] = Length(chars, place[r])
<1>1. PICK V, C, T, size :
        /\ T \in Nat \ {0} /\ size \in Nat
        /\ wide = [cell |-> C, top |-> T]
        /\ Capacity(wide) = size /\ T <= size
        /\ C \in [0 .. size - 1 -> V]
        /\ DOMAIN C = 0 .. size - 1
        /\ \A i \in T .. size - 1 : C[i] = 0
    BY HeapHas
<1>2. wide.cell = C /\ wide.top = T
    BY <1>1
<1>3. ASSUME NEW r \in DOMAIN place
      PROVE  /\ r \in Int /\ RefCell(r) = 1 + 2 * (r - 1) /\ RefCell(r) \in low .. T - 2
             /\ RefCell(r) \in DOMAIN C /\ RefCell(r) + 1 \in DOMAIN C
    <2>1. r \in Int /\ low <= RefCell(r) /\ RefCell(r) + 1 < T
        BY <1>2
    <2>2. RefCell(r) = 1 + 2 * (r - 1)
        BY DEF RefCell
    <2>3. PICK c \in Int : c = RefCell(r)
        BY <2>1, <2>2
    <2>4. c \in low .. T - 2 /\ c \in 0 .. size - 1 /\ c + 1 \in 0 .. size - 1
        BY <1>1, <2>1, <2>3
    <2> QED  BY <1>1, <2>1, <2>2, <2>3, <2>4
<1>4. ASSUME NEW r \in DOMAIN place, NEW s \in DOMAIN place, NEW c,
             c \in {RefCell(r), RefCell(r) + 1}, c \in {RefCell(s), RefCell(s) + 1}
      PROVE  r = s
    <2>1. r \in Int /\ s \in Int
        BY <1>3
    <2> QED  BY <1>4, <2>1 DEF RefCell
<1> DEFINE Hit(c) == \E r \in DOMAIN place : c \in {RefCell(r), RefCell(r) + 1}
           At(c) == CHOOSE s \in DOMAIN place : c \in {RefCell(s), RefCell(s) + 1}
           Filled(c) == IF c = RefCell(At(c)) THEN place[At(c)] ELSE Length(chars, place[At(c)])
           cells == [c \in DOMAIN C |-> IF Hit(c) THEN Filled(c) ELSE C[c]]
<1>5. ASSUME NEW r \in DOMAIN place, NEW c, c \in {RefCell(r), RefCell(r) + 1}
      PROVE  Hit(c) /\ At(c) = r
    <2>1. Hit(c)
        BY <1>5
    <2>2. At(c) \in DOMAIN place /\ c \in {RefCell(At(c)), RefCell(At(c)) + 1}
        BY <2>1
    <2> HIDE DEF At, Hit
    <2> QED  BY <1>4, <1>5, <2>1, <2>2
<1>6. g = [cell |-> cells, top |-> T]
    BY <1>1, <1>2 DEF RefsFilled
<1>7. DOMAIN cells = 0 .. size - 1 /\ \A c \in DOMAIN C : cells[c] = IF Hit(c) THEN Filled(c) ELSE C[c]
    BY <1>1
<1>8. PICK W : cells \in [0 .. size - 1 -> W]
    <2>1. cells \in [0 .. size - 1 -> {cells[c] : c \in 0 .. size - 1}]
        BY <1>7
    <2> QED  BY <2>1
<1> HIDE DEF cells, Filled
<1>9. ASSUME NEW c, c \in 0 .. low - 1 \/ c \in T .. size - 1 PROVE ~Hit(c)
    BY <1>1, <1>3, <1>9
<1>10. g.cell = cells /\ g.top = T
    BY <1>6
<1> HIDE DEF At
<1>11. ASSUME NEW r \in DOMAIN place
       PROVE  g.cell[RefCell(r)] = place[r] /\ g.cell[RefCell(r) + 1] = Length(chars, place[r])
    <2>1. PICK c, d : c = RefCell(r) /\ d = RefCell(r) + 1
        OBVIOUS
    <2>2. c \in Int /\ c \in DOMAIN C /\ d \in DOMAIN C /\ d = c + 1
        BY <1>3, <2>1
    <2>3. Hit(c) /\ At(c) = r /\ Hit(d) /\ At(d) = r
        BY <1>5, <2>1
    <2> HIDE DEF Hit
    <2>4. cells[c] = Filled(c) /\ cells[d] = Filled(d)
        BY <1>7, <2>2, <2>3
    <2>5. c # d
        BY <2>2
    <2>6. Filled(c) = place[r] /\ Filled(d) = Length(chars, place[r])
        BY <2>1, <2>3, <2>5 DEF Filled
    <2> QED  BY <1>10, <2>1, <2>4, <2>6
<1>12. \A i \in T .. size - 1 : i \in DOMAIN C /\ C[i] = 0
    BY <1>1
<1>13. \A i \in 0 .. low - 1 : i \in DOMAIN C
    BY <1>1, <1>2
<1>14. (\A i \in T .. size - 1 : ~Hit(i)) /\ \A i \in 0 .. low - 1 : ~Hit(i)
    BY <1>9
<1> HIDE DEF Hit
<1>15. \A i \in T .. size - 1 : cells[i] = 0
    BY <1>7, <1>12, <1>14
<1>16. HeapFits(g)
    <2>1. size \in Nat /\ T \in Nat \ {0} /\ T <= size
        BY <1>1
    <2>2. HeapFits([cell |-> cells, top |-> T])
        BY <1>8, <1>15, <2>1, HeapIs
    <2> QED  BY <1>6, <2>2
<1>17. \A i \in 0 .. low - 1 : g.cell[i] = wide.cell[i]
    BY <1>2, <1>7, <1>10, <1>13, <1>14
<1> QED  BY <1>2, <1>10, <1>11, <1>16, <1>17

\* The references of a copy are new ones behind all others, and all there are then.
LEMMA RefsFilledIs ==
    ASSUME NEW R, HeapFits(R), RefCell(NextRef(R)) = R.top, NEW q \in Nat, NEW wide, wide = IncreaseHeap(R, 2 * q),
           NEW place, \A r \in DOMAIN place : r \in Int /\ NextRef(R) <= r /\ r < NextRef(R) + q,
           NEW g, g = RefsFilled(wide, place)
    PROVE  /\ HeapFits(g) /\ Grown(R, g) /\ RefCell(NextRef(g)) = g.top
           /\ NextRef(R) \in Nat \ {0}
           /\ \A r \in DOMAIN place : /\ RefCell(r) + 1 < g.top
                                      /\ g.cell[RefCell(r)] = place[r]
                                      /\ g.cell[RefCell(r) + 1] = Length(chars, place[r])
<1>1. R.top \in Nat \ {0}
    BY DEF HeapFits
<1>2. PICK k, low : k = NextRef(R) /\ low = R.top
    OBVIOUS
<1>3. k \in Nat \ {0} /\ low = 1 + 2 * (k - 1)
    BY <1>1, <1>2 DEF NextRef, RefCell
<1>4. PICK m \in Nat : m = 2 * q
    OBVIOUS
<1>5. HeapFits(wide) /\ wide.top = low + m /\ \A i \in 0 .. low - 1 : wide.cell[i] = R.cell[i]
    BY <1>2, <1>4, IncreaseFits
<1>6. ASSUME NEW r \in DOMAIN place PROVE r \in Int /\ low <= RefCell(r) /\ RefCell(r) + 1 < wide.top
    <2>1. r \in Int /\ k <= r /\ r < k + q
        BY <1>2
    <2> QED  BY <1>3, <1>4, <1>5, <2>1 DEF RefCell
<1>7. low \in Nat /\ low <= wide.top
    BY <1>1, <1>2, <1>5
<1>8. /\ HeapFits(g) /\ g.top = wide.top
      /\ \A i \in 0 .. low - 1 : g.cell[i] = wide.cell[i]
      /\ \A r \in DOMAIN place : /\ g.cell[RefCell(r)] = place[r]
                                 /\ g.cell[RefCell(r) + 1] = Length(chars, place[r])
    BY <1>5, <1>6, <1>7, RefsFilledFits
<1>9. Grown(R, g)
    BY <1>2, <1>5, <1>7, <1>8 DEF Grown
<1>10. RefCell(NextRef(g)) = g.top
    <2>1. PICK x \in Nat : x = k + q
        BY <1>3
    <2>2. g.top = 1 + 2 * (x - 1)
        BY <1>3, <1>4, <1>5, <1>8, <2>1
    <2> QED  BY <2>1, <2>2 DEF NextRef, RefCell
<1> QED  BY <1>2, <1>3, <1>6, <1>8, <1>9, <1>10

\* The cell of place i in the structure at a
Field(h, a, i) == h.cell[a + i]

\* The features whose strings a copy needs references for, and those it gets
OwnStrings(h, t, a, n) == {i \in 1 .. n : IsString(FeaturesOf[t][i]) /\ Field(h, a, i) # 0}
\* The new reference of feature i
OwnRef(own, i) == NextRef(refs) + Cardinality({j \in own : j < i})
\* Where the new references lead to: the places of the strings that are copied
OwnPlaces(h, a, own) ==
    [r \in {OwnRef(own, i) : i \in own} |->
        refs.cell[RefCell(Field(h, a, CHOOSE i \in own : OwnRef(own, i) = r))]]
\* The cells of the copy at k, made from the structure at a
CopiedCells(h, t, k, a, n, own) ==
    [i \in 1 .. n |-> IF i \in own THEN OwnRef(own, i)
                      ELSE IF IsString(FeaturesOf[t][i]) THEN Field(h, k, i)
                      ELSE Field(h, a, i)]

\* What is copied, in these terms.
LEMMA CopyIs ==
    ASSUME NEW h, NEW k, NEW a, NEW count, NEW t, t = h.cell[k],
           NEW n, n = IF count = 0 THEN Len(FeaturesOf[t]) ELSE count,
           NEW own, own = OwnStrings(h, t, a, n)
    PROVE  /\ CopyFeatures(h, refs, k, a, count).heap = SetCells(h, k + 1, CopiedCells(h, t, k, a, n, own))
           /\ CopyFeatures(h, refs, k, a, count).refs =
                  RefsFilled(IncreaseHeap(refs, 2 * Cardinality(own)), OwnPlaces(h, a, own))
<1> DEFINE T == h.cell[k]
           M == IF count = 0 THEN Len(FeaturesOf[T]) ELSE count
           O == OwnStrings(h, T, a, M)
           copy == [heap |-> SetCells(h, k + 1, CopiedCells(h, T, k, a, M, O)),
                    refs |-> RefsFilled(IncreaseHeap(refs, 2 * Cardinality(O)), OwnPlaces(h, a, O))]
<1>1. CopyFeatures(h, refs, k, a, count) = copy
    BY Zenon DEF CopyFeatures, CopiedCells, OwnStrings, OwnRef, OwnPlaces, RefsFilled, Field
<1>2. /\ copy.heap = SetCells(h, k + 1, CopiedCells(h, T, k, a, M, O))
      /\ copy.refs = RefsFilled(IncreaseHeap(refs, 2 * Cardinality(O)), OwnPlaces(h, a, O))
    OBVIOUS
<1>3. T = t /\ M = n /\ O = own
    OBVIOUS
<1> HIDE DEF copy, T, M, O
<1> QED  BY <1>1, <1>2, <1>3

\* New references are counted from the end of the table.
LEMMA OwnRefsAre ==
    ASSUME NextRef(refs) \in Nat, NEW n \in Nat, NEW own \in SUBSET (1 .. n), NEW q, q = Cardinality(own)
    PROVE  /\ q \in Nat
           /\ \A i \in own : OwnRef(own, i) \in Nat /\ NextRef(refs) <= OwnRef(own, i) /\ OwnRef(own, i) < NextRef(refs) + q
           /\ \A i, j \in own : OwnRef(own, i) = OwnRef(own, j) => i = j
<1> DEFINE Rank(i) == Cardinality({j \in own : j < i})
<1>1. /\ q \in Nat /\ \A i \in own : Rank(i) \in 0 .. q - 1
      /\ \A i, j \in own : i < j => Rank(i) < Rank(j)
    BY RankIs
<1>2. \A i \in own : OwnRef(own, i) = NextRef(refs) + Rank(i)
    BY DEF OwnRef
<1>3. PICK next \in Nat : next = NextRef(refs)
    OBVIOUS
<1> HIDE DEF Rank
<1>4. \A i, j \in own : OwnRef(own, i) = OwnRef(own, j) => i = j
    <2> SUFFICES ASSUME NEW i \in own, NEW j \in own, next + Rank(i) = next + Rank(j) PROVE i = j
        BY <1>2, <1>3
    <2>1. Rank(i) = Rank(j) /\ Rank(i) \in Int /\ i \in Int /\ j \in Int
        BY <1>1
    <2> QED  BY <1>1, <2>1
<1>5. \A i \in own : OwnRef(own, i) \in Nat /\ next <= OwnRef(own, i) /\ OwnRef(own, i) < next + q
    BY <1>1, <1>2, <1>3
<1> QED  BY <1>1, <1>3, <1>4, <1>5

\* Of the m cells behind the one at k in h the first ones become values in g.
WrittenAfter(h, g, k, m, values) ==
    /\ h.top >= k + (m + 1)
    /\ Len(values) \in Nat /\ Len(values) <= m
    /\ g = SetCells(h, k + 1, values)

\* The others stay.
OthersStay(h, g, k, m, values) ==
    /\ g.top = h.top
    /\ \A i \in 0 .. k : g.cell[i] = h.cell[i]
    /\ \A i \in 1 .. m : Field(g, k, i) = IF i <= Len(values) THEN values[i] ELSE Field(h, k, i)

\* That is so on a heap that fits, which the other one then does too.
LEMMA CellsAfter ==
    ASSUME NEW k \in Nat, NEW m \in Nat, NEW values, NEW h, HeapFits(h), NEW g, WrittenAfter(h, g, k, m, values)
    PROVE  HeapFits(g) /\ OthersStay(h, g, k, m, values)
<1>1. PICK at \in Nat : at = k + 1
    OBVIOUS
<1>2. Len(values) \in Nat /\ Len(values) <= m /\ at + Len(values) <= h.top /\ h.top \in Nat /\ k + m < h.top
    BY <1>1 DEF HeapFits, WrittenAfter
<1>3. /\ HeapFits(SetCells(h, at, values)) /\ SetCells(h, at, values).top = h.top
      /\ \A i \in 0 .. h.top - 1 : SetCells(h, at, values).cell[i] =
            IF i \in at .. at + Len(values) - 1 THEN values[i - at + 1] ELSE h.cell[i]
    BY <1>2, SetCellsFits
<1>4. g = SetCells(h, at, values)
    BY <1>1 DEF WrittenAfter
<1>5. PICK l, last : l = Len(values) /\ last = h.top
    OBVIOUS
<1>6. HeapFits(g) /\ g.top = h.top
      /\ \A i \in 0 .. last - 1 : g.cell[i] = IF i \in at .. at + l - 1 THEN values[i - at + 1] ELSE h.cell[i]
    BY <1>3, <1>4, <1>5
<1>7. l \in Nat /\ l <= m /\ last \in Nat /\ k + m < last
    BY <1>2, <1>5
<1>8. ASSUME NEW i \in 0 .. k PROVE g.cell[i] = h.cell[i]
    <2>1. i \in 0 .. last - 1 /\ i \notin at .. at + l - 1
        BY <1>1, <1>7
    <2> QED  BY <1>6, <2>1
<1>9. ASSUME NEW i \in 1 .. m PROVE Field(g, k, i) = IF i <= l THEN values[i] ELSE Field(h, k, i)
    <2>1. PICK c : c = k + i
        OBVIOUS
    <2>2. c \in 0 .. last - 1 /\ (c \in at .. at + l - 1 <=> i <= l) /\ c - at + 1 = i
        BY <1>1, <1>7, <2>1
    <2>3. g.cell[c] = IF i <= l THEN values[i] ELSE h.cell[c]
        BY <1>6, <2>2
    <2> QED  BY <2>1, <2>3 DEF Field
<1> QED  BY <1>5, <1>6, <1>8, <1>9 DEF OthersStay

\* The references are counted by the pairs of cells of the table.
LEMMA NextIs ==
    ASSUME NEW R, HeapFits(R), RefCell(NextRef(R)) = R.top
    PROVE  NextRef(R) \in Nat \ {0} /\ R.top = 1 + 2 * (NextRef(R) - 1) /\ R.top \in Nat
<1>1. PICK k, low : k = NextRef(R) /\ low = R.top
    OBVIOUS
<1>2. low \in Nat \ {0}
    BY <1>1 DEF HeapFits
<1> QED  BY <1>1, <1>2 DEF NextRef, RefCell

\* Zero stands for all features.
Counted(count, m, n) == n = IF count = 0 THEN m ELSE count

\* A copy of n features behind all that is there: strings have references of their own, the cells of
\* other features are the same.
CopyFollows(g, R, t, k, a, n, m) ==
    /\ HeapFits(g) /\ Grown(heap, g) /\ g.cell[k] = t /\ g.top = k + (m + 1)
    /\ HeapFits(R) /\ Grown(refs, R) /\ RefCell(NextRef(R)) = R.top
    /\ \A i \in 1 .. n : IsString(FeaturesOf[t][i]) /\ Field(heap, a, i) # 0 =>
         LET r == Field(g, k, i)
             p == refs.cell[RefCell(Field(heap, a, i))]
         IN /\ r \in Nat \ {0} /\ RefCell(r) >= refs.top /\ RefCell(r) + 1 < R.top
            /\ R.cell[RefCell(r)] = p /\ R.cell[RefCell(r) + 1] = Length(chars, p)
            /\ \A j \in 1 .. n : IsString(FeaturesOf[t][j]) /\ Field(heap, a, j) # 0 /\ Field(g, k, j) = r
                                     => j = i
    /\ \A i \in 1 .. n : ~(IsString(FeaturesOf[t][i]) /\ Field(heap, a, i) # 0) =>
         Field(g, k, i) = IF IsString(FeaturesOf[t][i]) THEN 0 ELSE Field(heap, a, i)
    /\ \A i \in n + 1 .. m : Field(g, k, i) = 0

\* A copy into a new structure has the cells and the references that CopyFollows names.
LEMMA CopyMade ==
    ASSUME HeapsAreFit, NEW t \in Types, NEW k \in Nat, k = heap.top, NEW a \in Nat, NEW m \in Nat, m = Len(FeaturesOf[t]),
           NEW n \in Nat, n <= m, a + n < k, NEW count, Counted(count, m, n),
           NEW copy, copy = CopyFeatures(CreateFS(heap, t), refs, k, a, count)
    PROVE  CopyFollows(copy.heap, copy.refs, t, k, a, n, m)
<1>1. HeapFits(heap) /\ HeapFits(refs) /\ RefCell(NextRef(refs)) = refs.top
    BY DEF HeapsAreFit
<1>2. k \in Nat \ {0} /\ refs.top \in Nat \ {0}
    BY <1>1 DEF HeapFits
<1>3. PICK h : h = CreateFS(heap, t)
    OBVIOUS
<1>4. /\ HeapFits(h) /\ Grown(heap, h) /\ m \in Nat /\ h.top = k + (m + 1)
      /\ h.cell[k] = t
      /\ \A x \in 1 .. m : Field(h, k, x) = 0
    <2>1. \A x \in 1 .. m : Field(h, k, x) = h.cell[k + x]
        BY DEF Field
    <2> QED  BY <1>1, <1>3, <2>1, CreateFSFits
<1>5. PICK own : own = OwnStrings(h, t, a, n)
    OBVIOUS
<1>6. PICK values, place, q : values = CopiedCells(h, t, k, a, n, own) /\ place = OwnPlaces(h, a, own) /\ q = Cardinality(own)
    OBVIOUS
<1>7. copy.heap = SetCells(h, k + 1, values) /\ copy.refs = RefsFilled(IncreaseHeap(refs, 2 * q), place)
    <2>1. t = h.cell[k] /\ n = IF count = 0 THEN Len(FeaturesOf[t]) ELSE count
        BY <1>4 DEF Counted
    <2>2. copy = CopyFeatures(h, refs, k, a, count)
        BY <1>3
    <2> QED  BY <1>5, <1>6, <2>1, <2>2, CopyIs
<1>8. \A i \in 1 .. n : Field(h, a, i) = Field(heap, a, i)
    <2> SUFFICES ASSUME NEW i \in 1 .. n PROVE a + i \in 0 .. k - 1
        BY <1>4 DEF Grown, Field
    <2> QED  BY <1>2
<1>9. own \in SUBSET (1 .. n) /\ \A i \in 1 .. n : i \in own <=> IsString(FeaturesOf[t][i]) /\ Field(heap, a, i) # 0
    BY <1>5, <1>8 DEF OwnStrings
<1>10. NextRef(refs) \in Nat \ {0}
    BY <1>1, NextIs
<1>11. /\ q \in Nat
       /\ \A i \in own : OwnRef(own, i) \in Nat /\ NextRef(refs) <= OwnRef(own, i) /\ OwnRef(own, i) < NextRef(refs) + q
       /\ \A i, j \in own : OwnRef(own, i) = OwnRef(own, j) => i = j
    BY <1>6, <1>9, <1>10, OwnRefsAre
<1>12. /\ DOMAIN place = {OwnRef(own, i) : i \in own}
       /\ \A i \in own : place[OwnRef(own, i)] = refs.cell[RefCell(Field(heap, a, i))]
    <2>1. DOMAIN place = {OwnRef(own, i) : i \in own}
        BY <1>6 DEF OwnPlaces
    <2>2. ASSUME NEW i \in own PROVE place[OwnRef(own, i)] = refs.cell[RefCell(Field(heap, a, i))]
        <3>1. PICK j : j = CHOOSE x \in own : OwnRef(own, x) = OwnRef(own, i)
            OBVIOUS
        <3>2. j = i
            BY <1>11, <3>1
        <3>3. place[OwnRef(own, i)] = refs.cell[RefCell(Field(h, a, j))]
            BY <1>6, <3>1 DEF OwnPlaces
        <3> QED  BY <1>8, <1>9, <3>2, <3>3
    <2> QED  BY <2>1, <2>2
<1>13. /\ HeapFits(copy.refs) /\ Grown(refs, copy.refs) /\ RefCell(NextRef(copy.refs)) = copy.refs.top
       /\ \A r \in DOMAIN place : /\ RefCell(r) + 1 < copy.refs.top
                                  /\ copy.refs.cell[RefCell(r)] = place[r]
                                  /\ copy.refs.cell[RefCell(r) + 1] = Length(chars, place[r])
    <2>1. PICK R, wide, g : R = refs /\ wide = IncreaseHeap(R, 2 * q) /\ g = copy.refs
        OBVIOUS
    <2>2. g = RefsFilled(wide, place) /\ HeapFits(R) /\ RefCell(NextRef(R)) = R.top
        BY <1>1, <1>7, <2>1
    <2>3. \A r \in DOMAIN place : r \in Int /\ NextRef(R) <= r /\ r < NextRef(R) + q
        BY <1>11, <1>12, <2>1
    <2>4. /\ HeapFits(g) /\ Grown(R, g) /\ RefCell(NextRef(g)) = g.top
          /\ \A r \in DOMAIN place : /\ RefCell(r) + 1 < g.top
                                     /\ g.cell[RefCell(r)] = place[r]
                                     /\ g.cell[RefCell(r) + 1] = Length(chars, place[r])
        BY <1>11, <2>1, <2>2, <2>3, RefsFilledIs
    <2> QED  BY <2>1, <2>4
<1>14. /\ Len(values) = n
       /\ \A i \in 1 .. n : values[i] = IF i \in own THEN OwnRef(own, i)
                                        ELSE IF IsString(FeaturesOf[t][i]) THEN 0 ELSE Field(heap, a, i)
    <2>1. values = [i \in 1 .. n |-> IF i \in own THEN OwnRef(own, i)
                                     ELSE IF IsString(FeaturesOf[t][i]) THEN Field(h, k, i) ELSE Field(h, a, i)]
        BY <1>6 DEF CopiedCells
    <2>2. \A i \in 1 .. n : Field(h, k, i) = 0
        BY <1>4
    <2>3. Len(values) = n
        BY <2>1
    <2> QED  BY <1>8, <2>1, <2>2, <2>3
<1>15. PICK g : g = copy.heap
    OBVIOUS
<1>16. /\ HeapFits(g) /\ g.top = h.top
       /\ \A i \in 0 .. k : g.cell[i] = h.cell[i]
       /\ \A i \in 1 .. m : Field(g, k, i) = IF i <= n THEN values[i] ELSE Field(h, k, i)
    <2>1. HeapFits(h)
        BY <1>4
    <2>2. WrittenAfter(h, g, k, m, values)
        BY <1>4, <1>7, <1>14, <1>15 DEF WrittenAfter
    <2>3. HeapFits(g) /\ OthersStay(h, g, k, m, values)
        BY <2>1, <2>2, CellsAfter
    <2>4. Len(values) = n
        BY <1>14
    <2> QED  BY <2>3, <2>4 DEF OthersStay
<1>17. Grown(heap, g) /\ g.cell[k] = t /\ g.top = k + (m + 1)
    <2>1. g.cell[k] = h.cell[k] /\ k \in Nat
        BY <1>2, <1>16
    <2>2. Grown(heap, h) /\ h.top = k + (m + 1) /\ \A i \in 0 .. k - 1 : g.cell[i] = h.cell[i]
        BY <1>2, <1>4, <1>16
    <2>3. g.top = h.top /\ h.cell[k] = t
        BY <1>4, <1>16
    <2> QED  BY <2>1, <2>2, <2>3 DEF Grown
<1>18. ASSUME NEW i \in 1 .. n PROVE Field(g, k, i) = values[i]
    BY <1>16
<1>19. ASSUME NEW i \in n + 1 .. m PROVE Field(g, k, i) = 0
    <2>1. i \in 1 .. m /\ ~(i <= n)
        OBVIOUS
    <2> QED  BY <1>4, <1>16, <2>1
<1>20. ASSUME NEW i \in own
       PROVE  LET r == Field(g, k, i)
                  p == refs.cell[RefCell(Field(heap, a, i))]
              IN /\ r \in Nat \ {0} /\ RefCell(r) >= refs.top /\ RefCell(r) + 1 < copy.refs.top
                 /\ copy.refs.cell[RefCell(r)] = p /\ copy.refs.cell[RefCell(r) + 1] = Length(chars, p)
                 /\ \A j \in own : Field(g, k, j) = r => j = i
    <2>1. PICK r : r = OwnRef(own, i)
        OBVIOUS
    <2>2. Field(g, k, i) = r /\ \A j \in own : Field(g, k, j) = OwnRef(own, j)
        BY <1>9, <1>14, <1>18, <2>1
    <2>3. r \in DOMAIN place /\ place[r] = refs.cell[RefCell(Field(heap, a, i))] /\ r \in Nat /\ NextRef(refs) <= r
        BY <1>11, <1>12, <2>1
    <2>4. r \in Nat \ {0} /\ RefCell(r) >= refs.top
        <3>1. PICK next \in Nat \ {0} : next = NextRef(refs)
            BY <1>10
        <3>2. next <= r /\ RefCell(r) = 1 + 2 * (r - 1) /\ refs.top = 1 + 2 * (next - 1)
            BY <1>1, <2>3, <3>1 DEF RefCell
        <3> QED  BY <2>3, <3>1, <3>2
    <2>5. \A j \in own : OwnRef(own, j) = r => j = i
        BY <1>11, <2>1
    <2> QED  BY <1>13, <2>2, <2>3, <2>4, <2>5
<1>21. ASSUME NEW i \in 1 .. n, ~(IsString(FeaturesOf[t][i]) /\ Field(heap, a, i) # 0)
       PROVE  Field(g, k, i) = IF IsString(FeaturesOf[t][i]) THEN 0 ELSE Field(heap, a, i)
    BY <1>9, <1>14, <1>18, <1>21
<1>22. ASSUME NEW i \in 1 .. n, IsString(FeaturesOf[t][i]) /\ Field(heap, a, i) # 0
       PROVE  LET r == Field(g, k, i)
                  p == refs.cell[RefCell(Field(heap, a, i))]
              IN /\ r \in Nat \ {0} /\ RefCell(r) >= refs.top /\ RefCell(r) + 1 < copy.refs.top
                 /\ copy.refs.cell[RefCell(r)] = p /\ copy.refs.cell[RefCell(r) + 1] = Length(chars, p)
                 /\ \A j \in 1 .. n : IsString(FeaturesOf[t][j]) /\ Field(heap, a, j) # 0 /\ Field(g, k, j) = r
                                          => j = i
    BY <1>9, <1>20, <1>22
<1>23. HeapFits(g)
    BY <1>16
<1>24. /\ HeapFits(copy.heap) /\ Grown(heap, copy.heap) /\ copy.heap.cell[k] = t /\ copy.heap.top = k + (m + 1)
       /\ HeapFits(copy.refs) /\ Grown(refs, copy.refs) /\ RefCell(NextRef(copy.refs)) = copy.refs.top
    BY <1>13, <1>15, <1>17, <1>23
<1>25. \A i \in n + 1 .. m : Field(copy.heap, k, i) = 0
    BY <1>15, <1>19
<1>26. \A i \in 1 .. n : ~(IsString(FeaturesOf[t][i]) /\ Field(heap, a, i) # 0) =>
          Field(copy.heap, k, i) = IF IsString(FeaturesOf[t][i]) THEN 0 ELSE Field(heap, a, i)
    BY <1>15, <1>21
<1> QED  BY <1>15, <1>22, <1>24, <1>25, <1>26 DEF CopyFollows

\* The copy of a cell holds what the cell held.
LEMMA CopiedCell ==
    ASSUME chars.top \in Nat, NEW w, NEW c, CellFits(refs, chars, longs, w, c), NEW f,
           IsString(f) => w.kind \in {"string", "unset"}, ~IsString(f) => w.kind # "string", NEW R, NEW r,
           IsString(f) /\ c # 0 => LET p == refs.cell[RefCell(c)]
                           IN /\ r \in Nat \ {0} /\ RefCell(r) + 1 < R.top
                              /\ R.cell[RefCell(r)] = p /\ R.cell[RefCell(r) + 1] = Length(chars, p),
           ~(IsString(f) /\ c # 0) => r = IF IsString(f) THEN 0 ELSE c
    PROVE  /\ CellFits(R, chars, longs, w, r)
           /\ w.kind = "string" => IsString(f) /\ c # 0
           /\ w.kind = "long" => r = c
<1>1. CASE w.kind = "string"
    <2>1. StringFits(refs, chars, c, w.v) /\ IsString(f)
        BY <1>1 DEF CellFits
    <2>2. PICK s, p : s = w.v /\ p = refs.cell[RefCell(c)]
        OBVIOUS
    <2>3. c # 0 /\ TextFits(chars, p, s)
        BY <2>1, <2>2 DEF StringFits, TextFits
    <2>4. Length(chars, p) = Len(s) /\ Len(s) \in Nat
        BY <2>3, LengthIs
    <2>5. r \in Nat \ {0} /\ RefCell(r) + 1 < R.top /\ R.cell[RefCell(r)] = p /\ R.cell[RefCell(r) + 1] = Len(s)
        BY <2>1, <2>2, <2>3, <2>4
    <2>6. StringFits(R, chars, r, s)
        BY <2>3, <2>5 DEF StringFits, TextFits
    <2> QED  BY <1>1, <2>1, <2>2, <2>3, <2>6 DEF CellFits
<1>2. CASE w.kind # "string"
    <2>1. CASE IsString(f)
        <3>1. w.kind = "unset" /\ c = 0 /\ r = 0
            BY <1>2, <2>1 DEF CellFits
        <3> QED  BY <3>1 DEF CellFits
    <2>2. CASE ~IsString(f)
        BY <1>2, <2>2 DEF CellFits
    <2> QED  BY <2>1, <2>2
<1> QED  BY <1>1, <1>2

\* Types t and u have the same first n features.
SameFeatures(t, u, n) ==
    /\ n <= Len(FeaturesOf[t]) /\ n <= Len(FeaturesOf[u])
    /\ \A i \in 1 .. n : FeaturesOf[t][i] = FeaturesOf[u][i]

\* The slots of type t with what object a has in its first n
SlotsCopied(slots, a, t, n) ==
    /\ DOMAIN slots = {FeaturesOf[t][i] : i \in DOMAIN FeaturesOf[t]}
    /\ \A i \in 1 .. Len(FeaturesOf[t]) :
         slots[FeaturesOf[t][i]] = IF i <= n THEN stored[a].slots[FeaturesOf[t][i]] ELSE Unset

\* A new object that has the first n features of object a, and nothing in its others
LEMMA CopyFits ==
    ASSUME NEW N, Fits(N), NEW k \in Nat, k = heap.top, NEW a \in Objects, NEW t \in Creatable,
           NEW m \in Nat, m = Len(FeaturesOf[t]), NEW n \in Nat,
           stored[a].type \in Creatable, SameFeatures(t, stored[a].type, n),
           NEW count, Counted(count, m, n),
           NEW copy, copy = CopyFeatures(CreateFS(heap, t), refs, k, a, count), heap' = copy.heap, refs' = copy.refs,
           chars' = chars, longs' = longs, bytes' = bytes, list' = list,
           NEW slots, SlotsCopied(slots, a, t, n), stored' = With(stored, k, [type |-> t, slots |-> slots])
    PROVE  Fits(N)'
<1>0. PICK S, S2, D : S = Objects \cup N /\ S2 = S \cup {k} /\ D = SlotsOf(k)'
    OBVIOUS
<1>1. /\ n <= m /\ DOMAIN slots = {FeaturesOf[t][i] : i \in DOMAIN FeaturesOf[t]}
      /\ \A i \in 1 .. m : slots[FeaturesOf[t][i]] = IF i <= n THEN stored[a].slots[FeaturesOf[t][i]] ELSE Unset
    BY DEF SlotsCopied, SameFeatures
<1>2. PICK u \in Creatable : /\ u = stored[a].type /\ n <= Len(FeaturesOf[u])
                             /\ \A i \in 1 .. n : FeaturesOf[t][i] = FeaturesOf[u][i]
    BY DEF SameFeatures
<1> USE <1>1, <1>2
<1>3. /\ HeapsAreFit /\ HeapFits(heap) /\ Layout(heap, S) /\ Objects \subseteq S
      /\ ObjectsFit(S) /\ ObjectFits(a, S) /\ a \in S
    BY <1>0 DEF Fits, HeapsAreFit, ObjectsFit
<1>4. /\ t \in Types /\ t \notin Arrays /\ u \in Types /\ u \notin Arrays
      /\ DOMAIN FeaturesOf[t] = 1 .. m /\ DOMAIN FeaturesOf[u] = 1 .. Len(FeaturesOf[u])
    BY TypesAre
<1>5. a \in Nat /\ a + n < k
    <2>1. heap.cell[a] = u
        BY <1>3 DEF ObjectFits
    <2>2. Extent(heap, a) = 1 + Len(FeaturesOf[u])
        BY <1>4, <2>1, TypesAre DEF Extent, SizeOf
    <2>3. a \in Nat /\ a + Extent(heap, a) <= k /\ Len(FeaturesOf[u]) \in Nat
        BY <1>3, <1>4, TypesAre DEF Layout
    <2> QED  BY <2>2, <2>3
<1> DEFINE F(i) == FeaturesOf[t][i]
           Str(i) == IsString(F(i)) /\ Field(heap, a, i) # 0
<1>6. /\ HeapFits(heap') /\ Grown(heap, heap') /\ heap'.cell[k] = t /\ heap'.top = k + (m + 1)
      /\ HeapFits(refs') /\ Grown(refs, refs') /\ RefCell(NextRef(refs')) = refs'.top
      /\ \A i \in 1 .. n : Str(i) =>
           LET r == Field(heap', k, i)
               p == refs.cell[RefCell(Field(heap, a, i))]
           IN /\ r \in Nat \ {0} /\ RefCell(r) >= refs.top /\ RefCell(r) + 1 < refs'.top
              /\ refs'.cell[RefCell(r)] = p /\ refs'.cell[RefCell(r) + 1] = Length(chars, p)
              /\ \A j \in 1 .. n : Str(j) /\ Field(heap', k, j) = r => j = i
      /\ \A i \in 1 .. n : ~Str(i) => Field(heap', k, i) = IF IsString(F(i)) THEN 0 ELSE Field(heap, a, i)
      /\ \A i \in n + 1 .. m : Field(heap', k, i) = 0
    <2>1. CopyFollows(copy.heap, copy.refs, t, k, a, n, m)
        BY <1>3, <1>4, <1>5, CopyMade
    <2>2. CopyFollows(heap', refs', t, k, a, n, m)
        BY <2>1
    <2> QED  BY <2>2 DEF CopyFollows
<1>7. HeapsAreFit' /\ Grown(chars, chars') /\ Grown(longs, longs') /\ Grown(bytes, bytes')
    <2>1. HeapFits(heap') /\ HeapFits(refs') /\ RefCell(NextRef(refs')) = refs'.top
        BY <1>6
    <2>2. HeapFits(chars) /\ HeapFits(longs) /\ HeapFits(bytes)
        BY <1>3 DEF HeapsAreFit
    <2>3. Grown(chars, chars) /\ Grown(longs, longs) /\ Grown(bytes, bytes)
        BY <2>2 DEF HeapFits, Grown
    <2> QED  BY <2>1, <2>2, <2>3 DEF HeapsAreFit
<1>8. stored'[k].type = t /\ stored'[k].slots = slots /\ stored'[k] = [type |-> t, slots |-> slots]
    <2>1. stored'[k] = [type |-> t, slots |-> slots]
        BY DEF With
    <2> QED  BY <2>1
<1>9. SlotsOf(k)' = {F(i) : i \in 1 .. m} /\ SlotsOf(k)' = DOMAIN slots
    <2>1. PICK x : x = heap'.cell[k + 1]
        OBVIOUS
    <2>2. SlotsOf(k)' = SlotsIn(t, x)
        BY <1>8, <2>1 DEF SlotsOf
    <2>3. SlotsIn(t, x) = {FeaturesOf[t][i] : i \in DOMAIN FeaturesOf[t]}
        BY <1>4 DEF SlotsIn
    <2>4. DOMAIN FeaturesOf[t] = 1 .. m
        BY <1>4
    <2> QED  BY <2>2, <2>3, <2>4
<1>10. \A i \in 1 .. m : slots[F(i)] = IF i <= n THEN stored[a].slots[F(i)] ELSE Unset
    OBVIOUS
<1>11. ASSUME NEW i \in 1 .. m PROVE heap'.cell[Pos(k, F(i))'] = Field(heap', k, i)
    <2>1. Place(t, F(i)) = i
        BY <1>4, OffsetIs DEF Place
    <2> HIDE DEF F
    <2> QED  BY <1>8, <2>1 DEF Pos, Field
<1>12. ASSUME NEW i \in 1 .. n
       PROVE  F(i) \in SlotsOf(a) /\ InMain(a) /\ heap.cell[Pos(a, F(i))] = Field(heap, a, i)
    <2>1. F(i) = FeaturesOf[u][i] /\ i \in DOMAIN FeaturesOf[u]
        BY <1>4
    <2>2. Place(u, F(i)) = i
        BY <1>4, <2>1, OffsetIs DEF Place
    <2>3. F(i) \in SlotsOf(a) /\ InMain(a)
        BY <1>4, <2>1, TypesAre DEF SlotsOf, SlotsIn, InMain
    <2> HIDE DEF F
    <2> QED  BY <2>2, <2>3 DEF Pos, Field
<1>13. \A i \in 1 .. n : KindsIn(u, F(i)) = KindsIn(t, F(i))
    BY <1>4 DEF KindsIn
<1>14. \A i \in 1 .. n : Str(i) <=> IsString(F(i)) /\ Field(heap, a, i) # 0
    OBVIOUS
<1>15. \A i \in 1 .. n : KindsIn(t, F(i)) = IF IsString(F(i)) THEN {"string"} ELSE KindsIn(t, F(i)) \ {"string"}
    BY <1>4 DEF KindsIn
<1>16. \A i \in 1 .. m : i \in 1 .. n \/ i \in n + 1 .. m
    OBVIOUS
<1> HIDE DEF F, Str
<1>17. ASSUME NEW i \in 1 .. n, NEW w, w = stored[a].slots[F(i)]
       PROVE  /\ w.kind \in KindsIn(t, F(i)) \cup {"unset"} /\ (w.kind = "fs" => w.v \in S)
              /\ CellFits(refs', chars, longs, w, Field(heap', k, i))
              /\ w.kind = "string" => Str(i)
              /\ w.kind = "long" => Field(heap', k, i) = Field(heap, a, i)
    <2>1. SlotFits(a, F(i), S) /\ InMain(a)
        BY <1>3, <1>12 DEF ObjectFits
    <2>2. ValueFits(u, F(i), w, S) /\ CellFits(refs, chars, longs, w, heap.cell[Pos(a, F(i))])
        BY <1>17, <2>1 DEF SlotFits
    <2>3. w.kind \in KindsIn(t, F(i)) \cup {"unset"} /\ (w.kind = "fs" => w.v \in S)
        BY <1>13, <2>2 DEF ValueFits
    <2>4. PICK c, r, R, f : c = Field(heap, a, i) /\ r = Field(heap', k, i) /\ R = refs' /\ f = F(i)
        OBVIOUS
    <2>5. CellFits(refs, chars, longs, w, c) /\ (Str(i) <=> IsString(f) /\ c # 0)
        BY <1>12, <1>14, <2>2, <2>4
    <2>6. (IsString(f) => w.kind \in {"string", "unset"}) /\ (~IsString(f) => w.kind # "string")
        BY <1>15, <2>3, <2>4
    <2>7. /\ IsString(f) /\ c # 0 => LET p == refs.cell[RefCell(c)]
                             IN /\ r \in Nat \ {0} /\ RefCell(r) + 1 < R.top
                                /\ R.cell[RefCell(r)] = p /\ R.cell[RefCell(r) + 1] = Length(chars, p)
          /\ ~(IsString(f) /\ c # 0) => r = IF IsString(f) THEN 0 ELSE c
        <3>1. CASE IsString(f) /\ c # 0
            <4>1. Str(i)
                BY <2>5, <3>1
            <4> QED  BY <1>6, <2>4, <3>1, <4>1
        <3>2. CASE ~(IsString(f) /\ c # 0)
            <4>1. ~Str(i)
                BY <2>5, <3>2
            <4> QED  BY <1>6, <2>4, <3>2, <4>1
        <3> QED  BY <3>1, <3>2
    <2>8. chars.top \in Nat
        BY <1>3 DEF HeapsAreFit, HeapFits
    <2>9. CellFits(R, chars, longs, w, r) /\ (w.kind = "string" => IsString(f) /\ c # 0) /\ (w.kind = "long" => r = c)
        BY <2>5, <2>6, <2>7, <2>8, CopiedCell
    <2> QED  BY <2>3, <2>4, <2>5, <2>9
<1>18. InMain(k)' /\ stored'[k].type = t /\ t \notin SideArrays
    BY <1>4, <1>8, TypesAre DEF InMain
<1>19. ASSUME NEW i \in 1 .. m
       PROVE  /\ SlotFits(k, F(i), S2)'
              /\ stored'[k].slots[F(i)].kind = "string" => i \in 1 .. n /\ Str(i)
              /\ stored'[k].slots[F(i)].kind = "long" =>
                    /\ i \in 1 .. n /\ Field(heap', k, i) = Field(heap, a, i)
                    /\ stored[a].slots[F(i)].kind = "long"
    <2>1. PICK w, c : w = stored'[k].slots[F(i)] /\ c = Field(heap', k, i)
        OBVIOUS
    <2>2. /\ w.kind \in KindsIn(t, F(i)) \cup {"unset"} /\ (w.kind = "fs" => w.v \in S2)
          /\ CellFits(refs', chars', longs', w, c)
          /\ w.kind = "string" => i \in 1 .. n /\ Str(i)
          /\ w.kind = "long" => /\ i \in 1 .. n /\ c = Field(heap, a, i)
                                /\ stored[a].slots[F(i)].kind = "long"
        <3>1. CASE i \in 1 .. n
            <4>1. w = stored[a].slots[F(i)]
                BY <1>8, <1>10, <2>1, <3>1
            <4> QED  BY <1>0, <1>17, <2>1, <3>1, <4>1
        <3>2. CASE i \in n + 1 .. m
            <4>1. w = Unset /\ c = 0
                BY <1>6, <1>8, <1>10, <2>1, <3>2
            <4>2. w.kind = "unset"
                BY <4>1 DEF Unset
            <4> QED  BY <4>1, <4>2 DEF CellFits
        <3> QED  BY <1>16, <3>1, <3>2
    <2>3. SlotFits(k, F(i), S2)'
        BY <1>11, <1>18, <2>1, <2>2 DEF SlotFits, ValueFits
    <2> QED  BY <2>1, <2>2, <2>3
<1>20. ObjectFits(k, S2)'
    <2>1. \A i \in SlotsOf(k)' : SlotFits(k, i, S2)'
        BY <1>9, <1>19
    <2>2. stored'[k] = [type |-> stored'[k].type, slots |-> stored'[k].slots]
        BY <1>8
    <2>3. stored'[k].type = heap'.cell[k] /\ stored'[k].type \in Creatable \cup Arrays
        BY <1>6, <1>8
    <2>4. DOMAIN stored'[k].slots = SlotsOf(k)'
        BY <1>8, <1>9
    <2>5. stored'[k].type # BooleanArray /\ stored'[k].type # LongArray
        BY <1>18 DEF SideArrays
    <2> QED  BY <2>1, <2>2, <2>3, <2>4, <2>5 DEF ObjectFits
<1>21. SideFresh(k)
    BY <1>18 DEF SideFresh, SideArrays
<1>22. ASSUME NEW i \in 1 .. m, stored'[k].slots[F(i)].kind = "string"
       PROVE  /\ \A b \in Objects : \A j \in SlotsOf(b) :
                    IsSet(b, j, "string") => heap.cell[Pos(b, j)] # heap'.cell[Pos(k, F(i))']
              /\ \A j \in 1 .. m : stored'[k].slots[F(j)].kind = "string"
                                     /\ heap'.cell[Pos(k, F(j))'] = heap'.cell[Pos(k, F(i))'] => j = i
    <2>1. i \in 1 .. n /\ Str(i)
        BY <1>19, <1>22
    <2>2. PICK r : r = Field(heap', k, i)
        OBVIOUS
    <2>3. r \in Nat \ {0} /\ RefCell(r) >= refs.top /\ (\A j \in 1 .. n : Str(j) /\ Field(heap', k, j) = r => j = i)
          /\ heap'.cell[Pos(k, F(i))'] = r /\ refs.top \in Nat
        BY <1>3, <1>6, <1>11, <2>1, <2>2 DEF HeapsAreFit, HeapFits
    <2>4. ASSUME NEW b \in Objects, NEW j \in SlotsOf(b), IsSet(b, j, "string") PROVE heap.cell[Pos(b, j)] # r
        <3>1. PICK q : q = heap.cell[Pos(b, j)]
            OBVIOUS
        <3>2. q \in Nat \ {0} /\ RefCell(q) + 1 < refs.top
            BY <2>4, <3>1, RefsBelow
        <3>3. q # r
            BY <2>3, <3>2, RefsInOrder
        <3> QED  BY <3>1, <3>3
    <2>5. ASSUME NEW j \in 1 .. m, stored'[k].slots[F(j)].kind = "string", heap'.cell[Pos(k, F(j))'] = r PROVE j = i
        BY <1>11, <1>19, <2>3, <2>5
    <2> QED  BY <2>3, <2>4, <2>5
<1>23. ASSUME NEW i \in 1 .. m, stored'[k].slots[F(i)].kind = "long", NEW b \in Objects, stored[b].type = LongArray
       PROVE  OutsideArray(heap'.cell[Pos(k, F(i))'], b)
    <2>1. i \in 1 .. n /\ heap'.cell[Pos(k, F(i))'] = Field(heap, a, i) /\ stored[a].slots[F(i)].kind = "long"
        BY <1>11, <1>19, <1>23
    <2>2. F(i) \in SlotsOf(a) /\ IsSet(a, F(i), "long") /\ heap.cell[Pos(a, F(i))] = Field(heap, a, i)
        BY <1>12, <2>1 DEF IsSet
    <2> QED  BY <1>3, <1>23, <2>1, <2>2 DEF ObjectsFit, LongsApart, OutsideArray
<1>24. NewFits(k, D, S2)
    <2>1. \A d \in D : SlotFits(k, d, S2)'
        BY <1>0, <1>9, <1>19
    <2>2. ASSUME NEW d \in D PROVE \E i \in 1 .. m : d = F(i)
        BY <1>0, <1>9
    <2>3. ASSUME NEW d \in D, IsSet(k, d, "string")'
          PROVE  /\ \A b \in Objects : \A j \in SlotsOf(b) :
                      IsSet(b, j, "string") /\ ~(b = k /\ j \in D) => heap.cell[Pos(b, j)] # heap'.cell[Pos(k, d)']
                 /\ \A e \in D : IsSet(k, e, "string")' /\ heap'.cell[Pos(k, e)'] = heap'.cell[Pos(k, d)'] => e = d
        <3>1. PICK i \in 1 .. m : d = F(i)
            BY <2>2
        <3>2. stored'[k].slots[F(i)].kind = "string"
            BY <2>3, <3>1 DEF IsSet
        <3>3. ASSUME NEW e \in D, IsSet(k, e, "string")', heap'.cell[Pos(k, e)'] = heap'.cell[Pos(k, d)'] PROVE e = d
            <4>1. PICK j \in 1 .. m : e = F(j)
                BY <2>2
            <4>2. stored'[k].slots[F(j)].kind = "string"
                BY <3>3, <4>1 DEF IsSet
            <4> QED  BY <1>22, <3>1, <3>2, <3>3, <4>1, <4>2
        <3> QED  BY <1>22, <3>1, <3>2, <3>3
    <2>4. ASSUME NEW d \in D, IsSet(k, d, "long")', NEW b \in Objects, stored[b].type = LongArray
          PROVE  OutsideArray(heap'.cell[Pos(k, d)'], b)
        <3>1. PICK i \in 1 .. m : d = F(i)
            BY <2>2
        <3>2. stored'[k].slots[F(i)].kind = "long"
            BY <2>4, <3>1 DEF IsSet
        <3> QED  BY <1>23, <2>4, <3>1, <3>2
    <2> QED  BY <2>1, <2>3, <2>4 DEF NewFits
<1>25. heap'.cell[k] \in Types /\ (heap'.cell[k] \in Arrays => heap'.cell[k + 1] \in Nat) /\ heap'.top = k + Extent(heap', k)
    BY <1>4, <1>6, TypesAre DEF Extent, SizeOf
<1> QED  BY <1>0, <1>6, <1>7, <1>20, <1>21, <1>24, <1>25, ObjectMade

\* A clone is of the same type and has all its features.
LEMMA CloneFits ==
    ASSUME Careless = FALSE, NEW N, Fits(N), NEW a, Clone(a)
    PROVE  Fits(N)'
<1>0. PICK S : S = Objects \cup N
    OBVIOUS
<1>1. /\ HeapsAreFit /\ Layout(heap, S) /\ Objects \subseteq S /\ a \in Objects /\ ObjectFits(a, S)
    BY <1>0 DEF Fits, ObjectsFit, Clone
<1>2. PICK t : t = TypeOf(heap, a)
    OBVIOUS
<1>3. t = stored[a].type /\ t \in Creatable /\ t \in Types
    BY <1>1, <1>2, TypesAre DEF Clone, ObjectFits, TypeOf
<1>4. PICK k, m, copy : k = heap.top /\ m = Len(FeaturesOf[t]) /\ copy = CopyFeatures(CreateFS(heap, t), refs, k, a, 0)
    OBVIOUS
<1>5. k \in Nat /\ m \in Nat /\ DOMAIN FeaturesOf[t] = 1 .. m
    BY <1>1, <1>3, <1>4, TypesAre DEF HeapsAreFit, HeapFits
<1>6. heap' = copy.heap /\ refs' = copy.refs /\ chars' = chars /\ longs' = longs /\ bytes' = bytes /\ list' = list
    BY <1>2, <1>4 DEF Clone, Quiet
<1>7. PICK slots : slots = stored[a].slots
    OBVIOUS
<1>8. stored' = With(stored, k, [type |-> t, slots |-> slots])
    <2>1. stored[a] = [type |-> t, slots |-> slots]
        BY <1>1, <1>3, <1>7 DEF ObjectFits
    <2>2. stored' = With(stored, k, [stored[a] EXCEPT !.type = t])
        BY <1>2, <1>4 DEF Clone
    <2>3. [stored[a] EXCEPT !.type = t] = [type |-> t, slots |-> slots]
        BY <2>1
    <2> QED  BY <2>2, <2>3
<1>9. DOMAIN slots = {FeaturesOf[t][i] : i \in DOMAIN FeaturesOf[t]}
    <2>1. DOMAIN slots = SlotsIn(t, heap.cell[a + 1]) /\ t \notin Arrays
        BY <1>1, <1>3, <1>7, TypesAre DEF ObjectFits, SlotsOf
    <2> QED  BY <2>1 DEF SlotsIn
<1>10. SlotsCopied(slots, a, t, m)
    BY <1>4, <1>5, <1>7, <1>9 DEF SlotsCopied
<1>11. Counted(0, m, m)
    BY DEF Counted
<1>12. SameFeatures(t, stored[a].type, m) /\ stored[a].type \in Creatable
    BY <1>3, <1>4, <1>5 DEF SameFeatures
<1> QED  BY <1>1, <1>3, <1>4, <1>5, <1>6, <1>8, <1>10, <1>11, <1>12, CopyFits

\* Types have one most specific common supertype: that of the tree.
LEMMA CommonIs ==
    ASSUME NEW t \in Types, NEW u \in Types, NEW c, c = MostSpecificCommonSupertype(u, t)
    PROVE  c \in Types /\ c \in Supertypes[t] /\ c \in Supertypes[u]
<1>1. \E s \in Supertypes[u] \cap Supertypes[t] : \A r \in Supertypes[u] \cap Supertypes[t] : Subsumes(r, s)
    BY TypesAssumption
<1>2. c \in Supertypes[u] \cap Supertypes[t]
    BY <1>1 DEF MostSpecificCommonSupertype
<1>3. Supertypes[u] \subseteq Types
    BY TypesAssumption
<1> QED  BY <1>2, <1>3

\* The features of a supertype come first.
LEMMA InheritedIs ==
    ASSUME NEW t \in Types, NEW c \in Supertypes[t], c \in Types
    PROVE  /\ Len(FeaturesOf[c]) \in Nat /\ Len(FeaturesOf[c]) <= Len(FeaturesOf[t])
           /\ \A i \in 1 .. Len(FeaturesOf[c]) : FeaturesOf[c][i] = FeaturesOf[t][i]
<1>1. Len(FeaturesOf[c]) \in Nat /\ DOMAIN FeaturesOf[c] = 1 .. Len(FeaturesOf[c])
    BY TypesAre
<1> QED  BY <1>1, OffsetsAreInherited

\* A clone of another type has the features of the common supertype.
LEMMA CloneToFits ==
    ASSUME Careless = FALSE, NEW N, Fits(N), NEW a, NEW t, CloneTo(a, t)
    PROVE  Fits(N)'
<1>0. PICK S : S = Objects \cup N
    OBVIOUS
<1>1. /\ HeapsAreFit /\ Layout(heap, S) /\ Objects \subseteq S /\ a \in Objects /\ ObjectFits(a, S)
    BY <1>0 DEF Fits, ObjectsFit, CloneTo
<1>2. PICK u : u = TypeOf(heap, a)
    OBVIOUS
<1>3. u = stored[a].type /\ u \in Creatable /\ u \in Types /\ t \in Creatable /\ t \in Types /\ t \notin Arrays
    BY <1>1, <1>2, TypesAre DEF CloneTo, ObjectFits, TypeOf
<1>4. PICK c, k, m, n : c = MostSpecificCommonSupertype(u, t) /\ k = heap.top /\ m = Len(FeaturesOf[t]) /\ n = Len(FeaturesOf[c])
    OBVIOUS
<1>5. PICK copy, slots : copy = CopyFeatures(CreateFS(heap, t), refs, k, a, n) /\ slots = ClonedObject(a, t, c).slots
    OBVIOUS
<1>6. k \in Nat /\ m \in Nat /\ DOMAIN FeaturesOf[t] = 1 .. m
    BY <1>1, <1>3, <1>4, TypesAre DEF HeapsAreFit, HeapFits
<1>7. c \in Types /\ c \in Supertypes[t] /\ c \in Supertypes[u]
    BY <1>3, <1>4, CommonIs
<1>8. /\ n \in Nat /\ n <= m /\ n <= Len(FeaturesOf[u])
      /\ \A i \in 1 .. n : FeaturesOf[c][i] = FeaturesOf[t][i]
      /\ \A i \in 1 .. n : FeaturesOf[c][i] = FeaturesOf[u][i]
    BY <1>3, <1>4, <1>7, InheritedIs
<1>9. /\ heap' = copy.heap /\ refs' = copy.refs /\ chars' = chars /\ longs' = longs /\ bytes' = bytes /\ list' = list
      /\ stored' = With(stored, k, ClonedObject(a, t, c)) /\ n # 0
    BY <1>2, <1>4, <1>5 DEF CloneTo, Quiet
<1>10. /\ ClonedObject(a, t, c) = [type |-> t, slots |-> slots]
       /\ DOMAIN slots = {FeaturesOf[t][i] : i \in DOMAIN FeaturesOf[t]}
       /\ \A f \in DOMAIN slots : slots[f] = IF \E i \in DOMAIN FeaturesOf[c] : FeaturesOf[c][i] = f
                                             THEN stored[a].slots[f] ELSE Unset
    BY <1>5 DEF ClonedObject
<1>11. ASSUME NEW i \in 1 .. m
       PROVE  slots[FeaturesOf[t][i]] = IF i <= n THEN stored[a].slots[FeaturesOf[t][i]] ELSE Unset
    <2>1. FeaturesOf[t][i] \in DOMAIN slots /\ DOMAIN FeaturesOf[c] = 1 .. n
        BY <1>4, <1>6, <1>7, <1>10, TypesAre
    <2>2. (\E j \in 1 .. n : FeaturesOf[c][j] = FeaturesOf[t][i]) <=> i <= n
        <3>1. CASE i <= n
            BY <1>8, <3>1
        <3>2. CASE ~(i <= n)
            <4> SUFFICES ASSUME NEW j \in 1 .. n, FeaturesOf[c][j] = FeaturesOf[t][i] PROVE FALSE
                BY <3>2
            <4>1. FeaturesOf[t][j] = FeaturesOf[t][i] /\ j \in 1 .. m
                BY <1>6, <1>8
            <4>2. j = i
                BY <1>3, <1>6, <4>1, TypesAssumption
            <4> QED  BY <3>2, <4>2
        <3> QED  BY <3>1, <3>2
    <2> QED  BY <1>10, <2>1, <2>2
<1>12. Counted(n, m, n)
    BY <1>9 DEF Counted
<1>13. SameFeatures(t, stored[a].type, n) /\ stored[a].type \in Creatable
    BY <1>3, <1>4, <1>8 DEF SameFeatures
<1>14. stored' = With(stored, k, [type |-> t, slots |-> slots]) /\ SlotsCopied(slots, a, t, n)
    BY <1>4, <1>9, <1>10, <1>11 DEF SlotsCopied
<1> QED  BY <1>1, <1>3, <1>4, <1>5, <1>6, <1>8, <1>9, <1>12, <1>13, <1>14, CopyFits

-----------------------------------------------------------------------------
(* Nodes of lists *)

\* The cells of elements and tails of the nodes at N
NodeCells(N) == {p \in Nat : \E b \in N : heap.cell[b] = NEIntList /\ p \in {b + 1, b + 2}}

\* Heap h has come from the main heap by writing nodes at N and making others: it has nodes at M, and
\* those at O have no tail yet.
Chained(h, N, M, O) ==
    /\ HeapFits(h)
    /\ N \subseteq M /\ Objects \cap M = {}
    /\ Layout(h, Objects \cup M)
    /\ HeadersKept(heap, h, Objects \cup N)
    /\ h.top >= heap.top
    /\ \A a \in M : a \notin N => a >= heap.top
    /\ \A p \in 0 .. heap.top - 1 : p \notin NodeCells(N) => h.cell[p] = heap.cell[p]
    /\ \A a \in M : h.cell[a] \in {EIntList, NEIntList}
    /\ \A a \in M : h.cell[a] = NEIntList /\ a \notin O => h.cell[a + 2] \in Objects \cup M

\* The main heap itself is the first of them.
LEMMA ChainedFirst ==
    ASSUME NEW N, Fits(N)
    PROVE  Chained(heap, N, N, {}) /\ heap.top \in Nat \ {0}
<1>1. /\ HeapsAreFit /\ Layout(heap, Objects \cup N) /\ Objects \cap N = {} /\ NodesFit(heap, N, Objects \cup N)
    BY DEF Fits
<1>2. HeapFits(heap) /\ heap.top \in Nat \ {0}
    BY <1>1 DEF HeapsAreFit, HeapFits
<1>3. HeadersKept(heap, heap, Objects \cup N)
    BY DEF HeadersKept
<1>4. /\ \A a \in N : heap.cell[a] \in {EIntList, NEIntList}
      /\ \A a \in N : heap.cell[a] = NEIntList => heap.cell[a + 2] \in Objects \cup N
    BY <1>1 DEF NodesFit
<1> QED  BY <1>1, <1>2, <1>3, <1>4 DEF Chained

\* More nodes may be without a tail.
LEMMA ChainedOpen ==
    ASSUME NEW N, NEW M, NEW O, NEW h, Chained(h, N, M, O), NEW O2, O \subseteq O2
    PROVE  Chained(h, N, M, O2)
    BY DEF Chained

\* A node is made at the top, with or without a tail.
LEMMA ChainedMade ==
    ASSUME NEW N, NEW M, NEW O, NEW h, Chained(h, N, M, O), heap.top \in Nat, NEW k, k = h.top, NEW g, HeapFits(g), Grown(h, g),
           g.cell[k] \in {EIntList, NEIntList}, g.top = k + Extent(g, k),
           NEW M2, M2 = M \cup {k}, NEW O2, O \subseteq O2,
           g.cell[k] = NEIntList /\ k \notin O2 => g.cell[k + 2] \in Objects \cup M2
    PROVE  Chained(g, N, M2, O2) /\ k \in Nat \ {0} /\ g.top > k
<1>0. PICK S, S2, S0 : S = Objects \cup M /\ S2 = Objects \cup M2 /\ S0 = Objects \cup N
    OBVIOUS
<1>1. /\ HeapFits(h) /\ N \subseteq M /\ Objects \cap M = {} /\ Layout(h, S) /\ HeadersKept(heap, h, S0) /\ h.top >= heap.top
      /\ \A a \in M : a \notin N => a >= heap.top
      /\ \A p \in 0 .. heap.top - 1 : p \notin NodeCells(N) => h.cell[p] = heap.cell[p]
      /\ \A a \in M : h.cell[a] \in {EIntList, NEIntList}
      /\ \A a \in M : h.cell[a] = NEIntList /\ a \notin O => h.cell[a + 2] \in S
    BY <1>0 DEF Chained
<1>2. h.top \in Nat \ {0} /\ g.top \in Nat
    BY <1>1 DEF HeapFits
<1>3. k \notin S /\ S2 = S \cup {k} /\ S0 \subseteq S
    BY <1>0, <1>1, <1>2, TopIsFree
<1>4. /\ HeadersKept(h, g, S)
      /\ \A a \in S : h.cell[a] = NEIntList => g.cell[a + 1] = h.cell[a + 1] /\ g.cell[a + 2] = h.cell[a + 2]
    BY <1>1, <1>2, GrownKeeps
<1>5. g.cell[k] \in Types /\ g.cell[k] \notin Arrays /\ Extent(g, k) \in Nat \ {0}
    BY TypesAre, SizeIs DEF Extent
<1>6. Layout(g, S2)
    BY <1>1, <1>2, <1>3, <1>4, <1>5, LayoutGrown
<1>7. HeadersKept(heap, g, S0)
    BY <1>1, <1>3, <1>4 DEF HeadersKept
<1>8. ASSUME NEW p \in 0 .. heap.top - 1, p \notin NodeCells(N) PROVE g.cell[p] = heap.cell[p]
    <2>1. p \in 0 .. h.top - 1
        BY <1>1, <1>2
    <2> QED  BY <1>1, <1>8, <2>1 DEF Grown
<1>9. g.top >= heap.top /\ g.top > k
    BY <1>1, <1>2, <1>5
<1>10. ASSUME NEW a \in M2
       PROVE  /\ a \notin N => a >= heap.top
              /\ g.cell[a] \in {EIntList, NEIntList}
              /\ g.cell[a] = NEIntList /\ a \notin O2 => g.cell[a + 2] \in S2
    <2>1. CASE a = k
        BY <1>0, <1>1, <2>1
    <2>2. CASE a \in M
        <3>1. g.cell[a] = h.cell[a] /\ (h.cell[a] = NEIntList => g.cell[a + 2] = h.cell[a + 2])
            BY <1>0, <1>4, <2>2 DEF HeadersKept
        <3> QED  BY <1>1, <1>3, <2>2, <3>1
    <2> QED  BY <2>1, <2>2
<1>11. N \subseteq M2 /\ Objects \cap M2 = {}
    BY <1>0, <1>1, <1>3
<1> QED  BY <1>0, <1>2, <1>6, <1>7, <1>8, <1>9, <1>10, <1>11 DEF Chained

\* An empty list is made.
LEMMA ChainedEmpty ==
    ASSUME NEW N, NEW M, NEW O, NEW h, Chained(h, N, M, O), heap.top \in Nat, NEW k, k = h.top, NEW g, g = CreateFS(h, EIntList)
    PROVE  Chained(g, N, M \cup {k}, O) /\ k \in Nat \ {0} /\ g.cell[k] = EIntList
<1>1. HeapFits(h) /\ EIntList \in Types /\ Len(FeaturesOf[EIntList]) = 0
    BY TypesAre DEF Chained
<1>2. HeapFits(g) /\ Grown(h, g) /\ g.top = h.top + (0 + 1) /\ g.cell[h.top] = EIntList
    BY <1>1, CreateFSFits
<1>3. EIntList # NEIntList
    BY DEF EIntList, NEIntList
<1>4. g.top = k + Extent(g, k)
    BY <1>1, <1>2, TypesAre DEF Extent, SizeOf
<1> QED  BY <1>2, <1>3, <1>4, ChainedMade

\* A node with tail is made behind h, and those at M become M2.
NodeAdded(h, g, M, M2, tail) == M2 = M \cup {h.top} /\ \E v : g = NewNode(h, v, tail)

\* Such a node is behind all that was in the heap.
LEMMA NodeAddedIs ==
    ASSUME NEW h, HeapFits(h), NEW g, NEW M, NEW M2, NEW tail, NodeAdded(h, g, M, M2, tail)
    PROVE  /\ HeapFits(g) /\ Grown(h, g) /\ M2 = M \cup {h.top} /\ h.top \in Nat \ {0}
           /\ g.cell[h.top] = NEIntList /\ g.cell[h.top + 2] = tail /\ g.top = h.top + 3
<1>1. PICK k, v, w : k = h.top /\ M2 = M \cup {k} /\ g = NewNode(h, v, tail) /\ w = <<NEIntList, v, tail>>
    BY DEF NodeAdded
<1>2. PICK m \in Nat : m = 3
    OBVIOUS
<1>3. Len(w) \in Nat /\ Len(w) <= m
    BY <1>1, <1>2
<1>4. 1 \in 1 .. Len(w) /\ 3 \in 1 .. Len(w) /\ w[1] = NEIntList /\ w[3] = tail
    BY <1>1
<1>5. g = SetCells(IncreaseHeap(h, m), h.top, w)
    BY <1>1, <1>2 DEF NewNode
<1>6. /\ HeapFits(g) /\ Grown(h, g) /\ g.top = h.top + m
      /\ \A i \in 1 .. Len(w) : g.cell[h.top + (i - 1)] = w[i]
    BY <1>3, <1>5, BlockFits
<1>7. g.cell[k + (1 - 1)] = NEIntList /\ g.cell[k + (3 - 1)] = tail
    BY <1>1, <1>4, <1>6
<1>8. k \in Nat \ {0}
    BY <1>1 DEF HeapFits
<1>9. k + (1 - 1) = k /\ k + (3 - 1) = k + 2
    BY <1>8
<1>10. g.cell[k] = NEIntList /\ g.cell[k + 2] = tail
    BY <1>7, <1>9
<1> QED  BY <1>1, <1>2, <1>6, <1>8, <1>10

\* It may stand in chains, or be left open until its tail is written.
LEMMA ChainedNode ==
    ASSUME NEW N, NEW M, NEW O, NEW h, Chained(h, N, M, O), heap.top \in Nat,
           NEW M2, NEW tail, NEW g, NodeAdded(h, g, M, M2, tail), h.top \in O \/ tail \in Objects \cup M
    PROVE  Chained(g, N, M2, O)
<1>0. PICK k : k = h.top
    OBVIOUS
<1>1. HeapFits(h)
    BY DEF Chained
<1>2. /\ HeapFits(g) /\ Grown(h, g) /\ M2 = M \cup {k} /\ k \in Nat \ {0}
      /\ g.cell[k] = NEIntList /\ g.cell[k + 2] = tail /\ g.top = k + 3
    BY <1>0, <1>1, NodeAddedIs
<1>3. Extent(g, k) = 3
    BY <1>2, TypesAre DEF Extent, SizeOf
<1>4. g.cell[k] = NEIntList /\ k \notin O => g.cell[k + 2] \in Objects \cup M2
    BY <1>0, <1>2
<1>5. g.cell[k] \in {EIntList, NEIntList}
    BY <1>2
<1>6. g.top = k + Extent(g, k)
    BY <1>2, <1>3
<1>7. O \subseteq O
    OBVIOUS
<1> QED  BY <1>0, <1>2, <1>4, <1>5, <1>6, <1>7, ChainedMade

\* The element or the tail of a node is written.
NodeWritten(h, g, a, x, v, O, O2) ==
    x \in {1, 2} /\ g = SetCells(h, a + x, <<v>>) /\ O2 = IF x = 2 THEN O \ {a} ELSE O

\* Writing the element or the tail of a node leaves the rest of the chains alone.
LEMMA ChainedWritten ==
    ASSUME NEW N, NEW M, NEW O, NEW h, Chained(h, N, M, O), heap.top \in Nat, NEW a \in M, h.cell[a] = NEIntList,
           NEW x, NEW v, NEW O2, NEW g, NodeWritten(h, g, a, x, v, O, O2), x = 2 => v \in Objects \cup M
    PROVE  Chained(g, N, M, O2) /\ HeadersKept(h, g, Objects \cup M)
<1>1. PICK p : p = a + x /\ g = SetCells(h, p, <<v>>)
    BY DEF NodeWritten
<1>2. x \in {1, 2} /\ O2 \in {O, O \ {a}} /\ (x = 1 => O2 = O)
    BY DEF NodeWritten
<1> USE <1>1, <1>2
<1>3. PICK S, S0 : S = Objects \cup M /\ S0 = Objects \cup N
    OBVIOUS
<1>4. /\ HeapFits(h) /\ N \subseteq M /\ Objects \cap M = {} /\ Layout(h, S) /\ HeadersKept(heap, h, S0) /\ h.top >= heap.top
      /\ \A b \in M : b \notin N => b >= heap.top
      /\ \A q \in 0 .. heap.top - 1 : q \notin NodeCells(N) => h.cell[q] = heap.cell[q]
      /\ \A b \in M : h.cell[b] \in {EIntList, NEIntList}
      /\ \A b \in M : h.cell[b] = NEIntList /\ b \notin O => h.cell[b + 2] \in S
      /\ a \in S /\ S0 \subseteq S
    BY <1>3 DEF Chained
<1>5. h.top \in Nat \ {0}
    BY <1>4 DEF HeapFits
<1>6. Extent(h, a) = 3 /\ NEIntList \notin Arrays /\ NEIntList \notin SideArrays
    BY TypesAre DEF Extent, SizeOf
<1>7. a \in Nat \ {0} /\ a + 3 <= h.top
    BY <1>4, <1>6 DEF Layout
<1>8. p \in Nat /\ p < h.top
    BY <1>5, <1>7
<1>9. /\ HeapFits(g) /\ g.top = h.top /\ g.cell[p] = v
      /\ \A q \in 0 .. h.top - 1 : q # p => g.cell[q] = h.cell[q]
    BY <1>4, <1>8, SetCellFits
<1>10. HeadersKept(h, g, S)
    <2>1. Inside(h, S, {p})
        BY <1>4, <1>6 DEF Inside
    <2>2. \A q \in 0 .. h.top - 1 : q \notin {p} => g.cell[q] = h.cell[q]
        BY <1>9
    <2> QED  BY <1>4, <1>5, <2>1, <2>2, HeadersStay
<1>11. Layout(g, S)
    BY <1>4, <1>9, <1>10, LayoutKept
<1>12. HeadersKept(heap, g, S0)
    BY <1>4, <1>10 DEF HeadersKept
<1>13. ASSUME NEW q \in 0 .. heap.top - 1, q \notin NodeCells(N) PROVE g.cell[q] = heap.cell[q]
    <2>1. q \in 0 .. h.top - 1
        BY <1>4, <1>5
    <2>2. q # p
        <3> SUFFICES ASSUME q = p PROVE FALSE
            OBVIOUS
        <3>1. a \in N
            BY <1>4, <1>7
        <3>2. heap.cell[a] = NEIntList
            BY <1>3, <1>4, <3>1 DEF HeadersKept
        <3> QED  BY <1>13, <3>1, <3>2 DEF NodeCells
    <2> QED  BY <1>4, <1>9, <1>13, <2>1, <2>2
<1>14. ASSUME NEW b \in M
       PROVE  /\ g.cell[b] = h.cell[b]
              /\ g.cell[b] = NEIntList /\ b \notin O2 => g.cell[b + 2] \in S
    <2>1. g.cell[b] = h.cell[b] /\ b \in S
        BY <1>3, <1>10 DEF HeadersKept
    <2>2. ASSUME h.cell[b] = NEIntList, b \notin O2 PROVE g.cell[b + 2] \in S
        <3>1. CASE b + 2 = p
            <4>1. Extent(h, b) = 3
                BY <2>2, TypesAre DEF Extent, SizeOf
            <4>2. 2 \in 0 .. Extent(h, b) - 1 /\ x \in 0 .. Extent(h, a) - 1 /\ b + 2 = a + x
                BY <1>6, <3>1, <4>1
            <4>3. b = a /\ x = 2
                BY <1>4, <2>1, <4>2, Interior
            <4> QED  BY <1>3, <1>9, <3>1, <4>3
        <3>2. CASE b + 2 # p
            <4>1. Extent(h, b) = 3
                BY <2>2, TypesAre DEF Extent, SizeOf
            <4>2. b \in Nat /\ b + 3 <= h.top
                BY <1>4, <2>1, <4>1 DEF Layout
            <4>3. b + 2 \in 0 .. h.top - 1
                BY <1>5, <4>2
            <4>4. g.cell[b + 2] = h.cell[b + 2]
                BY <1>9, <3>2, <4>3
            <4>5. b # a \/ x # 2
                BY <3>2
            <4>6. b \notin O
                <5>1. CASE b # a
                    BY <2>2, <5>1
                <5>2. CASE x # 2
                    BY <2>2, <5>2
                <5> QED  BY <4>5, <5>1, <5>2
            <4> QED  BY <1>4, <2>2, <4>4, <4>6
        <3> QED  BY <3>1, <3>2
    <2> QED  BY <2>1, <2>2
<1> QED  BY <1>3, <1>4, <1>9, <1>10, <1>11, <1>12, <1>13, <1>14 DEF Chained

\* When the step leaves a chained heap and only nodes were touched, everything fits again.
LEMMA ChainedFits ==
    ASSUME NEW N, Fits(N), NEW M, Chained(heap', N, M, {}), UNCHANGED <<refs, chars, longs, bytes, stored>>,
           HandlesFit(M, Objects \cup M)'
    PROVE  Fits(M)'
<1>0. PICK S, S2 : S = Objects \cup N /\ S2 = Objects \cup M
    OBVIOUS
<1>1. /\ HeapsAreFit /\ Layout(heap, S) /\ Objects \subseteq S /\ ObjectsFit(S) /\ NodesFit(heap, N, S)
      /\ Objects \cap N = {} /\ \A b \in Objects : ObjectFits(b, S)
    BY <1>0 DEF Fits, ObjectsFit
<1>2. /\ HeapFits(heap') /\ N \subseteq M /\ Objects \cap M = {} /\ Layout(heap', S2)
      /\ \A p \in 0 .. heap.top - 1 : p \notin NodeCells(N) => heap'.cell[p] = heap.cell[p]
      /\ \A a \in M : heap'.cell[a] \in {EIntList, NEIntList}
      /\ \A a \in M : heap'.cell[a] = NEIntList => heap'.cell[a + 2] \in S2
    BY <1>0 DEF Chained
<1>3. HeapFits(heap) /\ heap.top \in Nat
    BY <1>1 DEF HeapsAreFit, HeapFits
<1>4. HeapsAreFit' /\ Grown(refs, refs') /\ Grown(chars, chars') /\ Grown(longs, longs') /\ Grown(bytes, bytes')
    BY <1>1, <1>2, SideUnchanged DEF side
<1>5. Objects' = Objects /\ stored' = stored /\ refs' = refs
    BY DEF Objects
<1>6. PICK P : P = NodeCells(N)
    OBVIOUS
<1>7. Inside(heap, S, P)
    <2> SUFFICES ASSUME NEW p \in P
                 PROVE  \E b \in S : \E x \in 1 .. Extent(heap, b) - 1 :
                            p = b + x /\ heap.cell[b] \notin SideArrays /\ (heap.cell[b] \in Arrays => x >= 2)
        BY DEF Inside
    <2>1. PICK b \in N : heap.cell[b] = NEIntList /\ p \in {b + 1, b + 2}
        BY <1>6 DEF NodeCells
    <2>2. Extent(heap, b) = 3 /\ heap.cell[b] \notin Arrays /\ heap.cell[b] \notin SideArrays
        BY <2>1, TypesAre DEF Extent, SizeOf
    <2>3. PICK x \in {1, 2} : p = b + x
        BY <2>1
    <2>4. x \in 1 .. Extent(heap, b) - 1 /\ b \in S
        BY <1>0, <2>2, <2>3
    <2> QED  BY <2>2, <2>3, <2>4
<1>8. ASSUME NEW b \in Objects, NEW i \in SlotsOf(b), InMain(b) PROVE Pos(b, i) \notin P
    <2> SUFFICES ASSUME Pos(b, i) \in P PROVE FALSE
        OBVIOUS
    <2>1. PICK c \in N : heap.cell[c] = NEIntList /\ Pos(b, i) \in {c + 1, c + 2}
        BY <1>6 DEF NodeCells
    <2>2. Extent(heap, c) = 3
        BY <2>1, TypesAre DEF Extent, SizeOf
    <2>3. PICK x \in {1, 2} : Pos(b, i) = c + x
        BY <2>1
    <2>4. PICK y : y = Place(stored[b].type, i)
        OBVIOUS
    <2>5. Pos(b, i) = b + y /\ y \in 1 .. Extent(heap, b) - 1
        BY <1>1, <1>8, <2>4, PosIs
    <2>6. b \in S /\ c \in S /\ y \in 0 .. Extent(heap, b) - 1 /\ x \in 0 .. Extent(heap, c) - 1 /\ b + y = c + x
        BY <1>0, <2>2, <2>3, <2>5
    <2>7. b = c
        BY <1>1, <2>6, Interior
    <2> QED  BY <1>1, <2>7
<1>9. \A p \in 0 .. heap.top - 1 : p \notin P => heap'.cell[p] = heap.cell[p]
    BY <1>2, <1>6
<1>10. ASSUME NEW b \in Objects
       PROVE  /\ heap'.cell[b] = heap.cell[b]
              /\ heap.cell[b] \in Arrays => heap'.cell[b + 1] = heap.cell[b + 1]
              /\ heap.cell[b] \in SideArrays => heap'.cell[b + 2] = heap.cell[b + 2]
              /\ \A i \in SlotsOf(b) : InMain(b) => heap'.cell[Pos(b, i)] = heap.cell[Pos(b, i)]
    BY <1>1, <1>3, <1>7, <1>8, <1>9, MainKept
<1>11. ASSUME NEW b \in Objects, NEW i \in SlotsOf(b) PROVE Same(b, i)
    BY <1>5, <1>10 DEF Same
<1>12. PICK a : a \notin Objects
    <2>1. 0 \notin Objects
        BY <1>1 DEF Layout
    <2> QED  BY <2>1
<1>13. KeptBut(a, {})
    <2>1. ASSUME NEW b \in Objects
          PROVE  /\ stored'[b] = [type |-> stored[b].type, slots |-> stored'[b].slots]
                 /\ DOMAIN stored'[b].slots = DOMAIN stored[b].slots
        BY <1>1, <1>5 DEF ObjectFits
    <2>2. refs'.top >= refs.top
        BY <1>4 DEF Grown
    <2> QED  BY <1>4, <1>5, <1>10, <1>11, <2>1, <2>2 DEF KeptBut
<1>14. ObjectsFit(S2)'
    <2>1. S \subseteq S2 /\ NewFits(a, {}, S2)
        BY <1>0, <1>2 DEF NewFits
    <2>2. a \notin Objects' \ Objects /\ a \notin Objects
        BY <1>12, <1>5
    <2> QED  BY <1>1, <1>4, <1>13, <2>1, <2>2, ObjectsKept
<1>15. NodesFit(heap', M, S2)
    BY <1>2 DEF NodesFit
<1> QED  BY <1>0, <1>2, <1>4, <1>5, <1>14, <1>15 DEF Fits

\* A list object that was given a place or has one stays a place of the heap.
LEMMA HandlesStay ==
    ASSUME NEW N, Fits(N), NEW M, N \subseteq M, Objects \cup M \subseteq Nat \ {0}, Objects' = Objects, NEW h \in Handles,
           \/ \E a \in Objects \cup M : Moved(h, a)
           \/ list' = list /\ Valid(h)
    PROVE  HandlesFit(M, Objects \cup M)'
<1>1. list \in [Handles -> Objects \cup N \cup {0}]
    BY DEF Fits, HandlesFit
<1>2. PICK S2 : S2 = Objects \cup M
    OBVIOUS
<1>3. CASE \E a \in Objects \cup M : Moved(h, a)
    <2>1. PICK a \in S2 : list' = [list EXCEPT ![h] = a]
        BY <1>2, <1>3 DEF Moved
    <2>2. list' \in [Handles -> S2 \cup {0}] /\ list'[h] = a /\ a # 0
        BY <1>1, <1>2, <2>1
    <2> QED  BY <1>2, <2>2 DEF HandlesFit
<1>4. CASE list' = list /\ Valid(h)
    <2>1. list' \in [Handles -> S2 \cup {0}] /\ list'[h] # 0
        BY <1>1, <1>2, <1>4 DEF Valid
    <2> QED  BY <1>2, <2>1 DEF HandlesFit
<1> QED  BY <1>3, <1>4

\* How the calls on lists end: a chained heap and a list object that has a place
LEMMA ListFits ==
    ASSUME NEW N, Fits(N), NEW M \in SUBSET Nat, Chained(heap', N, M, {}), OnLists, NEW h \in Handles,
           \/ \E a \in Objects \cup M : Moved(h, a)
           \/ list' = list /\ Valid(h)
    PROVE  EverythingFits'
<1>1. UNCHANGED <<refs, chars, longs, bytes, stored>> /\ Objects' = Objects
    BY DEF OnLists, Objects
<1>2. N \subseteq M /\ Objects \cup M \subseteq Nat \ {0}
    BY DEF Chained, Layout
<1>3. HandlesFit(M, Objects \cup M)'
    BY <1>1, <1>2, HandlesStay
<1>4. Fits(M)'
    BY <1>1, <1>3, ChainedFits
<1> QED  BY <1>4 DEF EverythingFits

\* A place that is not an object is a node; so are those with an element.
LEMMA NodeIs ==
    ASSUME NEW N, Fits(N), NEW a \in Objects \cup N, IsNode(heap, a)
    PROVE  a \in N /\ heap.cell[a] = NEIntList /\ TailOf(heap, a) \in Objects \cup N
<1>1. heap.cell[a] = NEIntList
    BY DEF IsNode, TypeOf
<1>2. a \notin Objects
    BY <1>1, TypesAre DEF Fits, ObjectsFit, ObjectFits
<1>3. TailOf(heap, a) = heap.cell[a + 2]
    BY DEF TailOf, TailFeature
<1> QED  BY <1>1, <1>2, <1>3 DEF Fits, NodesFit

\* Where a valid list object stands
LEMMA PlaceOfList ==
    ASSUME NEW N, Fits(N), NEW h \in Handles, Valid(h)
    PROVE  list[h] \in Objects \cup N
    BY DEF Fits, HandlesFit, Valid

\* A new list is an empty node.
LEMMA CreateListFits ==
    ASSUME NEW N \in SUBSET Nat, Fits(N), NEW h \in Handles, CreateList(h)
    PROVE  EverythingFits'
<1>1. Chained(heap, N, N, {}) /\ heap.top \in Nat
    BY ChainedFirst
<1>2. PICK k, M : k = heap.top /\ M = N \cup {k}
    OBVIOUS
<1>3. Chained(heap', N, M, {})
    BY <1>1, <1>2, ChainedEmpty DEF CreateList
<1> QED  BY <1>1, <1>2, <1>3, ListFits DEF CreateList

\* The node has no tail until the empty list behind it is made.
LEMMA CreateListWithFits ==
    ASSUME NEW N \in SUBSET Nat, Fits(N), NEW h \in Handles, NEW v, CreateListWith(h, v)
    PROVE  EverythingFits'
<1>1. Chained(heap, N, N, {}) /\ heap.top \in Nat
    BY ChainedFirst
<1>2. PICK k, M, g, O, z : k = heap.top /\ M = N \cup {k} /\ g = NewNode(heap, v, z) /\ O = {k} /\ z = 0
    OBVIOUS
<1>3. Chained(g, N, M, O) /\ k \in Nat \ {0} /\ g.cell[k] = NEIntList /\ g.top = k + 3
    <2>1. Chained(heap, N, N, O)
        BY <1>1, ChainedOpen
    <2>2. NodeAdded(heap, g, N, M, z) /\ (heap.top \in O \/ z \in Objects \cup N)
        BY <1>2 DEF NodeAdded
    <2>3. Chained(g, N, M, O)
        BY <1>1, <2>1, <2>2, ChainedNode
    <2>4. heap.top \in Nat \ {0} /\ g.cell[heap.top] = NEIntList /\ g.top = heap.top + 3
        BY <1>1, <2>2, NodeAddedIs DEF Chained
    <2> QED  BY <1>2, <2>3, <2>4
<1>4. PICK l, M2, g2 : l = g.top /\ M2 = M \cup {l} /\ g2 = CreateFS(g, EIntList)
    OBVIOUS
<1>5. Chained(g2, N, M2, O) /\ l \in Nat \ {0}
    BY <1>1, <1>3, <1>4, ChainedEmpty
<1>6. g2.cell[k] = NEIntList
    <2>1. HeapFits(g) /\ EIntList \in Types
        BY <1>3, TypesAre DEF Chained
    <2>2. Grown(g, g2)
        BY <1>4, <2>1, CreateFSFits
    <2> QED  BY <1>3, <2>2 DEF Grown
<1>7. PICK x, O2 : x = 2 /\ O2 = {}
    OBVIOUS
<1>8. heap' = SetCells(g2, k + 2, <<l>>)
    BY <1>2, <1>3, <1>4 DEF CreateListWith, SetTailOf, TailFeature
<1>9. NodeWritten(g2, heap', k, x, l, O, O2)
    BY <1>2, <1>7, <1>8 DEF NodeWritten
<1>10. Chained(heap', N, M2, O2)
    <2>1. k \in M2 /\ l \in Objects \cup M2
        BY <1>2, <1>4
    <2> QED  BY <1>1, <1>5, <1>6, <1>9, <2>1, ChainedWritten
<1>11. OnLists /\ Moved(h, k) /\ M2 \in SUBSET Nat /\ k \in Objects \cup M2
    BY <1>1, <1>2, <1>3, <1>4, <1>5 DEF CreateListWith
<1> QED  BY <1>7, <1>10, <1>11, ListFits

\* A node is made in front of the place where the list stands.
LEMMA AddFirstFits ==
    ASSUME NEW N \in SUBSET Nat, Fits(N), NEW h \in Handles, NEW v, AddFirst(h, v)
    PROVE  EverythingFits'
<1>1. Chained(heap, N, N, {}) /\ heap.top \in Nat
    BY ChainedFirst
<1>2. PICK k, M, tail : k = heap.top /\ M = N \cup {k} /\ tail = list[h]
    OBVIOUS
<1>3. tail \in Objects \cup N /\ heap' = NewNode(heap, v, tail) /\ Moved(h, k) /\ OnLists
    BY <1>2, PlaceOfList DEF AddFirst
<1>4. Chained(heap', N, M, {})
    <2>1. NodeAdded(heap, heap', N, M, tail)
        BY <1>2, <1>3 DEF NodeAdded
    <2> QED  BY <1>1, <1>3, <2>1, ChainedNode
<1> QED  BY <1>1, <1>2, <1>3, <1>4, ListFits

\* A list object that moves on stands at the next place of its chain.
LEMMA MoveListToNextFits ==
    ASSUME NEW N \in SUBSET Nat, Fits(N), NEW h \in Handles, MoveListToNext(h)
    PROVE  EverythingFits'
<1>1. Chained(heap, N, N, {})
    BY ChainedFirst
<1>2. heap' = heap /\ OnLists /\ Moved(h, TailOf(heap, list[h]))
    BY DEF MoveListToNext
<1>3. TailOf(heap, list[h]) \in Objects \cup N
    BY PlaceOfList, NodeIs DEF MoveListToNext
<1> QED  BY <1>1, <1>2, <1>3, ListFits

\* Writing the element of a node, ...
LEMMA SetHeadFits ==
    ASSUME NEW N \in SUBSET Nat, Fits(N), NEW h \in Handles, NEW v, SetHead(h, v)
    PROVE  EverythingFits'
<1>1. Chained(heap, N, N, {}) /\ heap.top \in Nat
    BY ChainedFirst
<1>2. PICK a, x, O : a = list[h] /\ x = 1 /\ O = {}
    OBVIOUS
<1>3. a \in Objects \cup N /\ IsNode(heap, a)
    BY <1>2, PlaceOfList DEF SetHead
<1>4. a \in N /\ heap.cell[a] = NEIntList
    BY <1>3, NodeIs
<1>5. NodeWritten(heap, heap', a, x, v, O, O) /\ x # 2
    BY <1>2 DEF SetHead, HeadFeature, NodeWritten
<1>6. list' = list /\ Valid(h) /\ OnLists
    BY DEF SetHead
<1>7. Chained(heap', N, N, O)
    BY <1>1, <1>2, <1>4, <1>5, ChainedWritten
<1> QED  BY <1>2, <1>6, <1>7, ListFits

\* A node gets a tail that is in the heap.
LEMMA TailWritten ==
    ASSUME NEW N, NEW M, NEW h, Chained(h, N, M, {}), heap.top \in Nat, NEW a \in M, h.cell[a] = NEIntList,
           NEW b \in Objects \cup M, NEW g, g = SetTailOf(h, a, b)
    PROVE  Chained(g, N, M, {}) /\ HeadersKept(h, g, Objects \cup M)
<1>1. PICK x, O : x = 2 /\ O = {}
    OBVIOUS
<1>2. NodeWritten(h, g, a, x, b, O, O)
    BY <1>1 DEF SetTailOf, TailFeature, NodeWritten
<1>3. Chained(g, N, M, O) /\ HeadersKept(h, g, Objects \cup M)
    BY <1>1, <1>2, ChainedWritten
<1> QED  BY <1>1, <1>3

\* ... or its tail, which joins chains.
LEMMA SetTailFits ==
    ASSUME NEW N \in SUBSET Nat, Fits(N), NEW h \in Handles, NEW g \in Handles, SetTail(h, g)
    PROVE  EverythingFits'
<1>1. Chained(heap, N, N, {}) /\ heap.top \in Nat
    BY ChainedFirst
<1>2. list[h] \in Objects \cup N /\ list[g] \in Objects \cup N /\ IsNode(heap, list[h])
    BY PlaceOfList DEF SetTail
<1>3. list[h] \in N /\ heap.cell[list[h]] = NEIntList
    BY <1>2, NodeIs
<1>4. Chained(heap', N, N, {})
    BY <1>1, <1>2, <1>3, TailWritten DEF SetTail
<1>5. list' = list /\ Valid(h) /\ OnLists
    BY DEF SetTail
<1> QED  BY <1>4, <1>5, ListFits

-----------------------------------------------------------------------------
(* Walking from place to place *)

\* There is a walk of n steps from a.
Walkable(S, next, a, n) == \E g \in [0 .. n -> S] : g[0] = a /\ \A k \in 1 .. n : g[k] = next[g[k - 1]]

\* It can be of any length.
LEMMA WalkExists ==
    ASSUME NEW S, NEW next \in [S -> S], NEW a \in S, NEW n \in Nat
    PROVE  Walkable(S, next, a, n)
<1> DEFINE Bad == {m \in Nat : ~\E g \in [0 .. m -> S] : g[0] = a /\ \A k \in 1 .. m : g[k] = next[g[k - 1]]}
<1> SUFFICES ASSUME Bad # {} PROVE FALSE
    BY DEF Walkable
<1>1. PICK m \in Bad : \A l \in Bad : m <= l
    <2>1. Bad \in SUBSET Nat
        OBVIOUS
    <2> HIDE DEF Bad
    <2> QED  BY <2>1, LeastExists
<1>2. m \in Nat /\ ~\E g \in [0 .. m -> S] : g[0] = a /\ \A k \in 1 .. m : g[k] = next[g[k - 1]]
    BY <1>1
<1>3. CASE m = 0
    <2>1. PICK g : g = [k \in 0 .. m |-> a]
        OBVIOUS
    <2>2. g \in [0 .. m -> S] /\ g[0] = a /\ \A k \in 1 .. m : g[k] = next[g[k - 1]]
        BY <1>3, <2>1
    <2> QED  BY <1>2, <2>2
<1>4. CASE m # 0
    <2>1. PICK l \in Nat : m = l + 1
        <3>1. m - 1 \in Nat /\ m = (m - 1) + 1
            BY <1>2, <1>4
        <3> QED  BY <3>1
    <2>2. l \notin Bad
        <3>1. ~(m <= l)
            BY <2>1
        <3> HIDE DEF Bad
        <3> QED  BY <1>1, <3>1
    <2>3. PICK g \in [0 .. l -> S] : g[0] = a /\ \A k \in 1 .. l : g[k] = next[g[k - 1]]
        BY <2>2
    <2>4. PICK b \in S : b = next[g[l]]
        <3>1. g[l] \in S
            BY <2>3
        <3> QED  BY <3>1
    <2>5. PICK f : f = [k \in 0 .. m |-> IF k = m THEN b ELSE g[k]]
        OBVIOUS
    <2>6. f \in [0 .. m -> S] /\ f[m] = b /\ \A k \in 0 .. l : f[k] = g[k]
        BY <1>2, <2>1, <2>3, <2>4, <2>5
    <2>7. ASSUME NEW k \in 1 .. m PROVE f[k] = next[f[k - 1]]
        <3>1. CASE k = m
            <4>1. k - 1 = l /\ f[l] = g[l]
                BY <2>1, <2>6, <3>1
            <4> QED  BY <2>4, <2>6, <3>1, <4>1
        <3>2. CASE k # m
            <4>1. k \in 1 .. l /\ k - 1 \in 0 .. l /\ k \in 0 .. l
                BY <2>1, <3>2
            <4> QED  BY <2>3, <2>6, <4>1
        <3> QED  BY <3>1, <3>2
    <2>8. f[0] = a
        BY <2>1, <2>3, <2>6
    <2> QED  BY <1>2, <2>6, <2>7, <2>8
<1> QED  BY <1>3, <1>4

\* A walk stays where each step stays.
LEMMA WalkStays ==
    ASSUME NEW S, NEW n \in Nat, NEW at, at[0] \in S, \A k \in 1 .. n : at[k - 1] \in S => at[k] \in S
    PROVE  \A k \in 0 .. n : at[k] \in S
<1> DEFINE Bad == {k \in 0 .. n : at[k] \notin S}
<1> SUFFICES ASSUME Bad # {} PROVE FALSE
    OBVIOUS
<1>1. PICK m \in Bad : \A l \in Bad : m <= l
    <2>1. Bad \in SUBSET Nat
        OBVIOUS
    <2> HIDE DEF Bad
    <2> QED  BY <2>1, LeastExists
<1>2. m \in 0 .. n /\ at[m] \notin S
    BY <1>1
<1>3. m # 0
    BY <1>2
<1>4. m \in 1 .. n /\ m - 1 \in 0 .. n /\ ~(m <= m - 1)
    BY <1>2, <1>3
<1>5. m - 1 \notin Bad
    BY <1>1, <1>4
<1>6. at[m - 1] \in S
    BY <1>4, <1>5
<1> QED  BY <1>2, <1>4, <1>6

\* The place behind a, which is a itself when there is none
Behind(h, a) == IF IsNode(h, a) THEN TailOf(h, a) ELSE a

\* A set of places no tail leads out of, in a heap
Closed(h, S) == h.top \in Nat /\ \A b \in S : IsNode(h, b) => TailOf(h, b) \in S

\* The chain from a goes from each place to the one behind it, and stays in such a set.
LEMMA StepGoes ==
    ASSUME NEW h, NEW S, Closed(h, S), NEW a \in S, NEW at, at = Step(h, a)
    PROVE  /\ at[0] = a
           /\ \A k \in 0 .. h.top : at[k] \in S
           /\ \A k \in 1 .. h.top : at[k] = Behind(h, at[k - 1])
<1>1. PICK n : n = h.top
    OBVIOUS
<1>2. n \in Nat /\ \A b \in S : Behind(h, b) \in S
    BY <1>1 DEF Closed, Behind
<1>4. PICK next : next = [b \in S |-> Behind(h, b)]
    OBVIOUS
<1>5. next \in [S -> S] /\ \A b \in S : next[b] = Behind(h, b)
    BY <1>2, <1>4
<1>6. PICK g \in [0 .. n -> S] : g[0] = a /\ \A k \in 1 .. n : g[k] = next[g[k - 1]]
    <2>1. Walkable(S, next, a, n)
        BY <1>2, <1>5, WalkExists
    <2> QED  BY <2>1 DEF Walkable
<1> DEFINE Walk(f) == f = [k \in 0 .. n |-> IF k = 0 THEN a
                                           ELSE LET b == f[k - 1] IN IF IsNode(h, b) THEN TailOf(h, b) ELSE b]
<1>7. Walk(g)
    <2>1. ASSUME NEW k \in 0 .. n PROVE g[k] = IF k = 0 THEN a ELSE Behind(h, g[k - 1])
        <3>1. CASE k = 0
            BY <1>6, <3>1
        <3>2. CASE k # 0
            <4>1. k \in 1 .. n /\ k - 1 \in 0 .. n
                BY <1>2, <3>2
            <4>2. g[k - 1] \in S
                BY <1>6, <4>1
            <4> QED  BY <1>5, <1>6, <3>2, <4>1, <4>2
        <3> QED  BY <3>1, <3>2
    <2>2. g = [k \in 0 .. n |-> g[k]]
        BY <1>6
    <2>3. g = [k \in 0 .. n |-> IF k = 0 THEN a ELSE Behind(h, g[k - 1])]
        BY <2>1, <2>2
    <2> QED  BY <2>3 DEF Behind
<1>8. at = CHOOSE f : Walk(f)
    BY <1>1, Zenon DEF Step
<1> HIDE DEF Walk
<1>9. Walk(at)
    BY <1>7, <1>8
<1>10. at = [k \in 0 .. n |-> IF k = 0 THEN a ELSE Behind(h, at[k - 1])]
    BY <1>9 DEF Walk, Behind
<1>11. at[0] = a
    BY <1>2, <1>10
<1>12. ASSUME NEW k \in 1 .. n PROVE at[k] = Behind(h, at[k - 1])
    <2>1. k \in 0 .. n /\ k # 0
        BY <1>2
    <2>2. at[k] = IF k = 0 THEN a ELSE Behind(h, at[k - 1])
        BY <1>10, <2>1
    <2> QED  BY <2>1, <2>2
<1>13. \A k \in 0 .. n : at[k] \in S
    <2>1. \A k \in 1 .. n : at[k - 1] \in S => at[k] \in S
        BY <1>2, <1>12
    <2> QED  BY <1>2, <1>11, <2>1, WalkStays
<1> QED  BY <1>1, <1>11, <1>12, <1>13

\* So the chain of a list stays in the heap.
LEMMA StepIs ==
    ASSUME NEW N, Fits(N), NEW a \in Objects \cup N, NEW at, at = Step(heap, a)
    PROVE  /\ heap.top \in Nat /\ at[0] = a
           /\ \A k \in 0 .. heap.top : at[k] \in Objects \cup N
<1>1. PICK S : S = Objects \cup N
    OBVIOUS
<1>2. \A b \in S : IsNode(heap, b) => TailOf(heap, b) \in S
    BY <1>1, NodeIs
<1>3. Closed(heap, S) /\ a \in S
    BY <1>1, <1>2 DEF Closed, Fits, HeapsAreFit, HeapFits
<1>4. heap.top \in Nat
    BY <1>3 DEF Closed
<1>5. at[0] = a /\ \A k \in 0 .. heap.top : at[k] \in S
    BY <1>3, StepGoes
<1> QED  BY <1>1, <1>4, <1>5

\* The length of a chain that ends counts its nodes: there is one at each place before the end.
LEMMA ListLengthIs ==
    ASSUME NEW N, Fits(N), NEW a \in Objects \cup N, Ends(heap, a), IsNode(heap, a), NEW at, at = Step(heap, a),
           NEW n, n = ListLength(heap, a)
    PROVE  n \in 1 .. heap.top /\ heap.top \in Nat /\ \A m \in 0 .. n - 1 : at[m] \in N /\ IsNode(heap, at[m])
<1>1. heap.top \in Nat /\ at[0] = a /\ \A k \in 0 .. heap.top : at[k] \in Objects \cup N
    BY StepIs
<1>2. PICK top \in Nat : top = heap.top
    BY <1>1
<1> DEFINE E == {k \in 0 .. top : ~IsNode(heap, at[k])}
           IsLength(k) == ~IsNode(heap, at[k]) /\ \A m \in 0 .. k - 1 : IsNode(heap, at[m])
<1>3. E \in SUBSET Nat /\ top \in E
    BY <1>2 DEF Ends
<1>4. PICK e \in E : \A k \in E : e <= k
    <2> HIDE DEF E
    <2> QED  BY <1>3, LeastExists
<1>5. e \in 0 .. top /\ IsLength(e)
    <2>1. e \in 0 .. top /\ ~IsNode(heap, at[e])
        BY <1>4
    <2>2. ASSUME NEW m \in 0 .. e - 1 PROVE IsNode(heap, at[m])
        <3>1. m \in 0 .. top /\ ~(e <= m)
            BY <2>1
        <3> QED  BY <1>4, <3>1
    <2> QED  BY <2>1, <2>2
<1>6. n = CHOOSE k \in 0 .. top : IsLength(k)
    <2>1. n = CHOOSE k \in 0 .. heap.top : ~IsNode(heap, at[k]) /\ \A m \in 0 .. k - 1 : IsNode(heap, at[m])
        BY Zenon DEF ListLength
    <2> QED  BY <1>2, <2>1
<1> HIDE DEF IsLength, E
<1>7. n \in 0 .. top /\ IsLength(n)
    BY <1>5, <1>6
<1>8. n # 0
    BY <1>1, <1>7 DEF IsLength
<1>9. ASSUME NEW m \in 0 .. n - 1 PROVE at[m] \in N /\ IsNode(heap, at[m])
    <2>1. IsNode(heap, at[m])
        BY <1>7 DEF IsLength
    <2>2. at[m] \in Objects \cup N
        BY <1>1, <1>2, <1>7
    <2> QED  BY <2>1, <2>2, NodeIs
<1> QED  BY <1>2, <1>7, <1>8, <1>9

\* The last node is one of them.
LEMMA LastNodeIs ==
    ASSUME NEW N, Fits(N), NEW a \in Objects \cup N, Ends(heap, a), IsNode(heap, a), NEW last, last = LastNode(heap, a)
    PROVE  last \in N /\ IsNode(heap, last) /\ heap.cell[last] = NEIntList /\ TailOf(heap, last) \in Objects \cup N
<1>1. PICK at, n : at = Step(heap, a) /\ n = ListLength(heap, a)
    OBVIOUS
<1>2. n \in 1 .. heap.top /\ heap.top \in Nat /\ \A m \in 0 .. n - 1 : at[m] \in N /\ IsNode(heap, at[m])
    BY <1>1, ListLengthIs
<1>3. n - 1 \in 0 .. n - 1 /\ last = at[n - 1]
    BY <1>1, <1>2 DEF LastNode
<1>4. last \in N /\ IsNode(heap, last)
    BY <1>2, <1>3
<1>5. last \in Objects \cup N
    BY <1>4
<1> QED  BY <1>4, <1>5, NodeIs

-----------------------------------------------------------------------------
(* Calls that walk *)

\* A node of the main heap is still one.
LEMMA NodeStays ==
    ASSUME NEW N, NEW M, NEW O, NEW h, Chained(h, N, M, O), NEW a \in N, heap.cell[a] = NEIntList
    PROVE  a \in M /\ h.cell[a] = NEIntList
    BY DEF Chained, HeadersKept

\* A new last node takes over the end of the chain, or stands before the empty list.
LEMMA AddLastFits ==
    ASSUME NEW N \in SUBSET Nat, Fits(N), NEW h \in Handles, NEW v, AddLast(h, v)
    PROVE  EverythingFits'
<1>1. Chained(heap, N, N, {}) /\ heap.top \in Nat \ {0}
    BY ChainedFirst
<1>2. PICK a, k, M : a = list[h] /\ k = heap.top /\ M = N \cup {k}
    OBVIOUS
<1>3. a \in Objects \cup N /\ Ends(heap, a) /\ OnLists /\ k \in M /\ M \in SUBSET Nat /\ N \subseteq M
    BY <1>1, <1>2, PlaceOfList DEF AddLast
<1>4. CASE IsNode(heap, a)
    <2>1. PICK last, tail, g : last = LastNode(heap, a) /\ tail = TailOf(heap, last) /\ g = NewNode(heap, v, tail)
        OBVIOUS
    <2>2. heap' = SetTailOf(g, last, k) /\ Moved(h, a)
        BY <1>2, <1>4, <2>1 DEF AddLast
    <2>3. last \in N /\ heap.cell[last] = NEIntList /\ tail \in Objects \cup N
        BY <1>3, <1>4, <2>1, LastNodeIs
    <2>4. NodeAdded(heap, g, N, M, tail)
        BY <1>2, <2>1 DEF NodeAdded
    <2>5. Chained(g, N, M, {})
        BY <1>1, <2>3, <2>4, ChainedNode
    <2>6. last \in M /\ g.cell[last] = NEIntList
        BY <2>3, <2>5, NodeStays
    <2>7. Chained(heap', N, M, {})
        BY <1>1, <1>3, <2>2, <2>5, <2>6, TailWritten
    <2>8. a \in Objects \cup M
        BY <1>3
    <2> QED  BY <1>3, <2>2, <2>7, <2>8, ListFits
<1>5. CASE ~IsNode(heap, a)
    <2>1. heap' = NewNode(heap, v, a) /\ Moved(h, k)
        BY <1>2, <1>5 DEF AddLast
    <2>2. NodeAdded(heap, heap', N, M, a)
        BY <1>2, <2>1 DEF NodeAdded
    <2>3. Chained(heap', N, M, {})
        BY <1>1, <1>3, <2>2, ChainedNode
    <2>4. k \in Objects \cup M
        BY <1>3
    <2> QED  BY <1>3, <2>1, <2>3, <2>4, ListFits
<1> QED  BY <1>4, <1>5

\* One chain is hung to the last node of another.
LEMMA JoinedFits ==
    ASSUME NEW N \in SUBSET Nat, Fits(N), NEW a \in Objects \cup N, NEW b \in Objects \cup N, Ends(heap, a), IsNode(heap, a),
           heap' = SetTailOf(heap, LastNode(heap, a), b)
    PROVE  Chained(heap', N, N, {})
<1>1. Chained(heap, N, N, {}) /\ heap.top \in Nat
    BY ChainedFirst
<1>2. PICK last : last = LastNode(heap, a)
    OBVIOUS
<1>3. last \in N /\ heap.cell[last] = NEIntList
    BY <1>2, LastNodeIs
<1> QED  BY <1>1, <1>2, <1>3, TailWritten

\* The chain of a list goes on with another list, ...
LEMMA AppendListFits ==
    ASSUME NEW N \in SUBSET Nat, Fits(N), NEW h \in Handles, NEW g \in Handles, AppendList(h, g)
    PROVE  EverythingFits'
<1>1. Chained(heap, N, N, {}) /\ list[h] \in Objects \cup N /\ list[g] \in Objects \cup N
    BY ChainedFirst, PlaceOfList DEF AppendList
<1>2. CASE IsNode(heap, list[h])
    <2>1. heap' = SetTailOf(heap, LastNode(heap, list[h]), list[g]) /\ Moved(h, list[h]) /\ Ends(heap, list[h]) /\ OnLists
        BY <1>2 DEF AppendList
    <2>2. Chained(heap', N, N, {})
        BY <1>1, <1>2, <2>1, JoinedFits
    <2> QED  BY <1>1, <2>1, <2>2, ListFits
<1>3. CASE ~IsNode(heap, list[h])
    <2>1. heap' = heap /\ Moved(h, list[g]) /\ OnLists
        BY <1>3 DEF AppendList
    <2> QED  BY <1>1, <2>1, ListFits
<1> QED  BY <1>2, <1>3

\* ... or the other way round.
LEMMA PrependListFits ==
    ASSUME NEW N \in SUBSET Nat, Fits(N), NEW h \in Handles, NEW g \in Handles, PrependList(h, g)
    PROVE  EverythingFits'
<1>1. Chained(heap, N, N, {}) /\ list[h] \in Objects \cup N /\ list[g] \in Objects \cup N
    BY ChainedFirst, PlaceOfList DEF PrependList
<1>2. CASE IsNode(heap, list[g])
    <2>1. heap' = SetTailOf(heap, LastNode(heap, list[g]), list[h]) /\ Moved(h, list[g]) /\ Ends(heap, list[g]) /\ OnLists
        BY <1>2 DEF PrependList
    <2>2. Chained(heap', N, N, {})
        BY <1>1, <1>2, <2>1, JoinedFits
    <2> QED  BY <1>1, <2>1, <2>2, ListFits
<1>3. CASE ~IsNode(heap, list[g])
    <2>1. heap' = heap /\ Moved(h, list[h]) /\ OnLists
        BY <1>3 DEF PrependList
    <2> QED  BY <1>1, <2>1, ListFits
<1> QED  BY <1>2, <1>3

\* The node taken out is closed, and the one before it gets its tail.
LEMMA RemoveElementFits ==
    ASSUME NEW N \in SUBSET Nat, Fits(N), NEW h \in Handles, NEW v, RemoveElement(h, v)
    PROVE  EverythingFits'
<1>1. Chained(heap, N, N, {}) /\ heap.top \in Nat \ {0} /\ heap.top \in Nat
    BY ChainedFirst
<1>2. PICK a, k, M : a = list[h] /\ k = heap.top /\ M = N \cup {k}
    OBVIOUS
<1>3. a \in Objects \cup N /\ IsNode(heap, a) /\ Ends(heap, a) /\ Valid(h) /\ OnLists /\ M \in SUBSET Nat /\ k \in Objects \cup M
    BY <1>1, <1>2, PlaceOfList DEF RemoveElement
<1> DEFINE at == Step(heap, list[h])
           found == {j \in 0 .. ListLength(heap, list[h]) - 1 : HeadOf(heap, at[j]) = v}
           first == CHOOSE i \in found : \A j \in found : i <= j
           out == at[first]
           closed == SetTailOf(CreateFS(heap, EIntList), out, heap.top)
<1>4. IF found = {} THEN UNCHANGED <<heap, list>>
      ELSE IF first = 0 THEN heap' = closed /\ Moved(h, TailOf(heap, out))
      ELSE heap' = SetTailOf(closed, at[first - 1], TailOf(heap, out)) /\ UNCHANGED list
    BY Zenon DEF RemoveElement
<1>5. PICK n, g : n = ListLength(heap, a) /\ at = Step(heap, a) /\ g = CreateFS(heap, EIntList)
    BY <1>2
<1>6. found \in SUBSET (0 .. n - 1) /\ closed = SetTailOf(g, out, k)
    BY <1>2, <1>5
<1>7. (\E i \in found : \A j \in found : i <= j) => first \in found
    OBVIOUS
<1> HIDE DEF at, found, first, closed
<1>8. n \in Nat /\ \A m \in 0 .. n - 1 : at[m] \in N /\ IsNode(heap, at[m])
    BY <1>3, <1>5, ListLengthIs
<1>9. \A m \in 0 .. n - 1 : at[m] \in N /\ heap.cell[at[m]] = NEIntList /\ TailOf(heap, at[m]) \in Objects \cup N
    <2> SUFFICES ASSUME NEW m \in 0 .. n - 1
                 PROVE  at[m] \in N /\ heap.cell[at[m]] = NEIntList /\ TailOf(heap, at[m]) \in Objects \cup N
        OBVIOUS
    <2>1. at[m] \in N /\ at[m] \in Objects \cup N /\ IsNode(heap, at[m])
        BY <1>8
    <2> QED  BY <2>1, NodeIs
<1>10. CASE found = {}
    BY <1>1, <1>3, <1>4, <1>10, ListFits
<1>11. CASE found # {}
    <2>1. first \in found
        <3>1. found \in SUBSET Nat
            BY <1>8, <1>6
        <3>2. \E i \in found : \A j \in found : i <= j
            BY <1>11, <3>1, LeastExists
        <3> QED  BY <1>7, <3>2
    <2>2. first \in 0 .. n - 1
        BY <1>6, <2>1
    <2>3. out \in N /\ heap.cell[out] = NEIntList /\ TailOf(heap, out) \in Objects \cup N
        BY <1>9, <2>2
    <2>4. Chained(g, N, M, {})
        BY <1>1, <1>2, <1>5, ChainedEmpty
    <2>5. out \in M /\ g.cell[out] = NEIntList
        BY <2>3, <2>4, NodeStays
    <2>6. Chained(closed, N, M, {})
        BY <1>1, <1>3, <1>6, <2>4, <2>5, TailWritten
    <2>7. TailOf(heap, out) \in Objects \cup M
        BY <1>2, <2>3
    <2>8. CASE first = 0
        <3>1. heap' = closed /\ Moved(h, TailOf(heap, out))
            BY <1>4, <1>11, <2>8
        <3> QED  BY <1>3, <2>6, <2>7, <3>1, ListFits
    <2>9. CASE first # 0
        <3>1. first - 1 \in 0 .. n - 1
            BY <1>8, <2>2, <2>9
        <3>2. PICK before : before = at[first - 1]
            OBVIOUS
        <3>3. before \in N /\ heap.cell[before] = NEIntList
            BY <1>9, <3>1, <3>2
        <3>4. before \in M /\ closed.cell[before] = NEIntList
            BY <2>6, <3>3, NodeStays
        <3>5. heap' = SetTailOf(closed, before, TailOf(heap, out)) /\ list' = list
            BY <1>4, <1>11, <2>9, <3>2
        <3>6. Chained(heap', N, M, {})
            BY <1>1, <2>6, <2>7, <3>4, <3>5, TailWritten
        <3> QED  BY <1>3, <3>5, <3>6, ListFits
    <2> QED  BY <2>8, <2>9
<1> QED  BY <1>10, <1>11

-----------------------------------------------------------------------------
(* Lists in features *)

\* A feature that takes lists holds addresses only.
LEMMA ListFeatureIs ==
    ASSUME NEW f \in Features, Subsumes(IntList, RangeOf[f])
    PROVE  ~IsString(f)
<1> SUFFICES ASSUME IsString(f) PROVE FALSE
    OBVIOUS
<1>1. RangeOf[f] \in Types /\ IntList \in Supertypes[RangeOf[f]] /\ String \in Supertypes[RangeOf[f]]
    BY TypesAssumption DEF IsString, Subsumes
<1>2. Subsumes(IntList, String) \/ Subsumes(String, IntList)
    BY <1>1, TypesAssumption
<1>3. ~Subsumes(String, IntList)
    BY TypesAssumption
<1>4. Supertypes[String] = {Top, String}
    BY TypesAssumption DEF Primitives
<1>5. IntList \notin Supertypes[String]
    BY <1>4 DEF Top, String, IntList
<1> QED  BY <1>2, <1>3, <1>5 DEF Subsumes

\* What an object has in such a feature is nothing or a place of the heap.
LEMMA ListFeatureHolds ==
    ASSUME NEW N, Fits(N), NEW a \in Objects, NEW f, HasFeature(a, f), Subsumes(IntList, RangeOf[f])
    PROVE  /\ InMain(a) /\ f \in SlotsOf(a) /\ Pos(a, f) = a + FeatureOffset(TypeOf(heap, a), f)
           /\ KindsIn(stored[a].type, f) = {"fs"}
           /\ Cell(a, f) = heap.cell[Pos(a, f)]
           /\ Cell(a, f) # 0 => Cell(a, f) \in Objects \cup N
<1>1. PICK S : /\ S = Objects \cup N
               /\ HeapsAreFit /\ Layout(heap, S) /\ Objects \subseteq S /\ ObjectsFit(S) /\ ObjectFits(a, S)
    BY FitsIs
<1>2. /\ InMain(a) /\ f \in SlotsOf(a) /\ f \in Features
      /\ Pos(a, f) = a + FeatureOffset(TypeOf(heap, a), f)
      /\ KindsIn(stored[a].type, f) = IF IsString(f) THEN {"string"}
                                      ELSE IF Subsumes(IntList, RangeOf[f]) THEN {"fs"}
                                      ELSE {"number", "boolean", "long", "fs"}
    BY <1>1, FeatureIsSlot
<1>3. KindsIn(stored[a].type, f) = {"fs"}
    BY <1>2, ListFeatureIs
<1>4. PICK c, w : c = heap.cell[Pos(a, f)] /\ w = stored[a].slots[f]
    OBVIOUS
<1>5. Cell(a, f) = c
    BY <1>2, <1>4 DEF Cell, TypeOf
<1>6. SlotFits(a, f, S)
    BY <1>1, <1>2 DEF ObjectFits
<1>7. w.kind \in {"fs", "unset"} /\ (w.kind = "fs" => w.v \in S) /\ CellFits(refs, chars, longs, w, c)
    BY <1>2, <1>3, <1>4, <1>6 DEF SlotFits, ValueFits
<1>8. c # 0 => c \in S
    BY <1>7 DEF CellFits
<1> QED  BY <1>1, <1>2, <1>3, <1>4, <1>5, <1>8

\* A feature without a list is given an empty one, which is a node of the heap from then on.
LEMMA EmptyListGiven ==
    ASSUME NEW N \in SUBSET Nat, Fits(N), NEW h \in Handles, NEW a \in Objects, InMain(a), NEW f \in SlotsOf(a),
           KindsIn(stored[a].type, f) = {"fs"}, NEW k, k = heap.top, NEW p, p = Pos(a, f),
           heap' = SetCells(CreateFS(heap, EIntList), p, <<k>>), UNCHANGED side,
           Moved(h, k), Wrote(a, f, "fs", k)
    PROVE  EverythingFits'
<1>0. PICK M, S2 : M = N \cup {k} /\ S2 = Objects \cup M
    OBVIOUS
<1>1. PICK S : /\ S = Objects \cup N
               /\ HeapsAreFit /\ Layout(heap, S) /\ Objects \subseteq S /\ Objects \cap N = {}
               /\ ObjectsFit(S) /\ NodesFit(heap, N, S) /\ HeapFits(heap) /\ ObjectFits(a, S)
               /\ \A b \in Objects : ObjectFits(b, S)
    BY FitsIs
<1>2. k \in Nat \ {0} /\ k \notin S /\ S2 = S \cup {k} /\ S \subseteq S2 /\ heap.top \in Nat
    BY <1>0, <1>1, TopIsFree DEF HeapFits
<1>3. PICK x : x = Place(stored[a].type, f)
    OBVIOUS
<1>4. p = a + x /\ x \in 1 .. Extent(heap, a) - 1
    BY <1>1, <1>3, PosIs
<1>5. p \in Nat /\ p < k
    <2>1. a \in Nat /\ Extent(heap, a) \in Nat /\ a + Extent(heap, a) <= k
        BY <1>1, SizeIs DEF Layout, Extent
    <2> QED  BY <1>2, <1>4, <2>1
<1>6. PICK g : g = CreateFS(heap, EIntList)
    OBVIOUS
<1>7. HeapFits(g) /\ Grown(heap, g) /\ g.top = k + 1 /\ g.cell[k] = EIntList
    <2>1. EIntList \in Types /\ Len(FeaturesOf[EIntList]) = 0
        BY TypesAre
    <2>2. HeapFits(g) /\ Grown(heap, g) /\ g.top = heap.top + (0 + 1) /\ g.cell[heap.top] = EIntList
        BY <1>1, <1>6, <2>1, CreateFSFits
    <2> QED  BY <1>2, <2>2
<1>8. /\ HeapFits(heap') /\ heap'.top = k + 1 /\ heap'.cell[p] = k /\ heap'.cell[k] = EIntList
      /\ \A q \in 0 .. k - 1 : q # p => heap'.cell[q] = heap.cell[q]
    <2>1. /\ HeapFits(SetCells(g, p, <<k>>)) /\ SetCells(g, p, <<k>>).top = g.top /\ SetCells(g, p, <<k>>).cell[p] = k
          /\ \A q \in 0 .. g.top - 1 : q # p => SetCells(g, p, <<k>>).cell[q] = g.cell[q]
        <3>1. p < g.top
            BY <1>2, <1>5, <1>7
        <3> QED  BY <1>5, <1>7, <3>1, SetCellFits
    <2>2. heap' = SetCells(g, p, <<k>>)
        BY <1>6
    <2>3. /\ HeapFits(heap') /\ heap'.top = g.top /\ heap'.cell[p] = k
          /\ \A q \in 0 .. g.top - 1 : q # p => heap'.cell[q] = g.cell[q]
        BY <2>1, <2>2
    <2>4. \A q \in 0 .. k - 1 : g.cell[q] = heap.cell[q]
        BY <1>7 DEF Grown
    <2> QED  BY <1>2, <1>5, <1>7, <2>3, <2>4
<1>9. /\ HeapsAreFit' /\ Grown(refs, refs') /\ refs'.top >= refs.top
      /\ Grown(chars, chars') /\ Grown(longs, longs') /\ Grown(bytes, bytes')
    BY <1>1, <1>8, SideUnchanged
<1>10. Rewritten(a, {f}) /\ stored'[a].slots[f] = Value("fs", k)
    BY WroteIs
<1>11. stored'[a].type = stored[a].type /\ InMain(a)' /\ Pos(a, f)' = p /\ stored'[a].slots[f].kind = "fs"
    <2>1. stored'[a] = [type |-> stored[a].type, slots |-> stored'[a].slots]
        BY <1>10 DEF Rewritten
    <2>2. stored'[a].type = stored[a].type
        BY <2>1
    <2> QED  BY <1>10, <2>2 DEF InMain, Pos, Value
<1>12. SlotFits(a, f, S2)'
    <2>1. PICK w, c : w = stored'[a].slots[f] /\ c = heap'.cell[p]
        OBVIOUS
    <2>2. w.kind = "fs" /\ w.v = k /\ c = k /\ k \in S2
        BY <1>2, <1>8, <1>10, <2>1 DEF Value
    <2>3. CellFits(refs', chars', longs', w, c)
        BY <2>2 DEF CellFits
    <2>4. ValueFits(stored[a].type, f, w, S2)
        BY <2>2 DEF ValueFits
    <2> QED  BY <1>11, <2>1, <2>3, <2>4 DEF SlotFits
<1>13. NewFits(a, {f}, S2)
    <2>1. ~IsSet(a, f, "string")' /\ ~IsSet(a, f, "long")'
        BY <1>11 DEF IsSet
    <2> QED  BY <1>12, <2>1 DEF NewFits
<1>14. ObjectsFit(S2)' /\ HeadersKept(heap, heap', S)
    <2>1. RefsStay(a, {f})
        BY <1>1, <1>9, RefsGrown
    <2>2. \A q \in 0 .. heap.top - 1 : q \notin {Pos(a, d) : d \in {f}} => heap'.cell[q] = heap.cell[q]
        BY <1>8
    <2>3. {f} \in SUBSET SlotsOf(a)
        OBVIOUS
    <2> QED  BY <1>1, <1>2, <1>9, <1>10, <1>13, <2>1, <2>2, <2>3, SlotsWritten
<1>15. Extent(heap', k) = 1 /\ heap'.cell[k] \in Types /\ heap'.cell[k] \notin Arrays
    BY <1>8, TypesAre DEF Extent, SizeOf
<1>16. Layout(heap', S2)
    <2>1. heap'.top = heap.top + Extent(heap', heap.top)
        BY <1>8, <1>15
    <2> QED  BY <1>1, <1>2, <1>14, <1>15, <2>1, LayoutGrown
<1>17. ASSUME NEW b \in N
       PROVE  heap'.cell[b] = heap.cell[b] /\ (heap.cell[b] = NEIntList => heap'.cell[b + 2] = heap.cell[b + 2])
    <2>1. b \in S /\ heap'.cell[b] = heap.cell[b]
        BY <1>1, <1>14 DEF HeadersKept
    <2>2. ASSUME heap.cell[b] = NEIntList PROVE heap'.cell[b + 2] = heap.cell[b + 2]
        <3>1. Extent(heap, b) = 3
            BY <2>2, TypesAre DEF Extent, SizeOf
        <3>2. b \in Nat /\ b + 3 <= heap.top
            BY <1>1, <2>1, <3>1 DEF Layout
        <3>3. b + 2 # p
            <4> SUFFICES ASSUME b + 2 = p PROVE FALSE
                OBVIOUS
            <4>1. 2 \in 0 .. Extent(heap, b) - 1 /\ x \in 0 .. Extent(heap, a) - 1 /\ b + 2 = a + x /\ a \in S
                BY <1>1, <1>4, <3>1
            <4>2. a = b
                BY <1>1, <2>1, <4>1, Interior
            <4> QED  BY <1>1, <4>2
        <3>4. b + 2 \in 0 .. k - 1
            BY <1>2, <3>2
        <3> QED  BY <1>8, <3>3, <3>4
    <2> QED  BY <2>1, <2>2
<1>18. NodesFit(heap', M, S2)
    <2> SUFFICES ASSUME NEW b \in M
                 PROVE  /\ heap'.cell[b] \in {EIntList, NEIntList}
                        /\ heap'.cell[b] = NEIntList => heap'.cell[b + 2] \in S2
        BY DEF NodesFit
    <2>1. CASE b = k
        BY <1>8, <2>1 DEF EIntList, NEIntList
    <2>2. CASE b \in N
        BY <1>1, <1>2, <1>17, <2>2 DEF NodesFit
    <2> QED  BY <1>0, <2>1, <2>2
<1>19. Objects' = Objects
    BY <1>10 DEF Rewritten
<1>20. HandlesFit(M, S2)'
    <2>1. Objects \cup M \subseteq Nat \ {0}
        BY <1>0, <1>16 DEF Layout
    <2>2. N \subseteq M /\ k \in Objects \cup M
        BY <1>0
    <2>3. HandlesFit(M, Objects \cup M)'
        BY <1>19, <2>1, <2>2, HandlesStay
    <2>4. S2 = (Objects \cup M)'
        BY <1>0, <1>19
    <2> QED  BY <2>3, <2>4 DEF HandlesFit
<1>21. Objects \cap M = {} /\ M \in SUBSET Nat
    BY <1>0, <1>1, <1>2
<1>22. Fits(M)'
    BY <1>0, <1>9, <1>14, <1>16, <1>18, <1>19, <1>20, <1>21 DEF Fits
<1> QED  BY <1>21, <1>22 DEF EverythingFits

\* Reading a list feature gives the list in it, or a new empty one.
LEMMA GetListFSValueFits ==
    ASSUME NEW N \in SUBSET Nat, Fits(N), NEW h \in Handles, NEW a, NEW f, GetListFSValue(h, a, f)
    PROVE  EverythingFits'
<1>1. a \in Objects /\ HasFeature(a, f) /\ Subsumes(IntList, RangeOf[f]) /\ UNCHANGED <<refs, chars, longs, bytes, resets>>
    BY DEF GetListFSValue
<1>2. /\ InMain(a) /\ f \in SlotsOf(a) /\ Pos(a, f) = a + FeatureOffset(TypeOf(heap, a), f)
      /\ KindsIn(stored[a].type, f) = {"fs"}
      /\ Cell(a, f) # 0 => Cell(a, f) \in Objects \cup N
    BY <1>1, ListFeatureHolds
<1>3. CASE Cell(a, f) = 0
    <2>1. PICK k, p : k = heap.top /\ p = Pos(a, f)
        OBVIOUS
    <2>2. heap' = SetCells(CreateFS(heap, EIntList), p, <<k>>) /\ Moved(h, k) /\ Wrote(a, f, "fs", k)
        BY <1>2, <1>3, <2>1 DEF GetListFSValue
    <2>3. UNCHANGED side
        BY <1>1 DEF side
    <2> QED  BY <1>1, <1>2, <2>1, <2>2, <2>3, EmptyListGiven
<1>4. CASE Cell(a, f) # 0
    <2>1. heap' = heap /\ stored' = stored /\ Moved(h, Cell(a, f))
        BY <1>4 DEF GetListFSValue
    <2>2. Chained(heap', N, N, {})
        BY <2>1, ChainedFirst
    <2>3. Objects' = Objects /\ N \subseteq N /\ Objects \cup N \subseteq Nat \ {0}
        BY <2>1, <2>2 DEF Objects, Chained, Layout
    <2>4. HandlesFit(N, Objects \cup N)'
        BY <1>2, <1>4, <2>1, <2>3, HandlesStay
    <2>5. Fits(N)'
        BY <1>1, <2>1, <2>2, <2>4, ChainedFits
    <2> QED  BY <2>5 DEF EverythingFits
<1> QED  BY <1>3, <1>4

-----------------------------------------------------------------------------
(* The initial state, resets and all steps *)

\* Nothing is in the CAS and no list object stands anywhere.
Blank ==
    /\ \A h \in {heap, refs, chars, longs, bytes} : HeapFits(h) /\ h.top = 1
    /\ stored = << >>
    /\ list = [h \in Handles |-> 0]

\* In such a state everything fits.
LEMMA BlankFits ==
    ASSUME Blank
    PROVE  EverythingFits
<1>1. Objects = {}
    BY DEF Blank, Objects
<1>2. PICK S : S = {} /\ S = Objects \cup {}
    BY <1>1
<1>3. HeapsAreFit
    BY DEF Blank, HeapsAreFit, NextRef, RefCell
<1>4. Layout(heap, S)
    BY <1>2 DEF Layout, Blank
<1>5. ObjectsFit(S)
    BY <1>1 DEF ObjectsFit, RefsApart, SidesApart, LongsApart
<1>6. NodesFit(heap, {}, S) /\ HandlesFit({}, S)
    BY DEF NodesFit, HandlesFit, Blank
<1>7. Fits({})
    BY <1>1, <1>2, <1>3, <1>4, <1>5, <1>6 DEF Fits
<1> QED  BY <1>7 DEF EverythingFits

\* A new CAS is such a state.
LEMMA InitFits ==
    ASSUME Init
    PROVE  EverythingFits
<1>1. Blank
    BY NewHeapFits DEF Init, Blank
<1> QED  BY <1>1, BlankFits

\* reset() makes one: its heaps are cleared, whatever was in them.
LEMMA ResetMakesBlank ==
    ASSUME EverythingFits, Reset
    PROVE  EverythingFits'
<1>1. \A h \in {heap, refs, chars, longs, bytes} : HeapFits(h)
    BY DEF EverythingFits, Fits, HeapsAreFit
<1>2. Blank'
    BY <1>1, ResetFits DEF Reset, Blank
<1>3. Blank' => EverythingFits'
    BY BlankFits, PTL
<1> QED  BY <1>2, <1>3

\* A step that leaves all alone
LEMMA StutterFits ==
    ASSUME EverythingFits, UNCHANGED vars
    PROVE  EverythingFits'
<1>1. PICK N \in SUBSET Nat : Fits(N)
    BY DEF EverythingFits
<1>2. /\ heap' = heap /\ refs' = refs /\ chars' = chars /\ longs' = longs /\ bytes' = bytes
      /\ list' = list /\ stored' = stored /\ Objects' = Objects
    BY DEF vars, Objects
<1>3. Chained(heap', N, N, {})
    BY <1>1, <1>2, ChainedFirst
<1>4. HandlesFit(N, Objects \cup N)'
    BY <1>1, <1>2 DEF Fits, HandlesFit
<1>5. Fits(N)'
    BY <1>1, <1>2, <1>3, <1>4, ChainedFits
<1> QED  BY <1>5 DEF EverythingFits

\* Every call of the interface keeps everything in its place.
LEMMA StepFits ==
    ASSUME Careless = FALSE, EverythingFits, [Next]_vars
    PROVE  EverythingFits'
<1>1. PICK N \in SUBSET Nat : Fits(N)
    BY DEF EverythingFits
<1>2. SUFFICES ASSUME ~Fits(N)' PROVE EverythingFits'
    BY DEF EverythingFits
<1>3. CASE OnFeatures
    <2>1. ~\E t \in Types : Create(t)
        BY <1>1, <1>2, CreateFits
    <2>2. ASSUME NEW a \in Objects, NEW f \in Features
          PROVE  /\ ~\E v \in Numbers : SetNumber(a, f, v) \/ SetLong(a, f, v)
                 /\ ~\E b \in {0, 1} : SetBoolean(a, f, b)
                 /\ ~\E s \in Strings : SetString(a, f, s)
                 /\ ~\E b \in Objects : SetFS(a, f, b)
        BY <1>1, <1>2, SetNumberFits, SetLongFits, SetBooleanFits, SetStringFits, SetFSFits
    <2>3. ~\E a \in Objects : Clone(a) \/ \E t \in Types : CloneTo(a, t)
        BY <1>1, <1>2, CloneFits, CloneToFits
    <2> QED  BY <1>3, <2>1, <2>2, <2>3 DEF OnFeatures
<1>4. CASE OnArrays
    <2>1. ~\E t \in Arrays, n \in Sizes : CreateArray(t, n)
        BY <1>1, <1>2, CreateArrayFits
    <2>2. ASSUME NEW a \in Objects, NEW i \in 0 .. MaxCells
          PROVE  /\ ~\E v \in Numbers, k \in {"number", "boolean", "long"} : ArraySet(a, i, k, v)
                 /\ ~\E s \in Strings : ArraySet(a, i, "string", s)
                 /\ ~\E b \in Objects : ArraySet(a, i, "fs", b)
                 /\ ~\E v \in Numbers, n \in Sizes : CopyFromArray(a, v, n, i)
        <3>1. i \in Nat
            OBVIOUS
        <3>2. ~\E v \in Numbers, k \in {"number", "boolean", "long"} : ArraySet(a, i, k, v)
            BY <1>1, <1>2, <3>1, ArraySetFits
        <3>3. ~\E s \in Strings : ArraySet(a, i, "string", s)
            BY <1>1, <1>2, <3>1, ArraySetFits, ValuesAssumption
        <3>4. ~\E b \in Objects : ArraySet(a, i, "fs", b)
            BY <1>1, <1>2, <3>1, ArraySetFits
        <3>5. ~\E v \in Numbers, n \in Sizes : CopyFromArray(a, v, n, i)
            BY <1>1, <1>2, <3>1, CopyFromArrayFits
        <3> QED  BY <3>2, <3>3, <3>4, <3>5
    <2> QED  BY <1>4, <2>1, <2>2 DEF OnArrays
<1>5. CASE OnChains
    <2>1. PICK h \in Handles :
            \/ CreateList(h) \/ MoveListToNext(h)
            \/ \E v \in HeadValues : \/ CreateListWith(h, v) \/ AddFirst(h, v) \/ AddLast(h, v)
                                     \/ RemoveElement(h, v) \/ SetHead(h, v)
            \/ \E g \in Handles : AppendList(h, g) \/ PrependList(h, g) \/ SetTail(h, g)
            \/ \E a \in Objects, f \in Features : GetListFSValue(h, a, f) \/ SetList(a, f, h)
        BY <1>5 DEF OnChains
    <2>2. CASE CreateList(h) \/ MoveListToNext(h)
        BY <1>1, <2>2, CreateListFits, MoveListToNextFits
    <2>3. CASE \E v \in HeadValues : \/ CreateListWith(h, v) \/ AddFirst(h, v) \/ AddLast(h, v)
                                     \/ RemoveElement(h, v) \/ SetHead(h, v)
        BY <1>1, <2>3, CreateListWithFits, AddFirstFits, AddLastFits, RemoveElementFits, SetHeadFits
    <2>4. CASE \E g \in Handles : AppendList(h, g) \/ PrependList(h, g) \/ SetTail(h, g)
        BY <1>1, <2>4, AppendListFits, PrependListFits, SetTailFits
    <2>5. CASE \E a \in Objects, f \in Features : GetListFSValue(h, a, f) \/ SetList(a, f, h)
        BY <1>1, <1>2, <2>5, GetListFSValueFits, SetListFits
    <2> QED  BY <2>1, <2>2, <2>3, <2>4, <2>5
<1>6. CASE Reset
    BY <1>6, ResetMakesBlank
<1>7. CASE UNCHANGED vars
    BY <1>7, StutterFits
<1> QED  BY <1>3, <1>4, <1>5, <1>6, <1>7 DEF Next

-----------------------------------------------------------------------------
(* What is read *)

\* A reference that leads to a string is read as that string.
LEMMA StringReads ==
    ASSUME NEW r, NEW s, StringFits(refs, chars, r, s)
    PROVE  StringAt(r) = s
<1>1. PICK n, p : n = Len(s) /\ p = refs.cell[RefCell(r)]
    OBVIOUS
<1>2. r # 0 /\ s \in Seq(Int \ {0}) /\ n \in Nat /\ refs.cell[RefCell(r) + 1] = n
      /\ \A j \in 1 .. n : chars.cell[p + j - 1] = s[j]
    BY <1>1 DEF StringFits
<1>3. StringAt(r) = [i \in 1 .. n |-> chars.cell[p + i - 1]]
    BY <1>1, <1>2 DEF StringAt
<1>4. StringAt(r) = [i \in 1 .. n |-> s[i]]
    BY <1>2, <1>3
<1>5. s = [i \in 1 .. n |-> s[i]]
    BY <1>1, <1>2
<1> QED  BY <1>4, <1>5

\* A typed getter makes the value of a cell that fits.
LEMMA CellReads ==
    ASSUME NEW w, w.kind \in {"unset", "number", "boolean", "long", "fs", "string"}, NEW c,
           HeapFits(longs), CellFits(refs, chars, longs, w, c)
    PROVE  IF w.kind = "unset" THEN c = 0
           ELSE ReadAs(w.kind, c) = IF w.kind = "boolean" THEN NumberOf(w.v) ELSE w.v
<1>1. CASE w.kind = "unset"
    BY <1>1 DEF CellFits
<1>2. CASE w.kind \in {"number", "fs"}
    BY <1>2 DEF CellFits, ReadAs
<1>3. CASE w.kind = "boolean"
    BY <1>3 DEF CellFits, ReadAs, BooleanCell, NumberOf
<1>4. CASE w.kind = "long"
    BY <1>4 DEF CellFits, ReadAs, LongAt
<1>5. CASE w.kind = "string"
    <2>1. StringAt(c) = w.v
        BY <1>5, StringReads DEF CellFits
    <2> QED  BY <1>5, <2>1 DEF ReadAs
<1> QED  BY <1>1, <1>2, <1>3, <1>4, <1>5

\* A feature reads as it was last written.
LEMMA FeatureIsRead ==
    ASSUME NEW N, Fits(N), NEW a \in Objects, stored[a].type \notin Arrays, NEW f \in DOMAIN stored[a].slots
    PROVE  FeatureReads(a, f, stored[a].slots[f])
<1>1. PICK S : /\ S = Objects \cup N
               /\ HeapsAreFit /\ Layout(heap, S) /\ Objects \subseteq S /\ ObjectsFit(S) /\ ObjectFits(a, S)
               /\ HeapFits(longs)
    BY FitsIs
<1>2. /\ stored[a].type = heap.cell[a] /\ f \in SlotsOf(a) /\ SlotFits(a, f, S)
      /\ HasFeature(a, f)
    <2>1. stored[a].type = heap.cell[a] /\ f \in SlotsOf(a) /\ SlotFits(a, f, S)
        BY <1>1 DEF ObjectFits
    <2>2. f \in {FeaturesOf[heap.cell[a]][i] : i \in DOMAIN FeaturesOf[heap.cell[a]]}
        BY <2>1 DEF SlotsOf, SlotsIn
    <2> QED  BY <2>1, <2>2 DEF HasFeature, TypeOf
<1>3. InMain(a) /\ Pos(a, f) = a + FeatureOffset(TypeOf(heap, a), f)
      /\ KindsIn(stored[a].type, f) \subseteq {"number", "boolean", "long", "fs", "string"}
    BY <1>1, <1>2, FeatureIsSlot
<1>4. PICK w, c : w = stored[a].slots[f] /\ c = heap.cell[Pos(a, f)]
    OBVIOUS
<1>5. Cell(a, f) = c
    BY <1>3, <1>4 DEF Cell, TypeOf
<1>6. w.kind \in {"unset", "number", "boolean", "long", "fs", "string"} /\ CellFits(refs, chars, longs, w, c)
    BY <1>2, <1>3, <1>4 DEF SlotFits, ValueFits
<1>7. IF w.kind = "unset" THEN c = 0
      ELSE ReadAs(w.kind, c) = IF w.kind = "boolean" THEN NumberOf(w.v) ELSE w.v
    BY <1>1, <1>6, CellReads
<1> QED  BY <1>4, <1>5, <1>7 DEF FeatureReads

\* An element reads as it was last written.
LEMMA ElementIsRead ==
    ASSUME NEW N, Fits(N), NEW a \in Objects, stored[a].type \in Arrays, NEW i \in DOMAIN stored[a].slots
    PROVE  ElementReads(a, i, stored[a].slots[i])
<1>1. PICK S : S = Objects \cup N /\ ObjectFits(a, S) /\ HeapFits(longs)
    BY FitsIs
<1>2. TypeOf(heap, a) = stored[a].type /\ TypeOf(heap, a) \in Arrays /\ i \in SlotsOf(a) /\ SlotFits(a, i, S)
    BY <1>1 DEF ObjectFits, TypeOf
<1>3. /\ ArraySize(a) = heap.cell[a + 1] /\ SlotsOf(a) = 0 .. ArraySize(a) - 1
      /\ InMain(a) <=> TypeOf(heap, a) \notin SideArrays
      /\ InMain(a) => Pos(a, i) = ArrayOffset(a) + i /\ KindsIn(stored[a].type, i) = {ElementKind(stored[a].type)}
      /\ ~InMain(a) => ArrayOffset(a) = heap.cell[a + 2]
    BY <1>2, ArrayIs
<1>4. PICK w, c : w = stored[a].slots[i] /\ c = heap.cell[ArrayOffset(a) + i]
    OBVIOUS
<1>5. CASE TypeOf(heap, a) = LongArray
    <2>1. longs.cell[heap.cell[a + 2] + i] = IF w.kind = "unset" THEN 0 ELSE w.v
        BY <1>1, <1>2, <1>3, <1>4, <1>5 DEF ObjectFits, SideFits
    <2>2. Element(a, i) = longs.cell[heap.cell[a + 2] + i]
        BY <1>3, <1>5, ArrayKinds DEF Element
    <2> QED  BY <1>4, <1>5, <2>1, <2>2 DEF ElementReads, LongArray, StringArray
<1>6. CASE TypeOf(heap, a) = BooleanArray
    <2>1. bytes.cell[heap.cell[a + 2] + i] = IF w.kind = "unset" THEN 0 ELSE w.v
        BY <1>1, <1>2, <1>3, <1>4, <1>6 DEF ObjectFits, SideFits
    <2>2. Element(a, i) = bytes.cell[heap.cell[a + 2] + i]
        BY <1>3, <1>6, ArrayKinds DEF Element
    <2> QED  BY <1>4, <1>6, <2>1, <2>2 DEF ElementReads, BooleanArray, StringArray
<1>7. CASE TypeOf(heap, a) = StringArray
    <2>1. w.kind \in {"unset", "string"} /\ CellFits(refs, chars, longs, w, c)
        BY <1>2, <1>3, <1>4, <1>7, ArrayKinds DEF SlotFits, ValueFits
    <2>2. Element(a, i) = StringAt(c)
        BY <1>4, <1>7 DEF Element, StringArray, LongArray, BooleanArray
    <2>3. CASE w.kind = "unset"
        BY <1>4, <1>7, <2>1, <2>2, <2>3 DEF CellFits, StringAt, ElementReads
    <2>4. CASE w.kind = "string"
        BY <1>4, <2>1, <2>2, <2>4, StringReads DEF CellFits, ElementReads
    <2> QED  BY <2>1, <2>3, <2>4
<1>8. CASE TypeOf(heap, a) \in {IntArray, FSArray}
    <2>1. w.kind \in {"unset", "number", "fs"} /\ CellFits(refs, chars, longs, w, c)
        BY <1>2, <1>3, <1>4, <1>8, ArrayKinds DEF SlotFits, ValueFits
    <2>2. Element(a, i) = c
        BY <1>4, <1>8 DEF Element, StringArray, LongArray, BooleanArray, IntArray, FSArray
    <2>3. TypeOf(heap, a) # StringArray
        BY <1>8 DEF StringArray, IntArray, FSArray
    <2> QED  BY <1>4, <2>1, <2>2, <2>3 DEF CellFits, ElementReads
<1> QED  BY <1>2, <1>5, <1>6, <1>7, <1>8 DEF Arrays

\* When everything fits, everything reads as it was last written.
LEMMA FitsReads ==
    ASSUME EverythingFits
    PROVE  ValuesReadBack
<1>1. PICK N : Fits(N)
    BY DEF EverythingFits
<1> SUFFICES ASSUME NEW a \in Objects
             PROVE  /\ TypeOf(heap, a) = stored[a].type
                    /\ stored[a].type \in Arrays =>
                         /\ DOMAIN stored[a].slots = 0 .. ArraySize(a) - 1
                         /\ \A i \in DOMAIN stored[a].slots : ElementReads(a, i, stored[a].slots[i])
                    /\ stored[a].type \notin Arrays =>
                         \A f \in DOMAIN stored[a].slots : FeatureReads(a, f, stored[a].slots[f])
    BY DEF ValuesReadBack
<1>2. PICK S : S = Objects \cup N /\ ObjectFits(a, S)
    BY <1>1, FitsIs
<1>3. TypeOf(heap, a) = stored[a].type
    BY <1>2 DEF ObjectFits, TypeOf
<1>4. stored[a].type \in Arrays => DOMAIN stored[a].slots = 0 .. ArraySize(a) - 1
    BY <1>1, <1>2, <1>3, ArrayIs DEF ObjectFits
<1> QED  BY <1>1, <1>3, <1>4, ElementIsRead, FeatureIsRead

-----------------------------------------------------------------------------
(* The iterator over the heap *)

\* Arrays with elements in another heap have one.
SidesHaveOne == \A a \in Objects : TypeOf(heap, a) \in {BooleanArray, LongArray} => ArraySize(a) = 1

\* Where a move leads to, at most
Onward(a) == IF AtFS(a) THEN HeapStep(a) ELSE a

\* At a structure it leads to the end of it, and at the top it stays.
LEMMA OnwardIs ==
    ASSUME NEW N, Fits(N), SidesHaveOne, NEW S, S = Objects \cup N, NEW top, top = heap.top
    PROVE  /\ top \in Nat \ {0} /\ top \notin S /\ S \subseteq Nat \ {0} /\ 1 \in S \cup {top}
           /\ ~AtFS(top)
           /\ \A a \in S : AtFS(a) /\ Onward(a) = a + Extent(heap, a) /\ Extent(heap, a) \in Nat \ {0}
           /\ \A a \in S \cup {top} : Onward(a) \in S \cup {top}
<1>1. /\ Layout(heap, S) /\ Objects \subseteq S /\ ObjectsFit(S) /\ NodesFit(heap, N, S) /\ HeapFits(heap)
      /\ \A a \in Objects : ObjectFits(a, S)
    <2>1. PICK T : /\ T = Objects \cup N
                   /\ Layout(heap, T) /\ Objects \subseteq T /\ ObjectsFit(T) /\ NodesFit(heap, N, T) /\ HeapFits(heap)
                   /\ \A a \in Objects : ObjectFits(a, T)
        BY FitsIs
    <2> QED  BY <2>1
<1>2. top \in Nat \ {0}
    BY <1>1 DEF HeapFits
<1>3. top \notin S /\ \A a \in S : a < top
    BY <1>1, <1>2, TopIsFree
<1>4. ~AtFS(top)
    BY <1>2 DEF AtFS
<1>5. ASSUME NEW a \in S
      PROVE  AtFS(a) /\ Onward(a) = a + Extent(heap, a) /\ Extent(heap, a) \in Nat \ {0}
    <2>1. /\ a \in Nat /\ TypeOf(heap, a) = heap.cell[a] /\ heap.cell[a] \in Types
          /\ heap.cell[a] \in Arrays => heap.cell[a + 1] \in Nat
        BY <1>1 DEF Layout, TypeOf
    <2>2. AtFS(a)
        BY <1>3, <2>1 DEF AtFS
    <2>3. Extent(heap, a) \in Nat \ {0}
        BY <2>1, SizeIs DEF Extent
    <2>4. CASE heap.cell[a] \in SideArrays
        <3>1. a \in Objects
            BY <1>1, <2>4, TypesAre DEF NodesFit, SideArrays, Arrays
        <3>2. heap.cell[a + 1] = 1
            BY <2>1, <2>4, <3>1 DEF SidesHaveOne, SideArrays, ArraySize
        <3>3. heap.cell[a] \in Arrays
            BY <2>4 DEF SideArrays, Arrays
        <3>4. HeapStep(a) = a + 3
            BY <2>1, <3>2, <3>3 DEF HeapStep
        <3>5. Extent(heap, a) = 3
            BY <2>4 DEF Extent, SizeOf
        <3> QED  BY <2>2, <2>3, <3>4, <3>5 DEF Onward
    <2>5. CASE heap.cell[a] \notin SideArrays
        BY <2>1, <2>2, <2>3, <2>5 DEF Onward, HeapStep, Extent, SizeOf
    <2> QED  BY <2>4, <2>5
<1>6. \A a \in S \cup {top} : Onward(a) \in S \cup {top}
    <2>1. Onward(top) = top
        BY <1>4 DEF Onward
    <2> QED  BY <1>1, <1>5, <2>1 DEF Layout
<1> QED  BY <1>1, <1>2, <1>3, <1>4, <1>5, <1>6 DEF Layout

\* The iterator starts at the first cell and goes on from structure to structure.
LEMMA MovesAre ==
    ASSUME NEW N, Fits(N), SidesHaveOne, NEW S, S = Objects \cup N, NEW top, top = heap.top,
           NEW at, at = MovedToNext
    PROVE  /\ at[0] = 1
           /\ \A k \in 1 .. top : at[k] = Onward(at[k - 1])
           /\ \A k \in 0 .. top : at[k] \in S \cup {top}
<1>1. PICK T : T = S \cup {top}
    OBVIOUS
<1>2. top \in Nat /\ 1 \in T /\ \A a \in T : Onward(a) \in T
    BY <1>1, OnwardIs
<1>3. PICK next : next = [a \in T |-> Onward(a)]
    OBVIOUS
<1>4. next \in [T -> T] /\ \A a \in T : next[a] = Onward(a)
    BY <1>2, <1>3
<1>5. PICK g \in [0 .. top -> T] : g[0] = 1 /\ \A k \in 1 .. top : g[k] = next[g[k - 1]]
    <2>1. Walkable(T, next, 1, top)
        BY <1>2, <1>4, WalkExists
    <2> QED  BY <2>1 DEF Walkable
<1> DEFINE Walk(f) == f = [k \in 0 .. heap.top |-> IF k = 0 THEN 1
                                                  ELSE IF AtFS(f[k - 1]) THEN HeapStep(f[k - 1]) ELSE f[k - 1]]
<1>6. Walk(g)
    <2>1. ASSUME NEW k \in 0 .. top PROVE g[k] = IF k = 0 THEN 1 ELSE Onward(g[k - 1])
        <3>1. CASE k = 0
            BY <1>5, <3>1
        <3>2. CASE k # 0
            <4>1. k \in 1 .. top /\ k - 1 \in 0 .. top
                BY <1>2, <3>2
            <4>2. g[k - 1] \in T
                BY <1>5, <4>1
            <4> QED  BY <1>4, <1>5, <3>2, <4>1, <4>2
        <3> QED  BY <3>1, <3>2
    <2>2. g = [k \in 0 .. top |-> g[k]]
        BY <1>5
    <2>3. g = [k \in 0 .. top |-> IF k = 0 THEN 1 ELSE Onward(g[k - 1])]
        BY <2>1, <2>2
    <2> QED  BY <2>3 DEF Onward
<1>7. at = CHOOSE f : Walk(f)
    BY Zenon DEF MovedToNext
<1> HIDE DEF Walk
<1>8. Walk(at)
    BY <1>6, <1>7
<1>9. at = [k \in 0 .. top |-> IF k = 0 THEN 1 ELSE Onward(at[k - 1])]
    BY <1>8 DEF Walk, Onward
<1>10. at[0] = 1
    BY <1>2, <1>9
<1>11. ASSUME NEW k \in 1 .. top PROVE at[k] = Onward(at[k - 1])
    <2>1. k \in 0 .. top /\ k # 0
        BY <1>2
    <2> QED  BY <1>9, <2>1
<1>12. \A k \in 0 .. top : at[k] \in T
    <2>1. \A k \in 1 .. top : at[k - 1] \in T => at[k] \in T
        BY <1>2, <1>11
    <2>2. at[0] \in T
        BY <1>2, <1>10
    <2> QED  BY <1>2, <2>1, <2>2, WalkStays
<1> QED  BY <1>1, <1>10, <1>11, <1>12

\* It comes by a structure after fewer moves than that has cells before it.
LEMMA AllReached ==
    ASSUME NEW N, Fits(N), SidesHaveOne, NEW S, S = Objects \cup N, NEW at, at = MovedToNext
    PROVE  \A a \in S : \E k \in 0 .. a - 1 : at[k] = a
<1> DEFINE Bad == {a \in S : ~\E k \in 0 .. a - 1 : at[k] = a}
<1> SUFFICES ASSUME Bad # {} PROVE FALSE
    OBVIOUS
<1>1. PICK top : top = heap.top
    OBVIOUS
<1>2. /\ top \in Nat \ {0} /\ S \subseteq Nat \ {0}
      /\ \A a \in S : Onward(a) = a + Extent(heap, a) /\ Extent(heap, a) \in Nat \ {0}
    BY <1>1, OnwardIs
<1>3. at[0] = 1 /\ \A k \in 1 .. top : at[k] = Onward(at[k - 1])
    BY <1>1, MovesAre
<1>4. PICK a \in Bad : \A b \in Bad : a <= b
    <2>1. Bad \in SUBSET Nat
        BY <1>2
    <2> HIDE DEF Bad
    <2> QED  BY <2>1, LeastExists
<1>5. a \in S /\ a \in Nat \ {0} /\ ~\E k \in 0 .. a - 1 : at[k] = a
    BY <1>2, <1>4
<1>6. a # 1
    <2>1. 0 \in 0 .. a - 1
        BY <1>5
    <2> QED  BY <1>3, <1>5, <2>1
<1>7. Layout(heap, S)
    BY FitsIs
<1>8. PICK b \in S : a = b + Extent(heap, b)
    BY <1>5, <1>6, <1>7 DEF Layout
<1>9. b \in Nat \ {0} /\ b < a
    BY <1>2, <1>8
<1>10. b \notin Bad
    <2>1. ~(a <= b)
        BY <1>5, <1>9
    <2> HIDE DEF Bad
    <2> QED  BY <1>4, <2>1
<1>11. PICK k \in 0 .. b - 1 : at[k] = b
    BY <1>8, <1>10
<1>12. a < top
    BY <1>1, <1>2, <1>5, <1>7, TopIsFree
<1>13. PICK l : l = k + 1
    OBVIOUS
<1>14. l \in 1 .. top /\ l - 1 = k /\ l \in 0 .. a - 1
    BY <1>2, <1>5, <1>9, <1>11, <1>12, <1>13
<1>15. at[l] = a
    BY <1>2, <1>3, <1>8, <1>11, <1>14
<1> QED  BY <1>5, <1>14, <1>15

\* It comes by all structures and nothing else.
LEMMA IteratedIs ==
    ASSUME NEW N, Fits(N), SidesHaveOne
    PROVE  HeapIterator = Objects \cup N
<1>1. PICK S, top, at : S = Objects \cup N /\ top = heap.top /\ at = MovedToNext
    OBVIOUS
<1>2. /\ top \in Nat \ {0} /\ S \subseteq Nat \ {0} /\ ~AtFS(top)
      /\ \A a \in S : AtFS(a)
    BY <1>1, OnwardIs
<1>3. \A k \in 0 .. top : at[k] \in S \cup {top}
    BY <1>1, MovesAre
<1>4. HeapIterator = {at[k] : k \in {j \in 0 .. top : AtFS(at[j])}}
    BY <1>1 DEF HeapIterator
<1>5. HeapIterator \subseteq S
    BY <1>2, <1>3, <1>4
<1>6. ASSUME NEW a \in S PROVE a \in HeapIterator
    <2>1. PICK k \in 0 .. a - 1 : at[k] = a
        BY <1>1, AllReached
    <2>2. a < top
        <3>1. Layout(heap, S) /\ heap.top \in Nat
            BY <1>1, <1>2, FitsIs
        <3> QED  BY <1>1, <3>1, TopIsFree
    <2>3. k \in 0 .. top
        BY <1>2, <2>1, <2>2
    <2> QED  BY <1>2, <1>4, <2>1, <2>3
<1> QED  BY <1>1, <1>5, <1>6

\* When everything fits, the iterator sees all that is in the heap.
LEMMA FitsIterates ==
    ASSUME EverythingFits
    PROVE  IteratorSeesAll
<1> SUFFICES ASSUME SidesHaveOne
             PROVE  /\ Objects \subseteq HeapIterator
                    /\ (\A h \in Handles : list[h] = 0) => HeapIterator = Objects
    BY DEF IteratorSeesAll, SidesHaveOne
<1>1. PICK N : Fits(N)
    BY DEF EverythingFits
<1>2. HeapIterator = Objects \cup N
    BY <1>1, IteratedIs
<1>3. (\A h \in Handles : list[h] = 0) => N = {}
    BY <1>1 DEF Fits, HandlesFit
<1> QED  BY <1>2, <1>3

-----------------------------------------------------------------------------
(* Chains as paths *)

\* Two walks that start at one place and never part stay together.
LEMMA WalksAgree ==
    ASSUME NEW p, NEW q, NEW n \in Nat, p[0] = q[0], \A k \in 0 .. n - 1 : p[k] = q[k] => p[k + 1] = q[k + 1]
    PROVE  \A k \in 0 .. n : p[k] = q[k]
<1> DEFINE Bad == {k \in 0 .. n : p[k] # q[k]}
<1> SUFFICES ASSUME Bad # {} PROVE FALSE
    OBVIOUS
<1>1. PICK m \in Bad : \A l \in Bad : m <= l
    <2>1. Bad \in SUBSET Nat
        OBVIOUS
    <2> HIDE DEF Bad
    <2> QED  BY <2>1, LeastExists
<1>2. m \in 0 .. n /\ p[m] # q[m] /\ m # 0
    BY <1>1
<1>3. PICK l \in 0 .. n - 1 : m = l + 1
    <2>1. m - 1 \in 0 .. n - 1 /\ m = (m - 1) + 1
        BY <1>2
    <2> QED  BY <2>1
<1>4. l \notin Bad
    <2>1. ~(m <= l)
        BY <1>3
    <2> HIDE DEF Bad
    <2> QED  BY <1>1, <2>1
<1>5. p[l] = q[l]
    BY <1>3, <1>4
<1> QED  BY <1>2, <1>3, <1>5

\* In h, p goes from node to node n times.
Along(h, p, n) == \A k \in 0 .. n - 1 : IsNode(h, p[k]) /\ p[k + 1] = TailOf(h, p[k])

\* The chain from a has the n nodes p[0] to p[n - 1], and its end is p[n].
Path(h, a, p, n) == n \in Nat /\ p[0] = a /\ Along(h, p, n) /\ ~IsNode(h, p[n])

\* A place has one path.
LEMMA PathUnique ==
    ASSUME NEW h, NEW a, NEW p, NEW n, NEW q, NEW m, Path(h, a, p, n), Path(h, a, q, m)
    PROVE  n = m /\ \A k \in 0 .. n : p[k] = q[k]
<1>1. n \in Nat /\ m \in Nat /\ p[0] = q[0] /\ ~IsNode(h, p[n]) /\ ~IsNode(h, q[m]) /\ Along(h, p, n) /\ Along(h, q, m)
    BY DEF Path
<1>2. PICK l \in Nat : l <= n /\ l <= m /\ (l = n \/ l = m)
    BY <1>1
<1>3. ASSUME NEW k \in 0 .. l - 1, p[k] = q[k] PROVE p[k + 1] = q[k + 1]
    <2>1. k \in 0 .. n - 1 /\ k \in 0 .. m - 1
        BY <1>1, <1>2
    <2> QED  BY <1>1, <1>3, <2>1 DEF Along
<1>4. \A k \in 0 .. l : p[k] = q[k]
    BY <1>1, <1>3, WalksAgree
<1>5. p[l] = q[l]
    BY <1>4
<1>6. ~(l < n)
    <2> SUFFICES ASSUME l < n PROVE FALSE
        OBVIOUS
    <2>1. l \in 0 .. n - 1 /\ l = m
        BY <1>1, <1>2
    <2>2. IsNode(h, p[l])
        BY <1>1, <2>1 DEF Along
    <2> QED  BY <1>1, <1>5, <2>1, <2>2
<1>7. ~(l < m)
    <2> SUFFICES ASSUME l < m PROVE FALSE
        OBVIOUS
    <2>1. l \in 0 .. m - 1 /\ l = n
        BY <1>1, <1>2
    <2>2. IsNode(h, q[l])
        BY <1>1, <2>1 DEF Along
    <2> QED  BY <1>1, <1>5, <2>1, <2>2
<1> QED  BY <1>1, <1>2, <1>4, <1>6, <1>7

\* From each of its places on, a path is a path.
LEMMA PathFrom ==
    ASSUME NEW h, NEW a, NEW p, NEW n, Path(h, a, p, n), NEW i \in 0 .. n, NEW q, q = [k \in 0 .. n - i |-> p[i + k]]
    PROVE  Path(h, p[i], q, n - i)
<1>1. n \in Nat /\ n - i \in Nat /\ ~IsNode(h, p[n]) /\ Along(h, p, n) /\ i \in Nat
    BY DEF Path
<1>2. \A k \in 0 .. n - i : q[k] = p[i + k]
    OBVIOUS
<1>3. q[0] = p[i] /\ q[n - i] = p[n]
    <2>1. 0 \in 0 .. n - i /\ n - i \in 0 .. n - i /\ i + 0 = i /\ i + (n - i) = n
        BY <1>1
    <2>2. q[0] = p[i + 0] /\ q[n - i] = p[i + (n - i)]
        BY <1>2, <2>1
    <2> QED  BY <2>1, <2>2
<1>4. ASSUME NEW k \in 0 .. (n - i) - 1 PROVE IsNode(h, q[k]) /\ q[k + 1] = TailOf(h, q[k])
    <2>1. i + k \in 0 .. n - 1 /\ k \in 0 .. n - i /\ k + 1 \in 0 .. n - i /\ (i + k) + 1 = i + (k + 1)
        BY <1>1
    <2>2. q[k] = p[i + k] /\ q[k + 1] = p[(i + k) + 1]
        BY <1>2, <2>1
    <2>3. IsNode(h, p[i + k]) /\ p[(i + k) + 1] = TailOf(h, p[i + k])
        BY <1>1, <2>1 DEF Along
    <2> QED  BY <2>2, <2>3
<1> QED  BY <1>1, <1>3, <1>4 DEF Path, Along

\* A path never comes to a place twice: it would run in a circle.
LEMMA PathApart ==
    ASSUME NEW h, NEW a, NEW p, NEW n, Path(h, a, p, n), NEW i \in 0 .. n, NEW j \in 0 .. n, p[i] = p[j]
    PROVE  i = j
<1>0. n \in Nat
    BY DEF Path
<1>1. PICK q : q = [k \in 0 .. n - i |-> p[i + k]]
    OBVIOUS
<1>2. PICK r : r = [k \in 0 .. n - j |-> p[j + k]]
    OBVIOUS
<1>3. Path(h, p[i], q, n - i) /\ Path(h, p[j], r, n - j)
    BY <1>1, <1>2, PathFrom
<1>4. n - i = n - j
    BY <1>3, PathUnique
<1> QED  BY <1>0, <1>4

\* The places of a path and its end are in S; its nodes are not in W.
Within(p, n, S) == \A k \in 0 .. n : p[k] \in S
Avoids(p, n, W) == \A k \in 0 .. n - 1 : p[k] \notin W

\* The places of a path, and the elements there
Places(p, n) == [i \in 1 .. n |-> p[i - 1]]
Heads(h, p, n) == [i \in 1 .. n |-> HeadOf(h, p[i - 1])]

\* The list at a is the path p with n nodes, which lies in S.
ListAt(h, S, a, p, n) ==
    /\ Path(h, a, p, n)
    /\ Within(p, n, S)
    /\ Chain(h, a) = Places(p, n)
    /\ Elements(h, a) = Heads(h, p, n)
    /\ n > 0 => LastNode(h, a) = p[n - 1]

\* When the chain from a ends, the places it goes through are a path.
LEMMA EndsIs ==
    ASSUME NEW h, NEW S, Closed(h, S), NEW a \in S, Ends(h, a), NEW at, at = Step(h, a), NEW n, n = ListLength(h, a)
    PROVE  Path(h, a, at, n) /\ \A k \in 0 .. n : at[k] \in S
<1>1. /\ at[0] = a
      /\ \A k \in 0 .. h.top : at[k] \in S
      /\ \A k \in 1 .. h.top : at[k] = Behind(h, at[k - 1])
    BY StepGoes
<1>2. PICK top \in Nat : top = h.top
    BY DEF Closed
<1> DEFINE E == {k \in 0 .. top : ~IsNode(h, at[k])}
           IsLength(k) == ~IsNode(h, at[k]) /\ \A m \in 0 .. k - 1 : IsNode(h, at[m])
<1>3. E \in SUBSET Nat /\ top \in E
    BY <1>2 DEF Ends
<1>4. PICK e \in E : \A k \in E : e <= k
    <2> HIDE DEF E
    <2> QED  BY <1>3, LeastExists
<1>5. e \in 0 .. top /\ IsLength(e)
    <2>1. e \in 0 .. top /\ ~IsNode(h, at[e])
        BY <1>4
    <2>2. ASSUME NEW m \in 0 .. e - 1 PROVE IsNode(h, at[m])
        <3>1. m \in 0 .. top /\ ~(e <= m)
            BY <2>1
        <3> QED  BY <1>4, <3>1
    <2> QED  BY <2>1, <2>2
<1>6. n = CHOOSE k \in 0 .. top : IsLength(k)
    <2>1. n = CHOOSE k \in 0 .. h.top : ~IsNode(h, at[k]) /\ \A m \in 0 .. k - 1 : IsNode(h, at[m])
        BY Zenon DEF ListLength
    <2> QED  BY <1>2, <2>1
<1> HIDE DEF IsLength, E
<1>7. n \in 0 .. top /\ IsLength(n)
    BY <1>5, <1>6
<1>8. Along(h, at, n)
    <2>1. ASSUME NEW k \in 0 .. n - 1 PROVE IsNode(h, at[k]) /\ at[k + 1] = TailOf(h, at[k])
        <3>1. IsNode(h, at[k])
            BY <1>7 DEF IsLength
        <3>2. k + 1 \in 1 .. h.top /\ (k + 1) - 1 = k
            BY <1>2, <1>7
        <3>3. at[k + 1] = Behind(h, at[k])
            BY <1>1, <3>2
        <3> QED  BY <3>1, <3>3 DEF Behind
    <2> QED  BY <2>1 DEF Along
<1>9. ~IsNode(h, at[n])
    BY <1>7 DEF IsLength
<1>10. \A k \in 0 .. n : at[k] \in S
    BY <1>1, <1>2, <1>7
<1> QED  BY <1>1, <1>7, <1>8, <1>9, <1>10 DEF Path

\* So what there is to say of a list is said of any of its paths.
LEMMA ListIs ==
    ASSUME NEW h, NEW S, Closed(h, S), NEW a \in S, Ends(h, a), NEW p, NEW n, Path(h, a, p, n)
    PROVE  ListAt(h, S, a, p, n)
<1>1. PICK at, m : at = Step(h, a) /\ m = ListLength(h, a)
    OBVIOUS
<1>2. Path(h, a, at, m) /\ \A k \in 0 .. m : at[k] \in S
    BY <1>1, EndsIs
<1>3. n = m /\ \A k \in 0 .. n : p[k] = at[k]
    BY <1>2, PathUnique
<1>4. n \in Nat
    BY DEF Path
<1>5. Chain(h, a) = Places(p, n)
    <2>1. Chain(h, a) = [i \in 1 .. n |-> at[i - 1]]
        BY <1>1, <1>3 DEF Chain
    <2>2. \A i \in 1 .. n : at[i - 1] = p[i - 1]
        BY <1>3, <1>4
    <2> QED  BY <2>1, <2>2 DEF Places
<1>6. Elements(h, a) = Heads(h, p, n)
    <2>1. Elements(h, a) = [i \in 1 .. n |-> HeadOf(h, at[i - 1])]
        BY <1>1, <1>3 DEF Elements
    <2>2. \A i \in 1 .. n : at[i - 1] = p[i - 1]
        BY <1>3, <1>4
    <2> QED  BY <2>1, <2>2 DEF Heads
<1>7. n > 0 => LastNode(h, a) = p[n - 1]
    <2>1. LastNode(h, a) = at[n - 1]
        BY <1>1, <1>3 DEF LastNode
    <2>2. n > 0 => n - 1 \in 0 .. n
        BY <1>4
    <2> QED  BY <1>3, <2>1, <2>2
<1>8. Within(p, n, S)
    BY <1>2, <1>3 DEF Within
<1> QED  BY <1>5, <1>6, <1>7, <1>8 DEF ListAt

\* Every chain that ends is a list.
LEMMA ListExists ==
    ASSUME NEW h, NEW S, Closed(h, S), NEW a \in S, Ends(h, a)
    PROVE  \E p, n : ListAt(h, S, a, p, n)
<1>1. PICK at, m : at = Step(h, a) /\ m = ListLength(h, a)
    OBVIOUS
<1>2. Path(h, a, at, m)
    BY <1>1, EndsIs
<1> QED  BY <1>2, ListIs

-----------------------------------------------------------------------------
(* What writing tails does to paths *)

\* The places at S hold nodes in g where they do in h, and those apart from W have their tails.
Rewired(h, g, S, W) ==
    /\ \A a \in S : IsNode(g, a) <=> IsNode(h, a)
    /\ \A a \in S : IsNode(h, a) /\ a \notin W => TailOf(g, a) = TailOf(h, a)

\* The nodes at S apart from W have their elements.
HeadsKept(h, g, S, W) == \A a \in S : IsNode(h, a) /\ a \notin W => HeadOf(g, a) = HeadOf(h, a)

\* A path through none of the nodes written is one still.
LEMMA PathKept ==
    ASSUME NEW h, NEW g, NEW S, NEW W, Rewired(h, g, S, W), NEW a, NEW p, NEW n, Path(h, a, p, n),
           Within(p, n, S), Avoids(p, n, W)
    PROVE  Path(g, a, p, n)
<1>1. /\ n \in Nat /\ p[0] = a /\ Along(h, p, n) /\ ~IsNode(h, p[n])
      /\ (\A k \in 0 .. n : p[k] \in S) /\ \A k \in 0 .. n - 1 : p[k] \notin W
    BY DEF Path, Within, Avoids
<1>2. p[n] \in S
    BY <1>1
<1>3. ASSUME NEW k \in 0 .. n - 1 PROVE IsNode(g, p[k]) /\ p[k + 1] = TailOf(g, p[k])
    <2>1. p[k] \in S /\ p[k] \notin W
        BY <1>1
    <2>2. IsNode(h, p[k]) /\ p[k + 1] = TailOf(h, p[k])
        BY <1>1 DEF Along
    <2> QED  BY <2>1, <2>2 DEF Rewired
<1> QED  BY <1>1, <1>2, <1>3 DEF Path, Along, Rewired

\* Its place k is the first of a path that is a node in W.
FirstAt(p, n, k, W) == k \in 0 .. n - 1 /\ p[k] \in W /\ Avoids(p, k, W)

\* A walk from its place i on
From(p, i, n) == [k \in 0 .. n - i |-> p[i + k]]

\* Any other goes its way to the first of them, and from there as was written.
LEMMA PathTurns ==
    ASSUME NEW h, NEW g, NEW S, NEW W, Rewired(h, g, S, W), NEW a, NEW p, NEW n, Path(h, a, p, n),
           Within(p, n, S), NEW k, FirstAt(p, n, k, W), NEW q, NEW m, Path(g, a, q, m)
    PROVE  /\ k < m /\ \A j \in 0 .. k : q[j] = p[j]
           /\ Path(g, TailOf(g, p[k]), From(q, k + 1, m), m - (k + 1))
           /\ \A i \in 0 .. m - (k + 1) : From(q, k + 1, m)[i] # p[k]
<1>0. PICK r : r = [i \in 0 .. m - (k + 1) |-> q[(k + 1) + i]]
    OBVIOUS
<1>1. /\ n \in Nat /\ p[0] = a /\ Along(h, p, n)
      /\ m \in Nat /\ q[0] = a /\ Along(g, q, m) /\ ~IsNode(g, q[m])
      /\ (\A j \in 0 .. n : p[j] \in S) /\ \A j \in 0 .. k - 1 : p[j] \notin W
      /\ k \in 0 .. n - 1 /\ p[k] \in W
    BY DEF Path, Within, Avoids, FirstAt
<1>2. PICK l \in Nat : l <= k /\ l <= m /\ (l = k \/ l = m)
    <2>1. k \in Nat /\ m \in Nat
        BY <1>1
    <2> QED  BY <2>1
<1>3. ASSUME NEW j \in 0 .. l - 1, p[j] = q[j] PROVE p[j + 1] = q[j + 1]
    <2>1. j \in 0 .. n /\ j \in 0 .. n - 1 /\ j \in 0 .. m - 1 /\ j \in 0 .. k - 1
        BY <1>1, <1>2
    <2>2. p[j] \in S /\ p[j] \notin W /\ IsNode(h, p[j]) /\ p[j + 1] = TailOf(h, p[j]) /\ q[j + 1] = TailOf(g, q[j])
        BY <1>1, <2>1 DEF Along
    <2> QED  BY <1>3, <2>2 DEF Rewired
<1>4. \A j \in 0 .. l : p[j] = q[j]
    <2>1. p[0] = q[0] /\ l \in Nat /\ \A j \in 0 .. l - 1 : p[j] = q[j] => p[j + 1] = q[j + 1]
        BY <1>1, <1>2, <1>3
    <2> QED  BY <2>1, WalksAgree
<1>5. p[l] = q[l]
    BY <1>4
<1>6. IsNode(g, p[l])
    <2>1. l \in 0 .. n /\ l \in 0 .. n - 1
        BY <1>1, <1>2
    <2>2. p[l] \in S /\ IsNode(h, p[l])
        BY <1>1, <2>1 DEF Along
    <2> QED  BY <2>2 DEF Rewired
<1>7. l # m
    BY <1>1, <1>5, <1>6
<1>8. l = k /\ k < m
    BY <1>1, <1>2, <1>7
<1>9. q[k] = p[k] /\ q[k + 1] = TailOf(g, p[k])
    <2>1. k \in 0 .. m - 1
        BY <1>1, <1>8
    <2> QED  BY <1>1, <1>5, <1>8, <2>1 DEF Along
<1>10. k + 1 \in 0 .. m /\ k \in 0 .. m
    BY <1>1, <1>8
<1>11. Path(g, q[k + 1], r, m - (k + 1))
    BY <1>0, <1>10, PathFrom
<1>12. ASSUME NEW i \in 0 .. m - (k + 1), r[i] = p[k] PROVE FALSE
    <2>1. (k + 1) + i \in 0 .. m /\ (k + 1) + i # k
        BY <1>1, <1>10
    <2>2. q[(k + 1) + i] = q[k]
        BY <1>0, <1>9, <1>12
    <2> QED  BY <1>10, <2>1, <2>2, PathApart
<1>13. From(q, k + 1, m) = r
    BY <1>0 DEF From
<1> QED  BY <1>4, <1>8, <1>9, <1>11, <1>12, <1>13

\* A heap whose structures lie at S
Placed(h, S) == HeapFits(h) /\ Layout(h, S)

\* One cell of a node at w is written: its tail or its element.
LEMMA NodeCellSet ==
    ASSUME NEW h, NEW S, Placed(h, S), NEW w \in S, IsNode(h, w), NEW x \in {1, 2}, NEW v, NEW g, g = SetCells(h, w + x, <<v>>)
    PROVE  /\ Placed(g, S) /\ g.top = h.top
           /\ g.cell[w + x] = v
           /\ \A a \in S : g.cell[a] = h.cell[a]
           /\ \A a \in S : \A y \in {1, 2} : h.cell[a] = NEIntList /\ ~(a = w /\ y = x) => g.cell[a + y] = h.cell[a + y]
<1>1. HeapFits(h) /\ Layout(h, S) /\ h.top \in Nat
    BY DEF Placed, HeapFits
<1>2. h.cell[w] = NEIntList /\ Extent(h, w) = 3 /\ NEIntList \notin Arrays /\ NEIntList \notin SideArrays
    BY TypesAre DEF IsNode, TypeOf, Extent, SizeOf
<1>3. w \in Nat \ {0} /\ w + 3 <= h.top
    BY <1>1, <1>2 DEF Layout
<1>4. PICK p : p = w + x
    OBVIOUS
<1>5. p \in Nat /\ p < h.top /\ g = SetCells(h, p, <<v>>)
    BY <1>1, <1>3, <1>4
<1>6. /\ HeapFits(g) /\ g.top = h.top /\ g.cell[p] = v
      /\ \A q \in 0 .. h.top - 1 : q # p => g.cell[q] = h.cell[q]
    BY <1>1, <1>5, SetCellFits
<1>7. HeadersKept(h, g, S)
    <2>1. Inside(h, S, {p})
        BY <1>1, <1>2, <1>4 DEF Inside
    <2>2. \A q \in 0 .. h.top - 1 : q \notin {p} => g.cell[q] = h.cell[q]
        BY <1>6
    <2> QED  BY <1>1, <2>1, <2>2, HeadersStay
<1>8. Layout(g, S)
    BY <1>1, <1>6, <1>7, LayoutKept
<1>9. \A a \in S : g.cell[a] = h.cell[a]
    BY <1>7 DEF HeadersKept
<1>10. ASSUME NEW a \in S, NEW y \in {1, 2}, h.cell[a] = NEIntList, ~(a = w /\ y = x) PROVE g.cell[a + y] = h.cell[a + y]
    <2>1. Extent(h, a) = 3
        BY <1>10, TypesAre DEF Extent, SizeOf
    <2>2. a \in Nat /\ a + 3 <= h.top
        BY <1>1, <2>1 DEF Layout
    <2>3. a + y \in 0 .. h.top - 1 /\ y \in 0 .. Extent(h, a) - 1 /\ x \in 0 .. Extent(h, w) - 1
        BY <1>1, <1>2, <2>1, <2>2
    <2>4. a + y # p
        <3> SUFFICES ASSUME a + y = w + x PROVE FALSE
            BY <1>4
        <3>1. a = w /\ y = x
            BY <1>1, <2>3, Interior
        <3> QED  BY <1>10, <3>1
    <2> QED  BY <1>6, <2>3, <2>4
<1> QED  BY <1>4, <1>6, <1>8, <1>9, <1>10 DEF Placed

\* Writing the tail of a node rewires nothing else and keeps all elements.
LEMMA TailSet ==
    ASSUME NEW h, NEW S, Placed(h, S), NEW w \in S, IsNode(h, w), NEW b, NEW g, g = SetTailOf(h, w, b)
    PROVE  /\ Placed(g, S) /\ g.top = h.top
           /\ Rewired(h, g, S, {w}) /\ HeadsKept(h, g, S, {}) /\ TailOf(g, w) = b
<1>1. PICK x \in {1, 2} : x = 2
    OBVIOUS
<1>2. g = SetCells(h, w + x, <<b>>)
    BY <1>1 DEF SetTailOf, TailFeature
<1>3. /\ Placed(g, S) /\ g.top = h.top
      /\ g.cell[w + x] = b
      /\ \A a \in S : g.cell[a] = h.cell[a]
      /\ \A a \in S : \A y \in {1, 2} : h.cell[a] = NEIntList /\ ~(a = w /\ y = x) => g.cell[a + y] = h.cell[a + y]
    BY <1>2, NodeCellSet
<1>4. Rewired(h, g, S, {w})
    BY <1>1, <1>3 DEF Rewired, IsNode, TypeOf, TailOf, TailFeature
<1>5. HeadsKept(h, g, S, {})
    BY <1>1, <1>3 DEF HeadsKept, IsNode, TypeOf, HeadOf, HeadFeature
<1> QED  BY <1>1, <1>3, <1>4, <1>5 DEF TailOf, TailFeature

\* Writing the element of a node rewires nothing and keeps the others.
LEMMA HeadSet ==
    ASSUME NEW h, NEW S, Placed(h, S), NEW w \in S, IsNode(h, w), NEW v, NEW g, g = SetCells(h, w + HeadFeature, <<v>>)
    PROVE  Rewired(h, g, S, {}) /\ HeadsKept(h, g, S, {w}) /\ HeadOf(g, w) = v
<1>1. PICK x \in {1, 2} : x = 1
    OBVIOUS
<1>2. g = SetCells(h, w + x, <<v>>)
    BY <1>1 DEF HeadFeature
<1>3. /\ Placed(g, S) /\ g.top = h.top
      /\ g.cell[w + x] = v
      /\ \A a \in S : g.cell[a] = h.cell[a]
      /\ \A a \in S : \A y \in {1, 2} : h.cell[a] = NEIntList /\ ~(a = w /\ y = x) => g.cell[a + y] = h.cell[a + y]
    BY <1>2, NodeCellSet
<1>4. Rewired(h, g, S, {})
    BY <1>1, <1>3 DEF Rewired, IsNode, TypeOf, TailOf, TailFeature
<1>5. HeadsKept(h, g, S, {w})
    BY <1>1, <1>3 DEF HeadsKept, IsNode, TypeOf, HeadOf, HeadFeature
<1> QED  BY <1>1, <1>3, <1>4, <1>5 DEF HeadOf, HeadFeature

\* A heap that grows keeps its paths and their elements.
LEMMA GrownRewires ==
    ASSUME NEW h, NEW g, NEW S, Placed(h, S), Grown(h, g)
    PROVE  Rewired(h, g, S, {}) /\ HeadsKept(h, g, S, {})
<1>1. /\ HeadersKept(h, g, S)
      /\ \A a \in S : h.cell[a] = NEIntList => g.cell[a + 1] = h.cell[a + 1] /\ g.cell[a + 2] = h.cell[a + 2]
    <2>1. Layout(h, S) /\ h.top \in Nat
        BY DEF Placed, HeapFits
    <2> QED  BY <2>1, GrownKeeps
<1>2. Rewired(h, g, S, {})
    BY <1>1 DEF HeadersKept, Rewired, IsNode, TypeOf, TailOf, TailFeature
<1>3. HeadsKept(h, g, S, {})
    BY <1>1 DEF HeadsKept, IsNode, TypeOf, HeadOf, HeadFeature
<1> QED  BY <1>2, <1>3

\* A new node has its element and its tail, and lies behind all that was there.
LEMMA NodeMade ==
    ASSUME NEW h, NEW S, Placed(h, S), NEW v, NEW tail, NEW k, k = h.top, NEW g, g = NewNode(h, v, tail), NEW T, T = S \cup {k}
    PROVE  /\ Placed(g, T) /\ k \notin S /\ Rewired(h, g, S, {}) /\ HeadsKept(h, g, S, {})
           /\ IsNode(g, k) /\ HeadOf(g, k) = v /\ TailOf(g, k) = tail /\ g.top = k + 3
<1>1. PICK w : w = <<NEIntList, v, tail>>
    OBVIOUS
<1>2. PICK m \in Nat : m = 3
    OBVIOUS
<1>3. HeapFits(h) /\ Layout(h, S) /\ Len(w) \in Nat /\ Len(w) <= m /\ g = SetCells(IncreaseHeap(h, m), h.top, w)
    BY <1>1, <1>2 DEF Placed, NewNode
<1>4. /\ HeapFits(g) /\ Grown(h, g) /\ g.top = h.top + m
      /\ \A i \in 1 .. Len(w) : g.cell[h.top + (i - 1)] = w[i]
    BY <1>3, BlockFits
<1>5. k \in Nat \ {0}
    BY <1>3 DEF HeapFits
<1>6. g.cell[k] = NEIntList /\ g.cell[k + 1] = v /\ g.cell[k + 2] = tail
    <2>1. 1 \in 1 .. Len(w) /\ 2 \in 1 .. Len(w) /\ 3 \in 1 .. Len(w) /\ w[1] = NEIntList /\ w[2] = v /\ w[3] = tail
        BY <1>1
    <2>2. g.cell[k + (1 - 1)] = NEIntList /\ g.cell[k + (2 - 1)] = v /\ g.cell[k + (3 - 1)] = tail
        BY <1>4, <2>1
    <2>3. k + (1 - 1) = k /\ k + (2 - 1) = k + 1 /\ k + (3 - 1) = k + 2
        BY <1>5
    <2> QED  BY <2>2, <2>3
<1>7. HeadersKept(h, g, S) /\ k \notin S
    BY <1>3, <1>4, <1>5, GrownKeeps, TopIsFree
<1>8. Layout(g, T)
    <2>1. Extent(g, k) = 3
        BY <1>6, TypesAre DEF Extent, SizeOf
    <2>2. g.top = h.top + Extent(g, h.top) /\ g.cell[h.top] \in Types /\ g.cell[h.top] \notin Arrays
        BY <1>2, <1>4, <1>6, <2>1, TypesAre
    <2> QED  BY <1>3, <1>5, <1>7, <2>2, LayoutGrown
<1>9. Rewired(h, g, S, {}) /\ HeadsKept(h, g, S, {})
    BY <1>4, GrownRewires
<1>10. IsNode(g, k) /\ HeadOf(g, k) = v /\ TailOf(g, k) = tail
    BY <1>6 DEF IsNode, TypeOf, HeadOf, HeadFeature, TailOf, TailFeature
<1> QED  BY <1>2, <1>4, <1>7, <1>8, <1>9, <1>10 DEF Placed

\* A new empty list is no node, and lies behind all that was there.
LEMMA EmptyMade ==
    ASSUME NEW h, NEW S, Placed(h, S), NEW k, k = h.top, NEW g, g = CreateFS(h, EIntList), NEW T, T = S \cup {k}
    PROVE  /\ Placed(g, T) /\ k \notin S /\ Rewired(h, g, S, {}) /\ HeadsKept(h, g, S, {})
           /\ ~IsNode(g, k)
<1>1. HeapFits(h) /\ Layout(h, S) /\ EIntList \in Types /\ Len(FeaturesOf[EIntList]) = 0 /\ k \in Nat \ {0}
    BY TypesAre DEF Placed, HeapFits
<1>2. HeapFits(g) /\ Grown(h, g) /\ g.top = k + 1 /\ g.cell[k] = EIntList
    <2>1. HeapFits(g) /\ Grown(h, g) /\ g.top = h.top + (0 + 1) /\ g.cell[h.top] = EIntList
        BY <1>1, CreateFSFits
    <2> QED  BY <2>1
<1>3. HeadersKept(h, g, S) /\ k \notin S
    BY <1>1, <1>2, GrownKeeps, TopIsFree
<1>4. Layout(g, T)
    <2>1. Extent(g, k) = 1
        BY <1>2, TypesAre DEF Extent, SizeOf
    <2>2. g.top = h.top + Extent(g, h.top) /\ g.cell[h.top] \in Types /\ g.cell[h.top] \notin Arrays
        BY <1>2, <2>1, TypesAre
    <2> QED  BY <1>1, <1>3, <2>2, LayoutGrown
<1>5. Rewired(h, g, S, {}) /\ HeadsKept(h, g, S, {})
    BY <1>2, GrownRewires
<1>6. ~IsNode(g, k)
    BY <1>2 DEF IsNode, TypeOf, EIntList, NEIntList
<1> QED  BY <1>2, <1>3, <1>4, <1>5, <1>6 DEF Placed

-----------------------------------------------------------------------------
(* The elements of a path as a sequence *)

\* The elements of a path are in V. Those of q from its place i on are those of p.
HeadsIn(h, p, n, V) == \A k \in 0 .. n - 1 : HeadOf(h, p[k]) \in V
HeadsMatch(g, q, i, h, p, n) == \A k \in 0 .. n - 1 : HeadOf(g, q[i + k]) = HeadOf(h, p[k])

\* They are a sequence.
LEMMA HeadsAre ==
    ASSUME NEW h, NEW p, NEW n \in Nat, NEW V, HeadsIn(h, p, n, V), NEW s, s = Heads(h, p, n)
    PROVE  /\ s \in Seq(V) /\ Len(s) = n /\ DOMAIN s = 1 .. n
           /\ \A i \in 1 .. n : s[i] = HeadOf(h, p[i - 1])
<1>1. \A i \in 1 .. n : HeadOf(h, p[i - 1]) \in V
    BY DEF HeadsIn
<1>2. s = [i \in 1 .. n |-> HeadOf(h, p[i - 1])]
    BY DEF Heads
<1>3. s \in [1 .. n -> V] /\ DOMAIN s = 1 .. n /\ \A i \in 1 .. n : s[i] = HeadOf(h, p[i - 1])
    BY <1>1, <1>2
<1>4. s \in Seq(V)
    BY <1>3, SeqDef
<1>5. Len(s) = n
    BY <1>3, <1>4, LenProperties
<1> QED  BY <1>3, <1>4, <1>5

\* A set all of them are in, for two paths at once
LEMMA HeadsRange ==
    ASSUME NEW h, NEW p, NEW n, NEW f, NEW r, NEW m
    PROVE  \E V : HeadsIn(h, p, n, V) /\ HeadsIn(f, r, m, V)
<1>1. PICK V : V = {HeadOf(h, p[k]) : k \in 0 .. n - 1} \cup {HeadOf(f, r[k]) : k \in 0 .. m - 1}
    OBVIOUS
<1>2. HeadsIn(h, p, n, V) /\ HeadsIn(f, r, m, V)
    BY <1>1 DEF HeadsIn
<1> QED  BY <1>2

\* Equal elements make equal sequences.
LEMMA HeadsEqual ==
    ASSUME NEW h, NEW p, NEW g, NEW q, NEW n \in Nat, HeadsMatch(g, q, 0, h, p, n)
    PROVE  Heads(g, q, n) = Heads(h, p, n)
<1>1. \A i \in 1 .. n : HeadOf(g, q[i - 1]) = HeadOf(h, p[i - 1])
    BY DEF HeadsMatch
<1> QED  BY <1>1 DEF Heads

\* The elements of q are first those of the n nodes of p and then those of the m nodes of r.
Joined(g, q, l, h, p, n, f, r, m) ==
    n \in Nat /\ m \in Nat /\ l = n + m /\ HeadsMatch(g, q, 0, h, p, n) /\ HeadsMatch(g, q, n, f, r, m)

\* The elements of two paths one after the other
LEMMA HeadsJoined ==
    ASSUME NEW h, NEW p, NEW n, NEW f, NEW r, NEW m, NEW g, NEW q, NEW l, Joined(g, q, l, h, p, n, f, r, m)
    PROVE  Heads(g, q, l) = Heads(h, p, n) \o Heads(f, r, m)
<1>0. n \in Nat /\ m \in Nat /\ l = n + m /\ HeadsMatch(g, q, 0, h, p, n) /\ HeadsMatch(g, q, n, f, r, m)
    BY DEF Joined
<1> USE <1>0
<1>1. PICK V : HeadsIn(h, p, n, V) /\ HeadsIn(f, r, m, V)
    BY HeadsRange
<1>2. PICK s, t, u : s = Heads(h, p, n) /\ t = Heads(f, r, m) /\ u = Heads(g, q, l)
    OBVIOUS
<1>3. l \in Nat
    OBVIOUS
<1>4. \A k \in 0 .. l - 1 : HeadOf(g, q[k]) = IF k < n THEN HeadOf(h, p[k]) ELSE HeadOf(f, r[k - n])
    <2>1. ASSUME NEW k \in 0 .. l - 1 PROVE HeadOf(g, q[k]) = IF k < n THEN HeadOf(h, p[k]) ELSE HeadOf(f, r[k - n])
        <3>1. CASE k < n
            <4>1. k \in 0 .. n - 1 /\ 0 + k = k
                BY <3>1
            <4> QED  BY <3>1, <4>1 DEF HeadsMatch
        <3>2. CASE ~(k < n)
            <4>1. k - n \in 0 .. m - 1 /\ n + (k - n) = k
                BY <3>2
            <4>2. HeadOf(g, q[n + (k - n)]) = HeadOf(f, r[k - n])
                BY <4>1 DEF HeadsMatch
            <4> QED  BY <3>2, <4>1, <4>2
        <3> QED  BY <3>1, <3>2
    <2> QED  BY <2>1
<1>5. HeadsIn(g, q, l, V)
    <2>1. ASSUME NEW k \in 0 .. l - 1 PROVE HeadOf(g, q[k]) \in V
        <3>1. CASE k < n
            BY <1>1, <1>4, <3>1 DEF HeadsIn
        <3>2. CASE ~(k < n)
            <4>1. k - n \in 0 .. m - 1
                BY <3>2
            <4> QED  BY <1>1, <1>4, <3>2, <4>1 DEF HeadsIn
        <3> QED  BY <3>1, <3>2
    <2> QED  BY <2>1 DEF HeadsIn
<1>6. /\ s \in Seq(V) /\ Len(s) = n /\ \A i \in 1 .. n : s[i] = HeadOf(h, p[i - 1])
      /\ t \in Seq(V) /\ Len(t) = m /\ \A i \in 1 .. m : t[i] = HeadOf(f, r[i - 1])
    BY <1>1, <1>2, HeadsAre
<1>7. u \in Seq(V) /\ Len(u) = l /\ \A i \in 1 .. l : u[i] = HeadOf(g, q[i - 1])
    BY <1>2, <1>3, <1>5, HeadsAre
<1>8. PICK w : w = s \o t
    OBVIOUS
<1>9. /\ w \in Seq(V) /\ Len(w) = l
      /\ \A i \in 1 .. l : w[i] = IF i <= n THEN s[i] ELSE t[i - n]
    BY <1>6, <1>8, ConcatProperties
<1>10. ASSUME NEW i \in 1 .. l PROVE u[i] = w[i]
    <2>1. i - 1 \in 0 .. l - 1
        BY <1>3
    <2>2. u[i] = IF i - 1 < n THEN HeadOf(h, p[i - 1]) ELSE HeadOf(f, r[(i - 1) - n])
        BY <1>4, <1>7, <2>1
    <2>3. CASE i <= n
        <3>1. i \in 1 .. n /\ i - 1 < n
            BY <2>3
        <3> QED  BY <1>6, <1>9, <2>2, <2>3, <3>1
    <2>4. CASE ~(i <= n)
        <3>1. i - n \in 1 .. m /\ ~(i - 1 < n) /\ (i - n) - 1 = (i - 1) - n
            BY <2>4
        <3>2. t[i - n] = HeadOf(f, r[(i - n) - 1])
            BY <1>6, <3>1
        <3> QED  BY <1>9, <2>2, <2>4, <3>1, <3>2
    <2> QED  BY <2>3, <2>4
<1>11. u = w
    BY <1>7, <1>9, <1>10, SeqEqual
<1> QED  BY <1>2, <1>8, <1>11

\* The m places of q are those of p from i on.
Follows(q, m, p, i) == \A k \in 0 .. m - 1 : q[k] = p[i + k]

\* The first i of them, and those from there on
LEMMA HeadsParts ==
    ASSUME NEW h, NEW p, NEW n \in Nat, NEW i \in 0 .. n, NEW m, m = n - i, NEW q, Follows(q, m, p, i)
    PROVE  /\ SubSeq(Heads(h, p, n), 1, i) = Heads(h, p, i)
           /\ SubSeq(Heads(h, p, n), i + 1, n) = Heads(h, q, m)
           /\ Heads(h, p, n) = Heads(h, p, i) \o Heads(h, q, m)
<1>0. \A k \in 0 .. m - 1 : q[k] = p[i + k]
    BY DEF Follows
<1>1. PICK V : HeadsIn(h, p, n, V)
    BY HeadsRange
<1>2. PICK s, t, u : s = Heads(h, p, n) /\ t = Heads(h, p, i) /\ u = Heads(h, q, m)
    OBVIOUS
<1>3. i \in Nat /\ m \in Nat /\ n = i + m
    OBVIOUS
<1>4. HeadsIn(h, p, i, V)
    BY <1>1 DEF HeadsIn
<1>5. HeadsIn(h, q, m, V)
    <2>1. ASSUME NEW k \in 0 .. m - 1 PROVE HeadOf(h, q[k]) \in V
        <3>1. i + k \in 0 .. n - 1 /\ q[k] = p[i + k]
            BY <1>0, <1>3
        <3> QED  BY <1>1, <3>1 DEF HeadsIn
    <2> QED  BY <2>1 DEF HeadsIn
<1>6. /\ s \in Seq(V) /\ Len(s) = n /\ \A j \in 1 .. n : s[j] = HeadOf(h, p[j - 1])
      /\ t \in Seq(V) /\ Len(t) = i /\ \A j \in 1 .. i : t[j] = HeadOf(h, p[j - 1])
    BY <1>1, <1>2, <1>3, <1>4, HeadsAre
<1>7. u \in Seq(V) /\ Len(u) = m /\ \A j \in 1 .. m : u[j] = HeadOf(h, q[j - 1])
    BY <1>2, <1>3, <1>5, HeadsAre
<1>8. PICK f : f = SubSeq(s, 1, i)
    OBVIOUS
<1>9. PICK e : e = SubSeq(s, i + 1, n)
    OBVIOUS
<1>10. \A j \in 1 .. n : s[j] \in V
    BY <1>6
<1>11. f \in Seq(V) /\ Len(f) = i /\ \A j \in 1 .. i : f[j] = s[j]
    <2>1. \A j \in 1 .. i : s[j] \in V
        BY <1>10
    <2>2. 1 \in Int /\ i \in Int
        BY <1>3
    <2>3. /\ f \in Seq(V) /\ Len(f) = (IF 1 <= i THEN i - 1 + 1 ELSE 0)
          /\ \A j \in 1 .. i - 1 + 1 : f[j] = s[1 + j - 1]
        BY <1>8, <2>1, <2>2, SubSeqProperties
    <2> QED  BY <1>3, <2>3
<1>12. e \in Seq(V) /\ Len(e) = m /\ \A j \in 1 .. m : e[j] = s[i + j]
    <2>1. \A j \in i + 1 .. n : s[j] \in V
        BY <1>10
    <2>2. i + 1 \in Int /\ n \in Int
        BY <1>3
    <2>3. /\ e \in Seq(V) /\ Len(e) = (IF i + 1 <= n THEN n - (i + 1) + 1 ELSE 0)
          /\ \A j \in 1 .. n - (i + 1) + 1 : e[j] = s[(i + 1) + j - 1]
        BY <1>9, <2>1, <2>2, SubSeqProperties
    <2> QED  BY <1>3, <2>3
<1>13. f = t
    <2>1. \A j \in 1 .. i : f[j] = t[j]
        BY <1>6, <1>11
    <2> QED  BY <1>6, <1>11, <2>1, SeqEqual
<1>14. e = u
    <2>1. ASSUME NEW j \in 1 .. m PROVE e[j] = u[j]
        <3>1. j - 1 \in 0 .. m - 1 /\ i + j \in 1 .. n /\ i + (j - 1) = (i + j) - 1
            BY <1>3
        <3>2. q[j - 1] = p[(i + j) - 1]
            BY <1>0, <3>1
        <3> QED  BY <1>6, <1>7, <1>12, <3>1, <3>2
    <2> QED  BY <1>7, <1>12, <2>1, SeqEqual
<1>15. s = t \o u
    <2>1. HeadsMatch(h, p, i, h, q, m)
        BY <1>0 DEF HeadsMatch
    <2>2. HeadsMatch(h, p, 0, h, p, i)
        BY <1>3 DEF HeadsMatch
    <2>3. Joined(h, p, n, h, p, i, h, q, m)
        BY <1>3, <2>1, <2>2 DEF Joined
    <2>4. Heads(h, p, n) = Heads(h, p, i) \o Heads(h, q, m)
        BY <2>3, HeadsJoined
    <2> QED  BY <1>2, <2>4
<1> QED  BY <1>2, <1>8, <1>9, <1>13, <1>14, <1>15

-----------------------------------------------------------------------------
(* What a call makes of a list *)

\* The first i elements alone
LEMMA HeadsFirst ==
    ASSUME NEW h, NEW p, NEW n \in Nat, NEW i \in 0 .. n
    PROVE  SubSeq(Heads(h, p, n), 1, i) = Heads(h, p, i)
<1>1. PICK m, q : m = n - i /\ q = [j \in 0 .. m - 1 |-> p[i + j]]
    OBVIOUS
<1>2. Follows(q, m, p, i)
    BY <1>1 DEF Follows
<1>3. m = n - i
    BY <1>1
<1>4. SubSeq(Heads(h, p, n), 1, i) = Heads(h, p, i) /\ Heads(h, p, n) = Heads(h, p, i) \o Heads(h, q, m)
    BY <1>2, <1>3, HeadsParts, Z3
<1> QED  BY <1>4

\* The m places of q are all those of p from i on.
RestIs(p, n, i, q, m) == i \in 0 .. n /\ m = n - i /\ Follows(q, m, p, i)

RestHeads(h, p, n, i, q, m) == SubSeq(Heads(h, p, n), i + 1, n) = Heads(h, q, m)

\* So are the elements.
LEMMA HeadsRest ==
    ASSUME NEW h, NEW p, NEW n \in Nat, NEW i, NEW q, NEW m, RestIs(p, n, i, q, m)
    PROVE  RestHeads(h, p, n, i, q, m)
<1>1. i \in 0 .. n /\ m = n - i /\ Follows(q, m, p, i)
    BY DEF RestIs
<1>2. /\ Heads(h, p, n) = Heads(h, p, i) \o Heads(h, q, m)
      /\ SubSeq(Heads(h, p, n), i + 1, n) = Heads(h, q, m)
    BY <1>1, HeadsParts, Z3
<1> QED  BY <1>2 DEF RestHeads

\* Heap h becomes g by writing tails of nodes in W. The places of h are at S, those of g at T.
Changed(h, g, S, T, W) == Closed(g, T) /\ Rewired(h, g, S, W) /\ HeadsKept(h, g, S, {})

\* In g the list at a has the elements of h as far as place k of p, and from there on those of another path.
GoesOn(h, g, T, a, p, k) ==
    \E r, m : /\ Path(g, TailOf(g, p[k]), r, m) /\ \A i \in 0 .. m : r[i] # p[k]
              /\ Within(r, m, T)
              /\ Elements(g, a) = Heads(h, p, k + 1) \o Heads(g, r, m)

\* The elements along a walk are kept.
LEMMA HeadsKeptAlong ==
    ASSUME NEW h, NEW g, NEW S, HeadsKept(h, g, S, {}), NEW p, NEW n \in Nat, Along(h, p, n), Within(p, n, S),
           NEW q, \A k \in 0 .. n - 1 : q[k] = p[k]
    PROVE  HeadsMatch(g, q, 0, h, p, n)
<1>1. ASSUME NEW k \in 0 .. n - 1 PROVE HeadOf(g, q[0 + k]) = HeadOf(h, p[k])
    <2>1. k \in 0 .. n /\ 0 + k = k /\ q[k] = p[k]
        OBVIOUS
    <2>2. p[k] \in S /\ IsNode(h, p[k])
        BY <2>1 DEF Along, Within
    <2> QED  BY <2>1, <2>2 DEF HeadsKept
<1> QED  BY <1>1 DEF HeadsMatch

\* A list with none of the nodes written is as before.
LEMMA ListKept ==
    ASSUME NEW h, NEW g, NEW S, NEW T, NEW W, NEW a \in T, Changed(h, g, S, T, W),
           NEW p, NEW n, ListAt(h, S, a, p, n), Avoids(p, n, W), Ends(g, a)
    PROVE  ListAt(g, T, a, p, n) /\ Elements(g, a) = Elements(h, a)
<1>0. Closed(g, T) /\ Rewired(h, g, S, W) /\ HeadsKept(h, g, S, {})
    BY DEF Changed
<1>1. Path(h, a, p, n) /\ Within(p, n, S) /\ Elements(h, a) = Heads(h, p, n)
    BY DEF ListAt
<1>2. Path(g, a, p, n)
    BY <1>0, <1>1, PathKept
<1>3. ListAt(g, T, a, p, n)
    BY <1>0, <1>2, ListIs
<1>4. n \in Nat
    BY <1>1 DEF Path
<1>5. HeadsMatch(g, p, 0, h, p, n)
    BY <1>0, <1>1, <1>4, HeadsKeptAlong DEF Path
<1>6. Heads(g, p, n) = Heads(h, p, n)
    BY <1>4, <1>5, HeadsEqual
<1> QED  BY <1>1, <1>3, <1>6 DEF ListAt

\* A list with a node written goes on as was written there.
LEMMA ListTurns ==
    ASSUME NEW h, NEW g, NEW S, NEW T, NEW W, NEW a \in T, Changed(h, g, S, T, W),
           NEW p, NEW n, ListAt(h, S, a, p, n), NEW k, FirstAt(p, n, k, W), Ends(g, a)
    PROVE  GoesOn(h, g, T, a, p, k)
<1>0. Closed(g, T) /\ Rewired(h, g, S, W) /\ HeadsKept(h, g, S, {})
    BY DEF Changed
<1>1. Path(h, a, p, n) /\ Within(p, n, S) /\ Along(h, p, n) /\ n \in Nat
    BY DEF ListAt, Path
<1>2. PICK q, l : ListAt(g, T, a, q, l)
    BY <1>0, ListExists
<1>3. Path(g, a, q, l) /\ Within(q, l, T) /\ Elements(g, a) = Heads(g, q, l) /\ l \in Nat
    BY <1>2 DEF ListAt, Path
<1>4. PICK r : r = From(q, k + 1, l)
    OBVIOUS
<1>5. /\ k < l /\ \A j \in 0 .. k : q[j] = p[j]
      /\ Path(g, TailOf(g, p[k]), r, l - (k + 1))
      /\ \A i \in 0 .. l - (k + 1) : r[i] # p[k]
    BY <1>0, <1>1, <1>3, <1>4, PathTurns
<1>6. PICK m : m = l - (k + 1)
    OBVIOUS
<1>7. m \in Nat /\ k + 1 \in Nat /\ l = (k + 1) + m
    BY <1>1, <1>3, <1>5, <1>6 DEF FirstAt
<1>8. ASSUME NEW i \in 0 .. m PROVE r[i] = q[(k + 1) + i] /\ r[i] \in T
    <2>1. (k + 1) + i \in 0 .. l
        BY <1>7
    <2> QED  BY <1>3, <1>4, <1>6, <2>1 DEF Within, From
<1>9. HeadsMatch(g, q, 0, h, p, k + 1)
    <2>1. Along(h, p, k + 1) /\ Within(p, k + 1, S)
        BY <1>1 DEF Along, Within, FirstAt
    <2>2. \A j \in 0 .. (k + 1) - 1 : q[j] = p[j]
        BY <1>5 DEF FirstAt
    <2> QED  BY <1>0, <1>7, <2>1, <2>2, HeadsKeptAlong
<1>10. HeadsMatch(g, q, k + 1, g, r, m)
    BY <1>7, <1>8 DEF HeadsMatch
<1>11. Heads(g, q, l) = Heads(h, p, k + 1) \o Heads(g, r, m)
    <2>1. Joined(g, q, l, h, p, k + 1, g, r, m)
        BY <1>7, <1>9, <1>10 DEF Joined
    <2> QED  BY <2>1, HeadsJoined
<1>12. /\ Path(g, TailOf(g, p[k]), r, m) /\ \A i \in 0 .. m : r[i] # p[k]
       /\ Within(r, m, T)
       /\ Elements(g, a) = Heads(h, p, k + 1) \o Heads(g, r, m)
    BY <1>3, <1>5, <1>6, <1>8, <1>11 DEF Within
<1> QED  BY <1>12 DEF GoesOn

\* It becomes g by writing the tail of node w.
ChangedAt(h, g, S, T, w) == Changed(h, g, S, T, {w})

\* When the tail of one node is written with the place of a list, the lists with the node go on
\* with that list. If they came by the node again they would run in a circle.
LEMMA ListJoins ==
    ASSUME NEW h, NEW g, NEW S, NEW T, NEW w, NEW a \in T, ChangedAt(h, g, S, T, w),
           NEW p, NEW n, ListAt(h, S, a, p, n), NEW k \in 0 .. n - 1, p[k] = w, Ends(g, a),
           NEW b, b = TailOf(g, w), NEW s, NEW l, ListAt(h, S, b, s, l)
    PROVE  Elements(g, a) = Heads(h, p, k + 1) \o Elements(h, b)
<1>0. Closed(g, T) /\ Rewired(h, g, S, {w}) /\ HeadsKept(h, g, S, {}) /\ Changed(h, g, S, T, {w})
    BY DEF Changed, ChangedAt
<1>1. Path(h, a, p, n) /\ n \in Nat /\ Path(h, b, s, l) /\ l \in Nat /\ Elements(h, b) = Heads(h, s, l) /\ Within(s, l, S)
    BY DEF ListAt, Path
<1>2. Avoids(p, k, {w})
    <2> SUFFICES ASSUME NEW j \in 0 .. k - 1, p[j] = p[k] PROVE FALSE
        BY DEF Avoids
    <2>1. j \in 0 .. n /\ k \in 0 .. n /\ j # k
        BY <1>1
    <2> QED  BY <1>1, <2>1, PathApart
<1>3. PICK r, m : /\ Path(g, b, r, m) /\ \A i \in 0 .. m : r[i] # w
                  /\ Within(r, m, T)
                  /\ Elements(g, a) = Heads(h, p, k + 1) \o Heads(g, r, m)
    <2>1. FirstAt(p, n, k, {w})
        BY <1>2 DEF FirstAt
    <2>2. GoesOn(h, g, T, a, p, k)
        BY <1>0, <2>1, ListTurns
    <2> QED  BY <2>2 DEF GoesOn
<1>4. Avoids(s, l, {w})
    <2> DEFINE Bad == {j \in 0 .. l - 1 : s[j] = w}
    <2> SUFFICES ASSUME Bad # {} PROVE FALSE
        BY DEF Avoids
    <2>1. PICK j \in Bad : \A i \in Bad : j <= i
        <3>1. Bad \in SUBSET Nat
            OBVIOUS
        <3> HIDE DEF Bad
        <3> QED  BY <3>1, LeastExists
    <2>2. j \in 0 .. l - 1 /\ s[j] = w
        BY <2>1
    <2>3. Avoids(s, j, {w})
        <3> SUFFICES ASSUME NEW i \in 0 .. j - 1, s[i] = w PROVE FALSE
            BY DEF Avoids
        <3>1. i \in 0 .. l - 1 /\ ~(j <= i)
            BY <1>1, <2>2
        <3>2. i \in Bad
            BY <3>1
        <3> QED  BY <2>1, <3>1, <3>2
    <2>5. j < m /\ \A i \in 0 .. j : r[i] = s[i]
        <3>1. FirstAt(s, l, j, {w})
            BY <2>2, <2>3 DEF FirstAt
        <3> QED  BY <1>0, <1>1, <1>3, <3>1, PathTurns
    <2>6. j \in 0 .. j /\ j \in 0 .. m
        BY <1>1, <1>3, <2>2, <2>5 DEF Path
    <2> QED  BY <1>3, <2>2, <2>5, <2>6
<1>5. Path(g, b, s, l)
    BY <1>0, <1>1, <1>4, PathKept
<1>6. m = l /\ \A i \in 0 .. l : r[i] = s[i]
    BY <1>3, <1>5, PathUnique
<1>7. HeadsMatch(g, r, 0, h, s, l)
    <2>1. Along(h, s, l) /\ \A i \in 0 .. l - 1 : r[i] = s[i]
        BY <1>1, <1>6 DEF Path
    <2> QED  BY <1>0, <1>1, <2>1, HeadsKeptAlong
<1>8. Heads(g, r, m) = Heads(h, s, l)
    BY <1>1, <1>6, <1>7, HeadsEqual
<1> QED  BY <1>1, <1>3, <1>8

\* The elements of a path that is kept
LEMMA HeadsStay ==
    ASSUME NEW h, NEW g, NEW S, NEW T, NEW W, NEW a, Changed(h, g, S, T, W),
           NEW p, NEW n, ListAt(h, S, a, p, n), Avoids(p, n, W)
    PROVE  Path(g, a, p, n) /\ Heads(g, p, n) = Elements(h, a)
<1>0. Closed(g, T) /\ Rewired(h, g, S, W) /\ HeadsKept(h, g, S, {})
    BY DEF Changed
<1>1. Path(h, a, p, n) /\ Within(p, n, S) /\ Elements(h, a) = Heads(h, p, n) /\ n \in Nat /\ Along(h, p, n)
    BY DEF ListAt, Path
<1>2. Path(g, a, p, n)
    BY <1>0, <1>1, PathKept
<1>3. HeadsMatch(g, p, 0, h, p, n)
    BY <1>0, <1>1, HeadsKeptAlong
<1> QED  BY <1>1, <1>2, <1>3, HeadsEqual

\* Where there is no node, the list is empty, ...
LEMMA ListEmpty ==
    ASSUME NEW g, NEW T, Closed(g, T), NEW k \in T, Ends(g, k), ~IsNode(g, k)
    PROVE  Elements(g, k) = << >> /\ Chain(g, k) = << >>
<1>1. PICK p, n : n = 0 /\ p = [i \in 0 .. n |-> k]
    OBVIOUS
<1>2. Path(g, k, p, n)
    BY <1>1 DEF Path, Along
<1>3. ListAt(g, T, k, p, n)
    BY <1>2, ListIs
<1> QED  BY <1>1, <1>3 DEF ListAt, Heads, Places

\* ... and from a node on it has the element of the node and those behind it.
LEMMA ListLinked ==
    ASSUME NEW g, NEW T, Closed(g, T), NEW k \in T, Ends(g, k), IsNode(g, k), NEW p, NEW n, Path(g, TailOf(g, k), p, n)
    PROVE  Elements(g, k) = <<HeadOf(g, k)>> \o Heads(g, p, n)
<1>1. n \in Nat /\ p[0] = TailOf(g, k) /\ Along(g, p, n) /\ ~IsNode(g, p[n])
    BY DEF Path
<1>2. PICK m \in Nat : m = n + 1
    BY <1>1
<1>3. PICK q : q = [i \in 0 .. m |-> IF i = 0 THEN k ELSE p[i - 1]]
    OBVIOUS
<1>4. q[0] = k /\ \A i \in 1 .. m : q[i] = p[i - 1]
    BY <1>3
<1>5. ASSUME NEW i \in 0 .. m - 1 PROVE IsNode(g, q[i]) /\ q[i + 1] = TailOf(g, q[i])
    <2>1. i + 1 \in 1 .. m /\ (i + 1) - 1 = i
        OBVIOUS
    <2>2. q[i + 1] = p[i]
        BY <1>4, <2>1
    <2>3. CASE i = 0
        BY <1>1, <1>4, <2>2, <2>3
    <2>4. CASE i # 0
        <3>1. i \in 1 .. m /\ i - 1 \in 0 .. n - 1 /\ (i - 1) + 1 = i
            BY <1>1, <1>2, <2>4
        <3>2. q[i] = p[i - 1]
            BY <1>4, <3>1
        <3>3. IsNode(g, p[i - 1]) /\ p[(i - 1) + 1] = TailOf(g, p[i - 1])
            BY <1>1, <3>1 DEF Along
        <3> QED  BY <2>2, <3>1, <3>2, <3>3
    <2> QED  BY <2>3, <2>4
<1>6. ~IsNode(g, q[m])
    <2>1. m \in 1 .. m /\ m - 1 = n
        BY <1>1, <1>2
    <2> QED  BY <1>1, <1>4, <2>1
<1>7. Path(g, k, q, m)
    BY <1>4, <1>5, <1>6 DEF Path, Along
<1>8. Elements(g, k) = Heads(g, q, m)
    BY <1>7, ListIs DEF ListAt
<1>9. Heads(g, q, m) = Heads(g, q, 1) \o Heads(g, p, n)
    <2>1. PICK i : i = 1
        OBVIOUS
    <2>2. i \in 0 .. m /\ n = m - i
        BY <1>1, <1>2, <2>1
    <2>3. Follows(p, n, q, i)
        <3>1. \A j \in 0 .. n - 1 : i + j \in 1 .. m /\ (i + j) - 1 = j
            BY <1>1, <1>2, <2>1
        <3> QED  BY <1>4, <3>1 DEF Follows
    <2>4. Heads(g, q, m) = Heads(g, q, i) \o Heads(g, p, n)
        BY <2>2, <2>3, HeadsParts
    <2> QED  BY <2>1, <2>4
<1>10. Heads(g, q, 1) = <<HeadOf(g, k)>>
    BY <1>4 DEF Heads
<1> QED  BY <1>8, <1>9, <1>10

\* No elements are the empty sequence.
LEMMA HeadsNone ==
    ASSUME NEW h, NEW p, NEW n, n = 0, NEW f, NEW r, NEW m \in Nat
    PROVE  Heads(h, p, n) = << >> /\ Heads(f, r, m) \o Heads(h, p, n) = Heads(f, r, m) /\ Heads(h, p, n) \o Heads(f, r, m) = Heads(f, r, m)
<1>1. Heads(h, p, n) = << >>
    BY DEF Heads
<1>2. PICK V : HeadsIn(f, r, m, V)
    BY HeadsRange
<1>3. PICK s : s = Heads(f, r, m)
    OBVIOUS
<1>4. s \in Seq(V)
    BY <1>2, <1>3, HeadsAre
<1>5. s \o << >> = s /\ << >> \o s = s
    BY <1>4, ConcatEmptySeq
<1> QED  BY <1>1, <1>3, <1>5

\* The last place of a list, and where a place is in it
LEMMA PlacesAre ==
    ASSUME NEW h, NEW a, NEW p, NEW n, Path(h, a, p, n)
    PROVE  /\ LastOf(Places(p, n)) = IF n = 0 THEN 0 ELSE p[n - 1]
           /\ \A x : (\A k \in 0 .. n - 1 : p[k] # x) => Index(Places(p, n), x) = 0
           /\ \A k \in 0 .. n - 1 : Index(Places(p, n), p[k]) = k + 1 /\ Places(p, n)[k + 1] = p[k]
<1>1. n \in Nat
    BY DEF Path
<1>2. PICK s : s = Places(p, n)
    OBVIOUS
<1>3. DOMAIN s = 1 .. n /\ \A i \in 1 .. n : s[i] = p[i - 1]
    BY <1>2 DEF Places
<1>4. s \in Seq({p[k] : k \in 0 .. n - 1})
    <2>1. \A i \in 1 .. n : i - 1 \in 0 .. n - 1
        BY <1>1
    <2>2. s \in [1 .. n -> {p[k] : k \in 0 .. n - 1}]
        BY <1>2, <2>1 DEF Places
    <2> QED  BY <1>1, <2>2, SeqDef
<1>5. Len(s) = n
    BY <1>1, <1>3, <1>4, LenProperties
<1>6. LastOf(s) = IF n = 0 THEN 0 ELSE p[n - 1]
    <2>1. CASE n = 0
        BY <1>2, <2>1 DEF LastOf, Places
    <2>2. CASE n # 0
        <3>1. n \in 1 .. n
            BY <1>1, <2>2
        <3>2. s # << >>
            BY <1>5, <2>2
        <3> QED  BY <1>3, <1>5, <2>2, <3>1, <3>2 DEF LastOf
    <2> QED  BY <2>1, <2>2
<1>7. ASSUME NEW x, \A k \in 0 .. n - 1 : p[k] # x PROVE Index(s, x) = 0
    <2>1. \A i \in 1 .. n : i - 1 \in 0 .. n - 1
        BY <1>1
    <2>2. ~\E i \in DOMAIN s : s[i] = x
        BY <1>3, <1>7, <2>1
    <2> QED  BY <2>2 DEF Index
<1>8. ASSUME NEW k \in 0 .. n - 1 PROVE Index(s, p[k]) = k + 1 /\ s[k + 1] = p[k]
    <2>1. k + 1 \in DOMAIN s /\ s[k + 1] = p[k]
        BY <1>1, <1>3
    <2>2. ASSUME NEW i \in DOMAIN s, s[i] = p[k] PROVE i = k + 1
        <3>1. i - 1 \in 0 .. n /\ k \in 0 .. n /\ p[i - 1] = p[k] /\ i \in 1 .. n
            BY <1>1, <1>3, <2>2
        <3>2. i - 1 = k
            BY <3>1, PathApart
        <3> QED  BY <3>1, <3>2
    <2>3. Index(s, p[k]) = CHOOSE i \in DOMAIN s : s[i] = p[k]
        BY <2>1 DEF Index
    <2> QED  BY <2>1, <2>2, <2>3
<1> QED  BY <1>2, <1>6, <1>7, <1>8

\* When a list has the last node of another, that is its own last node too.
LEMMA LastIsLast ==
    ASSUME NEW h, NEW a, NEW p, NEW n, Path(h, a, p, n), NEW b, NEW q, NEW m, Path(h, b, q, m), m > 0,
           NEW k \in 0 .. n - 1, p[k] = q[m - 1]
    PROVE  n = k + 1
<1>1. n \in Nat /\ m \in Nat /\ Along(h, p, n) /\ Along(h, q, m) /\ ~IsNode(h, q[m])
    BY DEF Path
<1>2. p[k + 1] = q[m]
    <2>1. m - 1 \in 0 .. m - 1 /\ (m - 1) + 1 = m
        BY <1>1
    <2>2. q[m] = TailOf(h, q[m - 1])
        BY <1>1, <2>1 DEF Along
    <2>3. p[k + 1] = TailOf(h, p[k])
        BY <1>1 DEF Along
    <2> QED  BY <2>2, <2>3
<1>3. ~(k + 1 \in 0 .. n - 1)
    BY <1>1, <1>2 DEF Along
<1> QED  BY <1>1, <1>3

-----------------------------------------------------------------------------
(* The calls on lists *)

\* What the invariant says of lists: where they are, ...
LEMMA ListsBefore ==
    ASSUME NEW N, Fits(N), NEW S, S = Objects \cup N
    PROVE  /\ Placed(heap, S) /\ Closed(heap, S) /\ S \subseteq Nat \ {0}
           /\ \A h \in Handles : list[h] # 0 => list[h] \in S
<1>1. HeapFits(heap) /\ Layout(heap, S) /\ HandlesFit(N, S)
    BY DEF Fits, HeapsAreFit
<1>2. \A b \in S : IsNode(heap, b) => TailOf(heap, b) \in S
    BY NodeIs
<1> QED  BY <1>1, <1>2 DEF Placed, Closed, HeapFits, Layout, HandlesFit

\* ... and where they are after a step.
LEMMA ListsAfter ==
    ASSUME EverythingFits'
    PROVE  \E T : Closed(heap', T) /\ \A h \in Handles : list'[h] # 0 => list'[h] \in T
<1>1. PICK N : Fits(N)'
    BY DEF EverythingFits
<1>2. PICK T : T = Objects' \cup N
    OBVIOUS
<1>3. HeapFits(heap') /\ NodesFit(heap', N, T) /\ HandlesFit(N, T)' /\ \A b \in Objects' : ObjectFits(b, T)'
    BY <1>1, <1>2 DEF Fits, HeapsAreFit, ObjectsFit
<1>4. ASSUME NEW b \in T, IsNode(heap', b) PROVE TailOf(heap', b) \in T
    <2>1. heap'.cell[b] = NEIntList
        BY <1>4 DEF IsNode, TypeOf
    <2>2. b \notin Objects'
        BY <1>3, <2>1, TypesAre DEF ObjectFits
    <2>3. TailOf(heap', b) = heap'.cell[b + 2] /\ b \in N
        BY <1>2, <2>2 DEF TailOf, TailFeature
    <2> QED  BY <1>3, <2>1, <2>3 DEF NodesFit
<1>5. heap'.top \in Nat
    BY <1>3 DEF HeapFits
<1>6. \A h \in Handles : list'[h] # 0 => list'[h] \in T
    BY <1>3 DEF HandlesFit
<1> QED  BY <1>4, <1>5, <1>6 DEF Closed

\* A list that does not change its place and has no node written is as before.
LEMMA ListStays ==
    ASSUME NEW S, NEW W, Rewired(heap, heap', S, W), HeadsKept(heap, heap', S, {}),
           NEW a, NEW p, NEW n, ListAt(heap, S, a, p, n), Avoids(p, n, W),
           NEW T, Closed(heap', T), a \in T, Ends(heap', a)
    PROVE  Elements(heap', a) = Elements(heap, a)
<1>1. Changed(heap, heap', S, T, W)
    BY DEF Changed
<1> QED  BY <1>1, ListKept

\* The lists, with their chains and contents, that a call finds
Valids == {h \in Handles : list[h] # 0}
Chains == [h \in Valids |-> Chain(heap, list[h])]
Held == [h \in Valids |-> Elements(heap, list[h])]

\* What a call on h has to show of the list g
ListsStand(N, S, T, g) ==
    /\ Fits(N) /\ S = Objects \cup N
    /\ Closed(heap', T)
    /\ \A h \in Valids : Ends(heap, list[h])
    /\ Ends(heap', list'[g]) /\ list'[g] \in T

\* Each list found is a path.
LEMMA ListFound ==
    ASSUME NEW N, NEW S, NEW T, NEW g, ListsStand(N, S, T, g), NEW h \in Valids
    PROVE  /\ \E p, n : ListAt(heap, S, list[h], p, n) /\ n \in Nat
           /\ Chains[h] = Chain(heap, list[h]) /\ Held[h] = Elements(heap, list[h])
           /\ list[h] \in S /\ list[h] # 0 /\ h \in Handles
<1>1. h \in Handles /\ list[h] # 0 /\ Chains[h] = Chain(heap, list[h]) /\ Held[h] = Elements(heap, list[h])
    BY DEF Valids, Chains, Held
<1>2. Closed(heap, S) /\ list[h] \in S /\ Ends(heap, list[h])
    BY <1>1, ListsBefore DEF ListsStand
<1>3. \E p, n : ListAt(heap, S, list[h], p, n)
    BY <1>2, ListExists
<1> QED  BY <1>1, <1>2, <1>3 DEF ListAt, Path

\* A path of places below the top has no other.
LEMMA TopAvoided ==
    ASSUME NEW S, NEW k, k \notin S, NEW a, NEW p, NEW n, ListAt(heap, S, a, p, n)
    PROVE  Avoids(p, n, {}) /\ Avoids(p, n, {k})
<1>1. Within(p, n, S) /\ n \in Nat
    BY DEF ListAt, Path
<1>2. \A j \in 0 .. n - 1 : p[j] \in S
    BY <1>1 DEF Within
<1> QED  BY <1>2 DEF Avoids

\* A list object that is not on the call stays where it is.
LEMMA OthersMoved ==
    ASSUME NEW h, NEW a, Moved(h, a), NEW g \in Valids, g # h
    PROVE  list'[g] = list[g]
    BY DEF Moved, Valids

\* The list object on the call stands where it was moved.
LEMMA MovedIs ==
    ASSUME NEW N, Fits(N), NEW h \in Handles, NEW a, Moved(h, a)
    PROVE  list'[h] = a
<1>1. DOMAIN list = Handles
    BY DEF Fits, HandlesFit
<1> QED  BY <1>1 DEF Moved

\* A list that does not change its place and has no node written has its contents.
LEMMA KeptIs ==
    ASSUME NEW N, NEW S, NEW T, NEW g, ListsStand(N, S, T, g), NEW k, k \notin S,
           Rewired(heap, heap', S, {}) \/ Rewired(heap, heap', S, {k}), HeadsKept(heap, heap', S, {}),
           g \in Valids, list'[g] = list[g]
    PROVE  Elements(heap', list'[g]) = Held[g]
<1>1. PICK p, n : ListAt(heap, S, list[g], p, n)
    BY ListFound
<1>2. Avoids(p, n, {}) /\ Avoids(p, n, {k})
    BY <1>1, TopAvoided
<1>3. Closed(heap', T) /\ list[g] \in T /\ Ends(heap', list[g])
    BY DEF ListsStand
<1>4. Elements(heap', list[g]) = Elements(heap, list[g])
    <2>1. CASE Rewired(heap, heap', S, {})
        BY <1>1, <1>2, <1>3, <2>1, ListStays
    <2>2. CASE Rewired(heap, heap', S, {k})
        BY <1>1, <1>2, <1>3, <2>2, ListStays
    <2> QED  BY <2>1, <2>2
<1>5. Held[g] = Elements(heap, list[g])
    BY ListFound
<1> QED  BY <1>4, <1>5

\* A new list is empty, ...
LEMMA CreateListIs ==
    ASSUME NEW N, NEW S, NEW T, NEW g, ListsStand(N, S, T, g), NEW h \in Handles, CreateList(h), g \in Valids \cup {h}
    PROVE  Elements(heap', list'[g]) = IF g = h THEN << >> ELSE Held[g]
<1>1. PICK k : k = heap.top
    OBVIOUS
<1>2. heap' = CreateFS(heap, EIntList) /\ Moved(h, k) /\ Fits(N) /\ S = Objects \cup N
    BY <1>1 DEF CreateList, ListsStand
<1>3. k \notin S /\ Rewired(heap, heap', S, {}) /\ HeadsKept(heap, heap', S, {}) /\ ~IsNode(heap', k)
    <2>1. Placed(heap, S)
        BY <1>2, ListsBefore
    <2>2. PICK R, f : R = S \cup {k} /\ f = heap'
        OBVIOUS
    <2>3. k \notin S /\ Rewired(heap, f, S, {}) /\ HeadsKept(heap, f, S, {}) /\ ~IsNode(f, k)
        BY <1>1, <1>2, <2>1, <2>2, EmptyMade
    <2> QED  BY <2>2, <2>3
<1>4. CASE g = h
    <2>1. list'[g] = k
        BY <1>2, <1>4, MovedIs
    <2>2. Closed(heap', T) /\ k \in T /\ Ends(heap', k)
        BY <2>1 DEF ListsStand
    <2> QED  BY <1>3, <1>4, <2>1, <2>2, ListEmpty
<1>5. CASE g # h
    <2>1. g \in Valids /\ list'[g] = list[g]
        BY <1>2, <1>5, OthersMoved
    <2> QED  BY <1>3, <1>5, <2>1, KeptIs
<1> QED  BY <1>4, <1>5

\* ... or has the one element it was made with.
LEMMA CreateListWithIs ==
    ASSUME NEW N, NEW S, NEW T, NEW g, ListsStand(N, S, T, g), NEW h \in Handles, NEW v, CreateListWith(h, v), g \in Valids \cup {h}
    PROVE  Elements(heap', list'[g]) = IF g = h THEN <<v>> ELSE Held[g]
<1>1. PICK k, node, R : k = heap.top /\ node = NewNode(heap, v, 0) /\ R = S \cup {k}
    OBVIOUS
<1>2. PICK e, both, Q : e = node.top /\ both = CreateFS(node, EIntList) /\ Q = R \cup {e}
    OBVIOUS
<1>3. Fits(N) /\ S = Objects \cup N /\ Placed(heap, S) /\ k \in Nat
    BY <1>1, ListsBefore DEF ListsStand, Placed, HeapFits
<1>4. /\ Placed(node, R) /\ k \notin S /\ Rewired(heap, node, S, {}) /\ HeadsKept(heap, node, S, {})
      /\ IsNode(node, k) /\ HeadOf(node, k) = v /\ e = k + 3
    BY <1>1, <1>2, <1>3, NodeMade
<1>5. Placed(both, Q) /\ e \notin R /\ Rewired(node, both, R, {}) /\ HeadsKept(node, both, R, {}) /\ ~IsNode(both, e)
    BY <1>2, <1>4, EmptyMade
<1>6. heap' = SetTailOf(both, k, e) /\ Moved(h, k)
    BY <1>1, <1>2, <1>4 DEF CreateListWith
<1>7. k \in R /\ k \in Q /\ IsNode(both, k) /\ HeadOf(both, k) = v /\ e \in Q
    BY <1>1, <1>2, <1>4, <1>5 DEF Rewired, HeadsKept
<1>8. Rewired(both, heap', Q, {k}) /\ HeadsKept(both, heap', Q, {}) /\ TailOf(heap', k) = e
    BY <1>5, <1>6, <1>7, TailSet
<1>9. IsNode(heap', k) /\ ~IsNode(heap', e) /\ HeadOf(heap', k) = v
    BY <1>5, <1>7, <1>8 DEF Rewired, HeadsKept
<1>10. CASE g = h
    <2>1. list'[g] = k
        BY <1>3, <1>6, <1>10, MovedIs
    <2>2. Closed(heap', T) /\ k \in T /\ Ends(heap', k)
        BY <2>1 DEF ListsStand
    <2>3. PICK n, p : n = 0 /\ p = [i \in {0} |-> e]
        OBVIOUS
    <2>4. Path(heap', e, p, n)
        BY <1>9, <2>3 DEF Path, Along
    <2>5. Elements(heap', k) = <<v>> \o Heads(heap', p, n)
        BY <1>8, <1>9, <2>2, <2>4, ListLinked
    <2>6. Heads(heap', p, n) = << >>
        BY <2>3 DEF Heads
    <2>7. <<v>> \o << >> = <<v>>
        OBVIOUS
    <2> QED  BY <1>10, <2>1, <2>5, <2>6, <2>7
<1>11. CASE g # h
    <2>1. g \in Valids /\ list'[g] = list[g]
        BY <1>6, <1>11, OthersMoved
    <2>2. Rewired(heap, heap', S, {k}) /\ HeadsKept(heap, heap', S, {})
        BY <1>1, <1>2, <1>4, <1>5, <1>8 DEF Rewired, HeadsKept
    <2> QED  BY <1>4, <1>11, <2>1, <2>2, KeptIs
<1> QED  BY <1>10, <1>11

\* A node in front of the list
LEMMA AddFirstIs ==
    ASSUME NEW N, NEW S, NEW T, NEW g, ListsStand(N, S, T, g), NEW h \in Valids, NEW v, heap' = NewNode(heap, v, list[h]), Moved(h, heap.top),
           g \in Valids
    PROVE  Elements(heap', list'[g]) = IF g = h THEN <<v>> \o Held[g] ELSE Held[g]
<1>1. PICK k, R : k = heap.top /\ R = S \cup {k}
    OBVIOUS
<1>2. Fits(N) /\ S = Objects \cup N /\ Placed(heap, S) /\ h \in Handles /\ heap' = NewNode(heap, v, list[h]) /\ Moved(h, k)
    BY <1>1, ListsBefore DEF ListsStand, Valids
<1>3. /\ k \notin S /\ Rewired(heap, heap', S, {}) /\ HeadsKept(heap, heap', S, {})
      /\ IsNode(heap', k) /\ HeadOf(heap', k) = v /\ TailOf(heap', k) = list[h]
    BY <1>1, <1>2, NodeMade
<1>4. CASE g = h
    <2>1. list'[g] = k
        BY <1>2, <1>4, MovedIs
    <2>2. Closed(heap', T) /\ k \in T /\ Ends(heap', k)
        BY <2>1 DEF ListsStand
    <2>3. PICK p, n : ListAt(heap, S, list[h], p, n)
        BY <1>2, ListFound
    <2>4. Changed(heap, heap', S, T, {}) /\ Avoids(p, n, {})
        BY <1>3, <2>2, <2>3, TopAvoided DEF Changed
    <2>5. Path(heap', list[h], p, n) /\ Heads(heap', p, n) = Elements(heap, list[h])
        BY <2>3, <2>4, HeadsStay
    <2>6. Elements(heap', k) = <<v>> \o Elements(heap, list[h])
        BY <1>3, <2>2, <2>5, ListLinked
    <2>7. Held[h] = Elements(heap, list[h])
        BY <1>2, ListFound
    <2> QED  BY <1>4, <2>1, <2>6, <2>7
<1>5. CASE g # h
    <2>1. list'[g] = list[g]
        BY <1>2, <1>5, OthersMoved
    <2> QED  BY <1>3, <1>5, <2>1, KeptIs
<1> QED  BY <1>4, <1>5

\* The next place of the list
LEMMA MoveListToNextIs ==
    ASSUME NEW N, NEW S, NEW T, NEW g, ListsStand(N, S, T, g), NEW h \in Handles, MoveListToNext(h), g \in Valids
    PROVE  Elements(heap', list'[g]) = IF g = h THEN Tail(Held[g]) ELSE Held[g]
<1>1. heap' = heap /\ Moved(h, TailOf(heap, list[h])) /\ h \in Valids /\ IsNode(heap, list[h]) /\ Fits(N)
    BY DEF MoveListToNext, Valid, Valids, ListsStand
<1>2. CASE g = h
    <2>1. PICK b : b = TailOf(heap, list[h])
        OBVIOUS
    <2>2. Closed(heap, T) /\ b \in T /\ Ends(heap, b) /\ list'[g] = b
        BY <1>1, <1>2, <2>1, MovedIs DEF ListsStand
    <2>3. PICK p, n : ListAt(heap, S, list[h], p, n)
        BY <1>1, ListFound
    <2>4. Path(heap, list[h], p, n) /\ n \in Nat /\ Elements(heap, list[h]) = Heads(heap, p, n)
        BY <2>3 DEF ListAt, Path
    <2>5. n > 0 /\ p[1] = b
        <3>1. p[0] = list[h] /\ Along(heap, p, n) /\ ~IsNode(heap, p[n])
            BY <2>4 DEF Path
        <3>2. n # 0
            BY <1>1, <3>1
        <3>3. 0 \in 0 .. n - 1 /\ 0 + 1 = 1 /\ n > 0
            BY <2>4, <3>2
        <3>4. p[0 + 1] = TailOf(heap, p[0])
            BY <3>1, <3>3 DEF Along
        <3> QED  BY <2>1, <3>1, <3>3, <3>4
    <2>6. PICK q, m : q = [k \in 0 .. n - 1 |-> p[1 + k]] /\ m = n - 1
        OBVIOUS
    <2>7. Path(heap, b, q, m)
        BY <2>4, <2>5, <2>6, PathFrom
    <2>8. Elements(heap, b) = Heads(heap, q, m)
        BY <2>2, <2>7, ListIs DEF ListAt
    <2>9. PICK i : i = 1
        OBVIOUS
    <2>10. SubSeq(Heads(heap, p, n), 2, n) = Heads(heap, q, m)
        <3>1. Follows(q, m, p, i) /\ i \in 0 .. n /\ m = n - i /\ i + 1 = 2
            BY <2>4, <2>5, <2>6, <2>9 DEF Follows
        <3>2. SubSeq(Heads(heap, p, n), i + 1, n) = Heads(heap, q, m)
            BY <2>4, <3>1, HeadsParts
        <3> QED  BY <3>1, <3>2
    <2>11. Tail(Heads(heap, p, n)) = SubSeq(Heads(heap, p, n), 2, n)
        <3>1. PICK V : HeadsIn(heap, p, n, V)
            BY HeadsRange
        <3>2. PICK s : s = Heads(heap, p, n)
            OBVIOUS
        <3>3. s \in Seq(V) /\ Len(s) = n
            BY <2>4, <3>1, <3>2, HeadsAre
        <3>4. s # << >>
            BY <2>5, <3>3
        <3> QED  BY <3>2, <3>3, <3>4, TailIsSubSeq
    <2>12. Held[g] = Elements(heap, list[g])
        BY ListFound
    <2> QED  BY <1>1, <1>2, <2>2, <2>4, <2>8, <2>10, <2>11, <2>12
<1>3. CASE g # h
    <2>1. list'[g] = list[g]
        BY <1>1, <1>3, OthersMoved
    <2> QED  BY <1>1, <1>3, <2>1, ListFound
<1> QED  BY <1>2, <1>3

\* Two lists share their ends: both have nodes, and the last is the same.
Shares(x, g) == LastOf(Chains[x]) # 0 /\ LastOf(Chains[g]) = LastOf(Chains[x])

\* The last node of a list found
LEMMA LastFound ==
    ASSUME NEW N, NEW S, NEW T, NEW g, ListsStand(N, S, T, g), NEW h \in Valids, NEW p, NEW n, ListAt(heap, S, list[h], p, n)
    PROVE  /\ n \in Nat /\ LastOf(Chains[h]) = IF n = 0 THEN 0 ELSE p[n - 1]
           /\ n # 0 => p[n - 1] \in S /\ p[n - 1] # 0 /\ LastNode(heap, list[h]) = p[n - 1]
           /\ n # 0 <=> IsNode(heap, list[h])
<1>1. Path(heap, list[h], p, n) /\ n \in Nat /\ Within(p, n, S) /\ Chains[h] = Places(p, n)
    <2>1. Chains[h] = Chain(heap, list[h])
        BY ListFound
    <2> QED  BY <2>1 DEF ListAt, Path
<1>2. LastOf(Chains[h]) = IF n = 0 THEN 0 ELSE p[n - 1]
    BY <1>1, PlacesAre
<1>3. S \subseteq Nat \ {0}
    BY ListsBefore DEF ListsStand
<1>4. n # 0 => n - 1 \in 0 .. n /\ n - 1 \in 0 .. n - 1 /\ 0 \in 0 .. n - 1 /\ n > 0
    BY <1>1
<1>5. p[0] = list[h] /\ Along(heap, p, n) /\ ~IsNode(heap, p[n])
    BY <1>1 DEF Path
<1>6. n # 0 <=> IsNode(heap, list[h])
    BY <1>4, <1>5 DEF Along
<1>7. n # 0 => p[n - 1] \in S
    BY <1>1, <1>4 DEF Within
<1>8. n # 0 => LastNode(heap, list[h]) = p[n - 1]
    BY <1>4 DEF ListAt
<1> QED  BY <1>1, <1>2, <1>3, <1>6, <1>7, <1>8

\* Node w is given the list at b for its tail.
Joins(h, g, S, T, w, b) == ChangedAt(h, g, S, T, w) /\ b = TailOf(g, w) /\ \E s, l : ListAt(h, S, b, s, l)

\* So the list at a goes on with the list at b from its place k on.
LEMMA ListGoesOn ==
    ASSUME NEW h, NEW g, NEW S, NEW T, NEW w, NEW b, Joins(h, g, S, T, w, b),
           NEW a \in T, Ends(g, a), NEW p, NEW n, ListAt(h, S, a, p, n), NEW k \in 0 .. n - 1, p[k] = w
    PROVE  Elements(g, a) = Heads(h, p, k + 1) \o Elements(h, b)
<1>1. ChangedAt(h, g, S, T, w) /\ b = TailOf(g, w)
    BY DEF Joins
<1>2. PICK s, l : ListAt(h, S, b, s, l)
    BY DEF Joins
<1> QED  BY <1>1, <1>2, ListJoins, Z3

\* Node w is the last of a list.
EndsIn(h, w) == w # 0 /\ \E c, q, m : Path(h, c, q, m) /\ m > 0 /\ w = q[m - 1]

\* The last place of a path, and no other, is w.
TurnsLast(p, n, w) == n > 0 /\ n - 1 \in 0 .. n - 1 /\ p[n - 1] = w /\ FirstAt(p, n, n - 1, {w})

\* When the last node of a list is written, only the lists that have it change.
LEMMA EndTurns ==
    ASSUME NEW h, NEW g, NEW S, NEW T, NEW w, EndsIn(h, w), ChangedAt(h, g, S, T, w),
           NEW a \in T, Ends(g, a), NEW p, NEW n, ListAt(h, S, a, p, n)
    PROVE  /\ LastOf(Places(p, n)) = w => TurnsLast(p, n, w)
           /\ LastOf(Places(p, n)) # w => Elements(g, a) = Elements(h, a)
<1>1. Path(h, a, p, n) /\ n \in Nat
    BY DEF ListAt, Path
<1>2. LastOf(Places(p, n)) = IF n = 0 THEN 0 ELSE p[n - 1]
    BY <1>1, PlacesAre
<1>3. ASSUME NEW k \in 0 .. n - 1, p[k] = w PROVE n = k + 1
    <2>1. PICK c, q, m : Path(h, c, q, m) /\ m > 0 /\ w = q[m - 1]
        BY DEF EndsIn
    <2> QED  BY <1>1, <1>3, <2>1, LastIsLast
<1>10. w # 0
    BY DEF EndsIn
<1>4. CASE LastOf(Places(p, n)) = w
    <2>1. n > 0 /\ n - 1 \in 0 .. n - 1 /\ p[n - 1] = w
        BY <1>1, <1>2, <1>4, <1>10
    <2>2. ASSUME NEW k \in 0 .. (n - 1) - 1 PROVE p[k] \notin {w}
        <3>1. k \in 0 .. n - 1 /\ n # k + 1
            BY <1>1
        <3> QED  BY <1>3, <3>1
    <2> QED  BY <1>4, <2>1, <2>2 DEF FirstAt, Avoids, TurnsLast
<1>5. CASE LastOf(Places(p, n)) # w
    <2>1. ASSUME NEW k \in 0 .. n - 1 PROVE p[k] \notin {w}
        <3>1. CASE p[k] = w
            <4>1. n - 1 = k /\ n # 0
                BY <1>1, <1>3, <3>1
            <4> QED  BY <1>2, <1>5, <3>1, <4>1
        <3> QED  BY <3>1
    <2>2. Avoids(p, n, {w})
        BY <2>1 DEF Avoids
    <2> QED  BY <1>5, <2>2, ListKept DEF ChangedAt
<1> QED  BY <1>4, <1>5

\* A list hung to the last node of another goes on all lists that share it.
LEMMA JoinedIs ==
    ASSUME NEW N, NEW S, NEW T, NEW g, ListsStand(N, S, T, g), NEW x \in Valids, NEW y \in Valids, NEW z \in Valids,
           list'[g] = list[y], IsNode(heap, list[x]), heap' = SetTailOf(heap, LastNode(heap, list[x]), list[z])
    PROVE  Elements(heap', list'[g]) = IF Shares(x, y) THEN Held[y] \o Held[z] ELSE Held[y]
<1>1. PICK p, n : ListAt(heap, S, list[y], p, n)
    BY ListFound
<1>2. PICK q, m : ListAt(heap, S, list[x], q, m)
    BY ListFound
<1>3. PICK s, l : ListAt(heap, S, list[z], s, l)
    BY ListFound
<1>4. PICK w : w = q[m - 1]
    OBVIOUS
<1>5. m \in Nat /\ m > 0 /\ w \in S /\ w # 0 /\ LastNode(heap, list[x]) = w /\ LastOf(Chains[x]) = w
    BY <1>2, <1>4, LastFound
<1>6. Chains[y] = Places(p, n) /\ Held[y] = Elements(heap, list[y]) /\ Held[z] = Elements(heap, list[z])
    BY <1>1, ListFound DEF ListAt
<1>7. Path(heap, list[x], q, m) /\ Placed(heap, S) /\ Closed(heap', T) /\ list[y] \in T /\ Ends(heap', list[y])
    BY <1>2, ListsBefore DEF ListAt, ListsStand
<1>8. IsNode(heap, w)
    <2>1. m - 1 \in 0 .. m - 1
        BY <1>5
    <2> QED  BY <1>4, <1>7, <2>1 DEF Path, Along
<1>9. Rewired(heap, heap', S, {w}) /\ HeadsKept(heap, heap', S, {}) /\ TailOf(heap', w) = list[z]
    BY <1>5, <1>7, <1>8, TailSet
<1>10. ChangedAt(heap, heap', S, T, w)
    BY <1>7, <1>9 DEF Changed, ChangedAt
<1>15. EndsIn(heap, w)
    BY <1>4, <1>5, <1>7 DEF EndsIn
<1>16. Joins(heap, heap', S, T, w, list[z])
    BY <1>3, <1>9, <1>10 DEF Joins
<1>11. /\ LastOf(Places(p, n)) = w => TurnsLast(p, n, w)
       /\ LastOf(Places(p, n)) # w => Elements(heap', list[y]) = Elements(heap, list[y])
    BY <1>1, <1>7, <1>10, <1>15, EndTurns, Z3
<1>12. Shares(x, y) <=> LastOf(Places(p, n)) = w
    BY <1>5, <1>6 DEF Shares
<1>13. CASE LastOf(Places(p, n)) = w
    <2>1. PICK k : k = n - 1
        OBVIOUS
    <2>2. n \in Nat /\ k \in 0 .. n - 1 /\ p[k] = w /\ k + 1 = n
        BY <1>1, <1>11, <1>13, <2>1 DEF ListAt, Path, TurnsLast
    <2>3. Elements(heap', list[y]) = Heads(heap, p, k + 1) \o Elements(heap, list[z])
        BY <1>1, <1>7, <1>16, <2>2, ListGoesOn
    <2>4. Elements(heap, list[y]) = Heads(heap, p, k + 1)
        BY <1>1, <2>2 DEF ListAt
    <2> QED  BY <1>6, <1>12, <1>13, <2>3, <2>4
<1>14. CASE LastOf(Places(p, n)) # w
    BY <1>6, <1>11, <1>12, <1>14
<1> QED  BY <1>13, <1>14

\* A list without nodes is empty and shares no end.
LEMMA EmptyIs ==
    ASSUME NEW N, NEW S, NEW T, NEW g, ListsStand(N, S, T, g), NEW x \in Valids, ~IsNode(heap, list[x]), NEW y \in Valids
    PROVE  ~Shares(x, y) /\ Held[x] \o Held[y] = Held[y]
<1>1. PICK p, n : ListAt(heap, S, list[x], p, n)
    BY ListFound
<1>2. n = 0 /\ LastOf(Chains[x]) = 0
    BY <1>1, LastFound
<1>3. PICK q, m : ListAt(heap, S, list[y], q, m) /\ m \in Nat
    BY ListFound
<1>4. Held[x] = Heads(heap, p, n) /\ Held[y] = Heads(heap, q, m)
    BY <1>1, <1>3, ListFound DEF ListAt
<1>5. Heads(heap, p, n) \o Heads(heap, q, m) = Heads(heap, q, m)
    BY <1>2, <1>3, HeadsNone
<1> QED  BY <1>2, <1>4, <1>5 DEF Shares

\* A list with nodes shares its end with itself.
LEMMA SharesOwn ==
    ASSUME NEW N, NEW S, NEW T, NEW g, ListsStand(N, S, T, g), NEW x \in Valids, IsNode(heap, list[x])
    PROVE  Shares(x, x)
<1>1. PICK p, n : ListAt(heap, S, list[x], p, n)
    BY ListFound
<1> QED  BY <1>1, LastFound DEF Shares

\* Where the heap is as before, a list holds what the one that stood there held.
LEMMA StandsIs ==
    ASSUME NEW N, NEW S, NEW T, NEW g, ListsStand(N, S, T, g), NEW y \in Valids, list'[g] = list[y], heap' = heap
    PROVE  Elements(heap', list'[g]) = Held[y]
    BY ListFound

\* One list behind another
LEMMA AppendListIs ==
    ASSUME NEW N, NEW S, NEW T, NEW g, ListsStand(N, S, T, g), NEW h \in Handles, NEW c \in Handles, AppendList(h, c), g \in Valids
    PROVE  Elements(heap', list'[g]) = IF g = h \/ Shares(h, g) THEN Held[g] \o Held[c] ELSE Held[g]
<1>1. Fits(N) /\ h \in Valids /\ c \in Valids
    BY DEF ListsStand, AppendList, Valid, Valids
<1>2. CASE IsNode(heap, list[h])
    <2>1. heap' = SetTailOf(heap, LastNode(heap, list[h]), list[c]) /\ Moved(h, list[h])
        BY <1>2 DEF AppendList
    <2>2. list'[g] = list[g]
        BY <1>1, <2>1, MovedIs, OthersMoved
    <2>3. Elements(heap', list'[g]) = IF Shares(h, g) THEN Held[g] \o Held[c] ELSE Held[g]
        BY <1>1, <1>2, <2>1, <2>2, JoinedIs
    <2>4. Shares(h, h)
        BY <1>1, <1>2, SharesOwn
    <2> QED  BY <2>3, <2>4
<1>3. CASE ~IsNode(heap, list[h])
    <2>1. heap' = heap /\ Moved(h, list[c])
        BY <1>3 DEF AppendList
    <2>2. ~Shares(h, g) /\ Held[h] \o Held[c] = Held[c]
        BY <1>1, <1>3, EmptyIs
    <2>3. CASE g = h
        <3>1. list'[g] = list[c]
            BY <1>1, <2>1, <2>3, MovedIs
        <3>2. Elements(heap', list'[g]) = Held[c]
            BY <1>1, <2>1, <3>1, StandsIs
        <3> QED  BY <2>2, <2>3, <3>2
    <2>4. CASE g # h
        <3>1. list'[g] = list[g]
            BY <2>1, <2>4, OthersMoved
        <3>2. Elements(heap', list'[g]) = Held[g]
            BY <2>1, <3>1, StandsIs
        <3> QED  BY <2>2, <2>4, <3>2
    <2> QED  BY <2>3, <2>4
<1> QED  BY <1>2, <1>3

\* One list in front of another
LEMMA PrependListIs ==
    ASSUME NEW N, NEW S, NEW T, NEW g, ListsStand(N, S, T, g), NEW h \in Handles, NEW c \in Handles, PrependList(h, c), g \in Valids
    PROVE  Elements(heap', list'[g]) = IF g = h THEN Held[c] \o Held[g]
                                       ELSE IF Shares(c, g) THEN Held[g] \o Held[h] ELSE Held[g]
<1>1. Fits(N) /\ h \in Valids /\ c \in Valids
    BY DEF ListsStand, PrependList, Valid, Valids
<1>2. CASE IsNode(heap, list[c])
    <2>1. heap' = SetTailOf(heap, LastNode(heap, list[c]), list[h]) /\ Moved(h, list[c])
        BY <1>2 DEF PrependList
    <2>2. CASE g = h
        <3>1. list'[g] = list[c]
            BY <1>1, <2>1, <2>2, MovedIs
        <3>2. Elements(heap', list'[g]) = IF Shares(c, c) THEN Held[c] \o Held[h] ELSE Held[c]
            BY <1>1, <1>2, <2>1, <3>1, JoinedIs
        <3>3. Shares(c, c)
            BY <1>1, <1>2, SharesOwn
        <3> QED  BY <2>2, <3>2, <3>3
    <2>3. CASE g # h
        <3>1. list'[g] = list[g]
            BY <2>1, <2>3, OthersMoved
        <3>2. Elements(heap', list'[g]) = IF Shares(c, g) THEN Held[g] \o Held[h] ELSE Held[g]
            BY <1>1, <1>2, <2>1, <3>1, JoinedIs
        <3> QED  BY <2>3, <3>2
    <2> QED  BY <2>2, <2>3
<1>3. CASE ~IsNode(heap, list[c])
    <2>1. heap' = heap /\ Moved(h, list[h])
        BY <1>3 DEF PrependList
    <2>2. list'[g] = list[g]
        BY <1>1, <2>1, MovedIs, OthersMoved
    <2>3. Elements(heap', list'[g]) = Held[g]
        BY <2>1, <2>2, StandsIs
    <2>4. ~Shares(c, g) /\ Held[c] \o Held[g] = Held[g]
        BY <1>1, <1>3, EmptyIs
    <2> QED  BY <2>3, <2>4
<1> QED  BY <1>2, <1>3

\* The places of a list behind a node are those of another list.
LEMMA SetTailIs ==
    ASSUME NEW N, NEW S, NEW T, NEW g, ListsStand(N, S, T, g), NEW h \in Handles, NEW c \in Handles, SetTail(h, c), g \in Valids,
           NEW here, here = Index(Chains[g], list[h])
    PROVE  Elements(heap', list'[g]) = IF here = 0 THEN Held[g] ELSE SubSeq(Held[g], 1, here) \o Held[c]
<1>1. h \in Valids /\ c \in Valids /\ IsNode(heap, list[h]) /\ heap' = SetTailOf(heap, list[h], list[c]) /\ list' = list
    BY DEF SetTail, Valid, Valids
<1>2. PICK p, n : ListAt(heap, S, list[g], p, n) /\ n \in Nat
    BY ListFound
<1>3. PICK s, l : ListAt(heap, S, list[c], s, l)
    BY <1>1, ListFound
<1>4. PICK w, a, b : w = list[h] /\ a = list[g] /\ b = list[c]
    OBVIOUS
<1>5. Placed(heap, S) /\ w \in S /\ Closed(heap', T) /\ a \in T /\ Ends(heap', a) /\ list'[g] = a
    BY <1>1, <1>4, ListsBefore DEF ListsStand, Valids
<1>6. Rewired(heap, heap', S, {w}) /\ HeadsKept(heap, heap', S, {}) /\ TailOf(heap', w) = b
    BY <1>1, <1>4, <1>5, TailSet
<1>7. ChangedAt(heap, heap', S, T, w)
    BY <1>5, <1>6 DEF Changed, ChangedAt
<1>8. Chains[g] = Places(p, n) /\ Held[g] = Heads(heap, p, n) /\ Elements(heap, a) = Held[g] /\ Held[c] = Elements(heap, b) /\ Path(heap, a, p, n)
    BY <1>1, <1>2, <1>4, ListFound DEF ListAt
<1>11. Joins(heap, heap', S, T, w, b)
    BY <1>3, <1>4, <1>6, <1>7 DEF Joins
<1>9. CASE \A k \in 0 .. n - 1 : p[k] # w
    <2>1. here = 0
        BY <1>4, <1>8, <1>9, PlacesAre
    <2>2. Avoids(p, n, {w})
        BY <1>9 DEF Avoids
    <2>3. Elements(heap', a) = Elements(heap, a)
        BY <1>2, <1>4, <1>5, <1>7, <2>2, ListKept DEF ChangedAt
    <2> QED  BY <1>5, <1>8, <2>1, <2>3
<1>10. CASE \E k \in 0 .. n - 1 : p[k] = w
    <2>1. PICK k \in 0 .. n - 1 : p[k] = w
        BY <1>10
    <2>2. here = k + 1
        BY <1>4, <1>8, <2>1, PlacesAre
    <2>3. Elements(heap', a) = Heads(heap, p, k + 1) \o Elements(heap, b)
        BY <1>2, <1>4, <1>5, <1>11, <2>1, ListGoesOn
    <2>4. SubSeq(Heads(heap, p, n), 1, k + 1) = Heads(heap, p, k + 1)
        <3>1. k + 1 \in 0 .. n
            BY <1>2, <2>1
        <3> QED  BY <1>2, <3>1, HeadsFirst
    <2>5. here # 0
        BY <2>2
    <2> QED  BY <1>5, <1>8, <2>2, <2>3, <2>4, <2>5
<1> QED  BY <1>9, <1>10

\* An element behind the list: the lists with the last node share it.
LEMMA NodeHung ==
    ASSUME NEW N, NEW S, NEW T, NEW g, ListsStand(N, S, T, g), NEW h \in Valids, IsNode(heap, list[h]), NEW v,
           g \in Valids, list'[g] = list[g], NEW w, w = LastNode(heap, list[h]),
           heap' = SetTailOf(NewNode(heap, v, TailOf(heap, w)), w, heap.top)
    PROVE  Elements(heap', list'[g]) = IF Shares(h, g) THEN Append(Held[g], v) ELSE Held[g]
<1>1. PICK p, n : ListAt(heap, S, list[g], p, n) /\ n \in Nat
    BY ListFound
<1>2. PICK q, m : ListAt(heap, S, list[h], q, m)
    BY ListFound
<1>3. m \in Nat /\ m > 0 /\ w = q[m - 1] /\ w \in S /\ w # 0 /\ LastOf(Chains[h]) = w
    BY <1>2, LastFound
<1>4. PICK k, e, node, R : k = heap.top /\ e = TailOf(heap, w) /\ node = NewNode(heap, v, e) /\ R = S \cup {k}
    OBVIOUS
<1>5. Path(heap, list[h], q, m) /\ Placed(heap, S) /\ Closed(heap', T) /\ list[g] \in T /\ Ends(heap', list[g])
    BY <1>2, ListsBefore DEF ListAt, ListsStand
<1>6. IsNode(heap, w) /\ ~IsNode(heap, e) /\ e \in S
    <2>1. m - 1 \in 0 .. m - 1 /\ (m - 1) + 1 = m /\ m \in 0 .. m
        BY <1>3
    <2>2. IsNode(heap, q[m - 1]) /\ q[(m - 1) + 1] = TailOf(heap, q[m - 1]) /\ ~IsNode(heap, q[m])
        BY <1>5, <2>1 DEF Path, Along
    <2>3. q[m] \in S
        BY <1>2, <2>1 DEF ListAt, Within
    <2> QED  BY <1>3, <1>4, <2>1, <2>2, <2>3
<1>7. /\ Placed(node, R) /\ k \notin S /\ Rewired(heap, node, S, {}) /\ HeadsKept(heap, node, S, {})
      /\ IsNode(node, k) /\ HeadOf(node, k) = v /\ TailOf(node, k) = e
    BY <1>4, <1>5, NodeMade
<1>8. w \in R /\ k \in R /\ e \in R /\ S \subseteq R /\ IsNode(node, w) /\ ~IsNode(node, e) /\ heap' = SetTailOf(node, w, k)
    BY <1>3, <1>4, <1>6, <1>7 DEF Rewired
<1>9. Rewired(node, heap', R, {w}) /\ HeadsKept(node, heap', R, {}) /\ TailOf(heap', w) = k
    BY <1>7, <1>8, TailSet
<1>10. Rewired(heap, heap', S, {w}) /\ HeadsKept(heap, heap', S, {})
    BY <1>7, <1>8, <1>9 DEF Rewired, HeadsKept
<1>11. IsNode(heap', k) /\ HeadOf(heap', k) = v /\ TailOf(heap', k) = e /\ ~IsNode(heap', e)
    BY <1>3, <1>7, <1>8, <1>9 DEF Rewired, HeadsKept
<1>12. ChangedAt(heap, heap', S, T, w)
    BY <1>5, <1>10 DEF ChangedAt, Changed
<1>13. EndsIn(heap, w)
    BY <1>3, <1>5 DEF EndsIn
<1>14. /\ LastOf(Places(p, n)) = w => TurnsLast(p, n, w)
       /\ LastOf(Places(p, n)) # w => Elements(heap', list[g]) = Elements(heap, list[g])
    BY <1>1, <1>5, <1>12, <1>13, EndTurns, Z3
<1>15. Chains[g] = Places(p, n) /\ Held[g] = Elements(heap, list[g]) /\ Elements(heap, list[g]) = Heads(heap, p, n)
    BY <1>1, ListFound DEF ListAt
<1>16. Shares(h, g) <=> LastOf(Places(p, n)) = w
    BY <1>3, <1>15 DEF Shares
<1>17. CASE LastOf(Places(p, n)) = w
    <2>1. PICK i : i = n - 1
        OBVIOUS
    <2>2. FirstAt(p, n, i, {w}) /\ p[i] = w /\ i + 1 = n
        BY <1>1, <1>14, <1>17, <2>1 DEF TurnsLast
    <2>3. GoesOn(heap, heap', T, list[g], p, i)
        BY <1>1, <1>5, <1>12, <2>2, ListTurns DEF ChangedAt
    <2>4. PICK r, l : Path(heap', k, r, l) /\ Elements(heap', list[g]) = Heads(heap, p, n) \o Heads(heap', r, l)
        BY <1>9, <2>2, <2>3 DEF GoesOn
    <2>5. PICK u, j : j = 1 /\ u = [x \in 0 .. 1 |-> IF x = 0 THEN k ELSE e]
        OBVIOUS
    <2>6. j \in Nat /\ u[0] = k /\ u[1] = e
        BY <2>5
    <2>7. Path(heap', k, u, j)
        BY <1>11, <2>5, <2>6 DEF Path, Along
    <2>8. l = 1 /\ r[0] = k
        BY <2>4, <2>5, <2>6, <2>7, PathUnique
    <2>9. Heads(heap', r, l) = <<v>>
        BY <1>11, <2>8 DEF Heads
    <2>10. PICK V : HeadsIn(heap, p, n, V)
        BY HeadsRange
    <2>11. PICK s : s = Heads(heap, p, n)
        OBVIOUS
    <2>12. s \in Seq(V)
        BY <1>1, <2>10, <2>11, HeadsAre
    <2>13. s \o <<v>> = Append(s, v)
        BY <2>12
    <2> QED  BY <1>15, <1>16, <1>17, <2>4, <2>9, <2>11, <2>13
<1>18. CASE LastOf(Places(p, n)) # w
    BY <1>14, <1>15, <1>16, <1>18
<1> QED  BY <1>17, <1>18

\* So it is behind the list, or it is the only one of a list that had none.
LEMMA AddLastIs ==
    ASSUME NEW N, NEW S, NEW T, NEW g, ListsStand(N, S, T, g), NEW h \in Handles, NEW v, AddLast(h, v), g \in Valids
    PROVE  Elements(heap', list'[g]) = IF g = h \/ Shares(h, g) THEN Append(Held[g], v) ELSE Held[g]
<1>1. Fits(N) /\ h \in Valids
    BY DEF ListsStand, AddLast, Valid, Valids
<1>2. CASE IsNode(heap, list[h])
    <2>1. PICK w : w = LastNode(heap, list[h])
        OBVIOUS
    <2>2. heap' = SetTailOf(NewNode(heap, v, TailOf(heap, w)), w, heap.top) /\ Moved(h, list[h])
        BY <1>2, <2>1 DEF AddLast
    <2>3. list'[g] = list[g]
        BY <1>1, <2>2, MovedIs, OthersMoved
    <2>4. Elements(heap', list'[g]) = IF Shares(h, g) THEN Append(Held[g], v) ELSE Held[g]
        BY <1>1, <1>2, <2>1, <2>2, <2>3, NodeHung
    <2>5. Shares(h, h)
        BY <1>1, <1>2, SharesOwn
    <2> QED  BY <2>4, <2>5
<1>3. CASE ~IsNode(heap, list[h])
    <2>1. heap' = NewNode(heap, v, list[h]) /\ Moved(h, heap.top)
        BY <1>3 DEF AddLast
    <2>2. Elements(heap', list'[g]) = IF g = h THEN <<v>> \o Held[g] ELSE Held[g]
        BY <1>1, <2>1, AddFirstIs
    <2>3. ~Shares(h, g)
        BY <1>1, <1>3, EmptyIs
    <2>4. Held[h] = << >>
        <3>1. Closed(heap, S) /\ list[h] \in S /\ Ends(heap, list[h]) /\ Held[h] = Elements(heap, list[h])
            BY <1>1, ListsBefore, ListFound DEF ListsStand
        <3> QED  BY <1>3, <3>1, ListEmpty
    <2>5. <<v>> \o << >> = Append(<< >>, v)
        OBVIOUS
    <2> QED  BY <2>2, <2>3, <2>4, <2>5
<1> QED  BY <1>2, <1>3

\* Another element at a node
LEMMA SetHeadIs ==
    ASSUME NEW N, NEW S, NEW T, NEW g, ListsStand(N, S, T, g), NEW h \in Handles, NEW v, SetHead(h, v), g \in Valids,
           NEW here, here = Index(Chains[g], list[h])
    PROVE  Elements(heap', list'[g]) = IF here = 0 THEN Held[g] ELSE [Held[g] EXCEPT ![here] = v]
<1>1. h \in Valids /\ IsNode(heap, list[h]) /\ heap' = SetCells(heap, list[h] + HeadFeature, <<v>>) /\ list' = list
    BY DEF SetHead, Valid, Valids
<1>2. PICK p, n : ListAt(heap, S, list[g], p, n) /\ n \in Nat
    BY ListFound
<1>3. PICK w, a : w = list[h] /\ a = list[g]
    OBVIOUS
<1>4. Placed(heap, S) /\ w \in S /\ Closed(heap', T) /\ a \in T /\ Ends(heap', a) /\ list'[g] = a
    BY <1>1, <1>3, ListsBefore DEF ListsStand, Valids
<1>5. Rewired(heap, heap', S, {}) /\ HeadsKept(heap, heap', S, {w}) /\ HeadOf(heap', w) = v
    BY <1>1, <1>3, <1>4, HeadSet
<1>6. Chains[g] = Places(p, n) /\ Held[g] = Heads(heap, p, n) /\ Path(heap, a, p, n) /\ Within(p, n, S)
    BY <1>2, <1>3, ListFound DEF ListAt
<1>7. Path(heap', a, p, n)
    <2>1. Avoids(p, n, {})
        BY DEF Avoids
    <2> QED  BY <1>5, <1>6, <2>1, PathKept
<1>8. Elements(heap', a) = Heads(heap', p, n)
    BY <1>4, <1>7, ListIs DEF ListAt
<1>9. ASSUME NEW k \in 0 .. n - 1 PROVE HeadOf(heap', p[k]) = IF p[k] = w THEN v ELSE HeadOf(heap, p[k])
    <2>1. p[k] \in S /\ IsNode(heap, p[k])
        BY <1>2, <1>6 DEF Within, Path, Along
    <2> QED  BY <1>5, <2>1 DEF HeadsKept
<1>10. \A i \in 1 .. n : i - 1 \in 0 .. n - 1
    BY <1>2
<1>11. CASE \A k \in 0 .. n - 1 : p[k] # w
    <2>1. here = 0
        BY <1>3, <1>6, <1>11, PlacesAre
    <2>2. HeadsMatch(heap', p, 0, heap, p, n)
        <3>1. ASSUME NEW k \in 0 .. n - 1 PROVE HeadOf(heap', p[0 + k]) = HeadOf(heap, p[k])
            <4>1. 0 + k = k
                OBVIOUS
            <4> QED  BY <1>9, <1>11, <4>1
        <3> QED  BY <3>1 DEF HeadsMatch
    <2>3. Heads(heap', p, n) = Heads(heap, p, n)
        BY <1>2, <2>2, HeadsEqual
    <2> QED  BY <1>4, <1>6, <1>8, <2>1, <2>3
<1>12. CASE \E k \in 0 .. n - 1 : p[k] = w
    <2>1. PICK k \in 0 .. n - 1 : p[k] = w
        BY <1>12
    <2>2. here = k + 1 /\ here # 0
        BY <1>3, <1>6, <2>1, PlacesAre
    <2>3. ASSUME NEW i \in 1 .. n PROVE HeadOf(heap', p[i - 1]) = IF i = here THEN v ELSE HeadOf(heap, p[i - 1])
        <3>1. CASE i = here
            <4>1. i - 1 = k
                BY <2>2, <3>1
            <4> QED  BY <1>9, <2>1, <3>1, <4>1
        <3>2. CASE i # here
            <4>1. i - 1 \in 0 .. n - 1 /\ i - 1 \in 0 .. n /\ k \in 0 .. n /\ i - 1 # k
                BY <1>2, <2>2, <3>2
            <4>2. p[i - 1] # p[k]
                BY <1>6, <4>1, PathApart
            <4> QED  BY <1>9, <2>1, <3>2, <4>1, <4>2
        <3> QED  BY <3>1, <3>2
    <2>4. Heads(heap', p, n) = [i \in 1 .. n |-> IF i = here THEN v ELSE HeadOf(heap, p[i - 1])]
        BY <2>3 DEF Heads
    <2>5. [Heads(heap, p, n) EXCEPT ![here] = v] = [i \in 1 .. n |-> IF i = here THEN v ELSE HeadOf(heap, p[i - 1])]
        BY DEF Heads
    <2> QED  BY <1>4, <1>6, <1>8, <2>2, <2>4, <2>5
<1> QED  BY <1>11, <1>12

\* What is behind place j of a list is a path that comes by none of the places up to there.
LEMMA PathBehind ==
    ASSUME NEW h, NEW a, NEW p, NEW n, Path(h, a, p, n), NEW S, Within(p, n, S), NEW j \in 0 .. n - 1,
           NEW q, q = From(p, j + 1, n), NEW m, m = n - (j + 1)
    PROVE  /\ Path(h, TailOf(h, p[j]), q, m) /\ Within(q, m, S) /\ m \in Nat
           /\ \A x \in 0 .. j : \A i \in 0 .. m : q[i] # p[x]
           /\ Follows(q, m, p, j + 1)
<1>1. n \in Nat /\ j + 1 \in 0 .. n /\ p[j + 1] = TailOf(h, p[j])
    BY DEF Path, Along
<1>2. q = [k \in 0 .. n - (j + 1) |-> p[(j + 1) + k]]
    BY DEF From
<1>3. Path(h, p[j + 1], q, m)
    BY <1>1, <1>2, PathFrom
<1>4. m \in Nat
    BY <1>1
<1>5. ASSUME NEW i \in 0 .. m PROVE q[i] = p[(j + 1) + i] /\ (j + 1) + i \in 0 .. n
    BY <1>1, <1>2
<1>6. ASSUME NEW x \in 0 .. j, NEW i \in 0 .. m PROVE q[i] # p[x]
    <2>1. x \in 0 .. n /\ x # (j + 1) + i
        BY <1>1, <1>4
    <2> QED  BY <1>5, <2>1, PathApart
<1>7. Within(q, m, S)
    BY <1>5 DEF Within
<1>8. Follows(q, m, p, j + 1)
    <2>1. \A i \in 0 .. m - 1 : i \in 0 .. m
        BY <1>4
    <2> QED  BY <1>5, <2>1 DEF Follows
<1> QED  BY <1>1, <1>3, <1>4, <1>6, <1>7, <1>8

\* A path through no node written has its elements.
LEMMA PathHeadsKept ==
    ASSUME NEW h, NEW g, NEW S, NEW W, Rewired(h, g, S, W), HeadsKept(h, g, S, {}), NEW a, NEW p, NEW n, Path(h, a, p, n),
           Within(p, n, S), Avoids(p, n, W)
    PROVE  Path(g, a, p, n) /\ Heads(g, p, n) = Heads(h, p, n)
<1>1. n \in Nat /\ Along(h, p, n)
    BY DEF Path
<1>2. HeadsMatch(g, p, 0, h, p, n)
    BY <1>1, HeadsKeptAlong
<1> QED  BY <1>1, <1>2, PathKept, HeadsEqual

\* The m places of q are those of p behind place j, the i-th.
CutsOut(p, n, j, i, q, m) == j \in 0 .. n - 1 /\ i = j + 1 /\ m = n - i /\ Follows(q, m, p, i)

\* The elements without that one
LEMMA HeadsWithout ==
    ASSUME NEW h, NEW p, NEW n \in Nat, NEW j, NEW i, NEW q, NEW m, CutsOut(p, n, j, i, q, m)
    PROVE  WithoutAt(Heads(h, p, n), i) = Heads(h, p, j) \o Heads(h, q, m)
<1>2. i \in 0 .. n /\ j \in 0 .. n /\ m = n - i /\ Follows(q, m, p, i) /\ i - 1 = j
    BY DEF CutsOut
<1>3. PICK s : s = Heads(h, p, n)
    OBVIOUS
<1>4. PICK V : HeadsIn(h, p, n, V)
    BY HeadsRange
<1>5. Len(s) = n
    BY <1>3, <1>4, HeadsAre
<1>6. SubSeq(s, 1, j) = Heads(h, p, j)
    BY <1>2, <1>3, HeadsFirst
<1>7. SubSeq(s, i + 1, n) = Heads(h, q, m)
    <2>1. RestIs(p, n, i, q, m)
        BY <1>2 DEF RestIs
    <2>2. RestHeads(h, p, n, i, q, m)
        BY <2>1, HeadsRest
    <2> QED  BY <1>3, <2>2 DEF RestHeads
<1>8. WithoutAt(s, i) = SubSeq(s, 1, j) \o SubSeq(s, i + 1, n)
    BY <1>2, <1>5 DEF WithoutAt
<1>9. WithoutAt(s, i) = Heads(h, p, j) \o Heads(h, q, m)
    BY <1>6, <1>7, <1>8
<1> QED  BY <1>3, <1>9

\* Node o is closed with an empty list, and node b before it, when there is one, goes to what was behind.
TakenOut(S, W, o, b) ==
    /\ o \in S /\ IsNode(heap, o)
    /\ W = {o} \cup (IF b = 0 THEN {} ELSE {b})
    /\ b # 0 => b \in S /\ IsNode(heap, b) /\ TailOf(heap, b) = o /\ TailOf(heap', b) = TailOf(heap, o)
    /\ Rewired(heap, heap', S, W) /\ HeadsKept(heap, heap', S, {})
    /\ ~IsNode(heap', TailOf(heap', o))

\* A list that stays where it is and comes to o by b loses the element of o; one that comes
\* there another way ends with it; and one without o is as before.
Remaining(a, s, out, b) ==
    IF out = 0 THEN Elements(heap, a)
    ELSE IF out > 1 /\ s[out - 1] = b THEN WithoutAt(Elements(heap, a), out)
    ELSE SubSeq(Elements(heap, a), 1, out)

\* The way to o is by the place before it.
LEMMA WayTo ==
    ASSUME NEW S, NEW W, NEW o, NEW b, TakenOut(S, W, o, b), NEW a, NEW p, NEW n, Path(heap, a, p, n),
           NEW i \in 0 .. n - 1, b # 0, p[i] = b
    PROVE  i + 1 \in 0 .. n - 1 /\ p[i + 1] = o
<1>1. n \in Nat /\ p[i + 1] = TailOf(heap, p[i]) /\ ~IsNode(heap, p[n])
    BY DEF Path, Along
<1>2. p[i + 1] = o /\ IsNode(heap, o)
    BY <1>1 DEF TakenOut
<1>3. i + 1 # n
    BY <1>1, <1>2
<1> QED  BY <1>1, <1>2, <1>3

\* So the elements are those, whichever way a list comes to the node.
LEMMA TakenOutIs ==
    ASSUME NEW S, 0 \notin S, NEW T, Closed(heap', T), NEW W, NEW o, NEW b, TakenOut(S, W, o, b), NEW a \in T, Ends(heap', a),
           NEW p, NEW n, ListAt(heap, S, a, p, n), NEW out, out = Index(Places(p, n), o)
    PROVE  Elements(heap', a) = Remaining(a, Places(p, n), out, b)
<1>1. Path(heap, a, p, n) /\ n \in Nat /\ Within(p, n, S) /\ Elements(heap, a) = Heads(heap, p, n)
    BY DEF ListAt, Path
<1>2. Rewired(heap, heap', S, W) /\ HeadsKept(heap, heap', S, {}) /\ Changed(heap, heap', S, T, W)
    BY DEF TakenOut, Changed
<1>3. ASSUME NEW i \in 0 .. n - 1, p[i] \in W PROVE p[i] = o \/ (b # 0 /\ p[i] = b /\ i + 1 \in 0 .. n - 1 /\ p[i + 1] = o)
    <2>1. p[i] = o \/ (b # 0 /\ p[i] = b)
        BY <1>3 DEF TakenOut
    <2> QED  BY <1>1, <2>1, WayTo
<1>4. CASE \A j \in 0 .. n - 1 : p[j] # o
    <2>1. out = 0
        BY <1>1, <1>4, PlacesAre
    <2>2. Avoids(p, n, W)
        BY <1>3, <1>4 DEF Avoids
    <2>3. Elements(heap', a) = Elements(heap, a)
        BY <1>2, <2>2, ListKept
    <2> QED  BY <2>1, <2>3 DEF Remaining
<1>5. CASE \E j \in 0 .. n - 1 : p[j] = o
    <2>1. PICK j \in 0 .. n - 1 : p[j] = o
        BY <1>5
    <2>2. out = j + 1 /\ out # 0
        BY <1>1, <2>1, PlacesAre
    <2>3. \A i \in 0 .. n - 1 : p[i] = o => i = j
        <3>1. ASSUME NEW i \in 0 .. n - 1, p[i] = o PROVE i = j
            <4>1. i \in 0 .. n /\ j \in 0 .. n /\ p[i] = p[j]
                BY <1>1, <2>1, <3>1
            <4> QED  BY <1>1, <4>1, PathApart
        <3> QED  BY <3>1
    <2>4. PICK q, m : q = From(p, j + 1, n) /\ m = n - (j + 1)
        OBVIOUS
    <2>5. /\ Path(heap, TailOf(heap, o), q, m) /\ Within(q, m, S) /\ m \in Nat
          /\ \A x \in 0 .. j : \A i \in 0 .. m : q[i] # p[x]
          /\ Follows(q, m, p, j + 1)
        BY <1>1, <2>1, <2>4, PathBehind
    <2>6. CASE j > 0 /\ p[j - 1] = b
        <3>1. PICK k : k = j - 1
            OBVIOUS
        <3>2. k \in 0 .. n - 1 /\ k + 1 = j /\ p[k] = b /\ k \in 0 .. n
            BY <1>1, <2>1, <2>6, <3>1
        <3>3. b # 0
            BY <1>1, <3>2 DEF Within
        <3>4. out > 1 /\ Places(p, n)[out - 1] = b
            <4>1. out - 1 \in 1 .. n /\ (out - 1) - 1 = k
                BY <1>1, <2>2, <3>2
            <4> QED  BY <1>1, <2>1, <2>2, <2>6, <3>2, <4>1 DEF Places
        <3>5. FirstAt(p, n, k, W)
            <4>1. p[k] \in W
                BY <3>2, <3>3 DEF TakenOut
            <4>2. ASSUME NEW i \in 0 .. k - 1, p[i] \in W PROVE FALSE
                <5>1. i \in 0 .. n - 1 /\ i # j /\ i + 1 # j
                    BY <1>1, <3>2
                <5> QED  BY <1>3, <2>3, <4>2, <5>1
            <4> QED  BY <3>2, <4>1, <4>2 DEF FirstAt, Avoids
        <3>6. GoesOn(heap, heap', T, a, p, k)
            BY <1>2, <3>5, ListTurns
        <3>7. PICK r, l : Path(heap', TailOf(heap', b), r, l) /\ Elements(heap', a) = Heads(heap, p, j) \o Heads(heap', r, l)
            BY <3>2, <3>6 DEF GoesOn
        <3>8. TailOf(heap', b) = TailOf(heap, o)
            BY <3>3 DEF TakenOut
        <3>9. Avoids(q, m, W)
            <4>1. ASSUME NEW i \in 0 .. m - 1 PROVE q[i] # o /\ q[i] # b
                <5>1. i \in 0 .. m /\ j \in 0 .. j /\ k \in 0 .. j
                    BY <2>5, <3>2
                <5> QED  BY <2>1, <2>5, <3>2, <5>1
            <4> QED  BY <4>1 DEF Avoids, TakenOut
        <3>10. Path(heap', TailOf(heap, o), q, m) /\ Heads(heap', q, m) = Heads(heap, q, m)
            BY <1>2, <2>5, <3>9, PathHeadsKept
        <3>11. l = m /\ \A i \in 0 .. l : r[i] = q[i]
            BY <3>7, <3>8, <3>10, PathUnique
        <3>12. Heads(heap', r, l) = Heads(heap', q, m)
            <4>1. \A i \in 1 .. l : i - 1 \in 0 .. l
                BY <2>5, <3>11
            <4> QED  BY <3>11, <4>1 DEF Heads
        <3>13. WithoutAt(Heads(heap, p, n), j + 1) = Heads(heap, p, j) \o Heads(heap, q, m)
            <4>1. PICK i : i = j + 1
                OBVIOUS
            <4>2. n \in Nat /\ CutsOut(p, n, j, i, q, m)
                BY <1>1, <2>4, <2>5, <4>1 DEF CutsOut
            <4>3. WithoutAt(Heads(heap, p, n), i) = Heads(heap, p, j) \o Heads(heap, q, m)
                BY <4>2, HeadsWithout
            <4> QED  BY <4>1, <4>3
        <3> QED  BY <1>1, <2>2, <3>4, <3>7, <3>10, <3>12, <3>13 DEF Remaining
    <2>7. CASE ~(j > 0 /\ p[j - 1] = b)
        <3>1. ~(out > 1 /\ Places(p, n)[out - 1] = b)
            <4>1. CASE j = 0
                BY <2>2, <4>1
            <4>2. CASE j # 0
                <5>1. out - 1 \in 1 .. n /\ (out - 1) - 1 = j - 1 /\ j > 0
                    BY <1>1, <2>2, <4>2
                <5> QED  BY <2>7, <5>1 DEF Places
            <4> QED  BY <4>1, <4>2
        <3>2. FirstAt(p, n, j, W)
            <4>1. p[j] \in W
                BY <2>1 DEF TakenOut
            <4>2. ASSUME NEW i \in 0 .. j - 1, p[i] \in W PROVE FALSE
                <5>1. i \in 0 .. n - 1 /\ i # j
                    BY <1>1
                <5>2. b # 0 /\ p[i] = b /\ i + 1 = j
                    BY <1>3, <2>3, <4>2, <5>1
                <5>3. i = j - 1 /\ j > 0
                    BY <5>1, <5>2
                <5> QED  BY <2>7, <5>2, <5>3
            <4> QED  BY <4>1, <4>2 DEF FirstAt, Avoids
        <3>3. GoesOn(heap, heap', T, a, p, j)
            BY <1>2, <3>2, ListTurns
        <3>4. PICK r, l : Path(heap', TailOf(heap', o), r, l) /\ Elements(heap', a) = Heads(heap, p, j + 1) \o Heads(heap', r, l)
            BY <2>1, <3>3 DEF GoesOn
        <3>5. l = 0
            <4>1. l \in Nat /\ r[0] = TailOf(heap', o) /\ Along(heap', r, l)
                BY <3>4 DEF Path
            <4>2. ~IsNode(heap', r[0])
                BY <4>1 DEF TakenOut
            <4>3. ~(0 \in 0 .. l - 1)
                BY <4>1, <4>2 DEF Along
            <4> QED  BY <4>1, <4>3
        <3>6. Heads(heap, p, j + 1) \o Heads(heap', r, l) = Heads(heap, p, j + 1)
            <4>1. PICK i \in Nat : i = j + 1
                OBVIOUS
            <4>2. Heads(heap, p, i) \o Heads(heap', r, l) = Heads(heap, p, i)
                BY <3>5, HeadsNone
            <4> QED  BY <4>1, <4>2
        <3>7. SubSeq(Heads(heap, p, n), 1, j + 1) = Heads(heap, p, j + 1)
            <4>1. j + 1 \in 0 .. n
                BY <1>1
            <4> QED  BY <1>1, <4>1, HeadsFirst
        <3> QED  BY <1>1, <2>2, <3>1, <3>4, <3>6, <3>7 DEF Remaining
    <2> QED  BY <2>6, <2>7
<1> QED  BY <1>4, <1>5

\* The list whose first node is closed stands behind it.
LEMMA HeadTakenOut ==
    ASSUME NEW S, NEW T, Closed(heap', T), NEW W, NEW o, NEW b, b = 0, TakenOut(S, W, o, b),
           NEW p, NEW n, ListAt(heap, S, o, p, n), NEW c, c = TailOf(heap, o), c \in T, Ends(heap', c)
    PROVE  Elements(heap', c) = WithoutAt(Elements(heap, o), 1)
<1>1. Path(heap, o, p, n) /\ n \in Nat /\ Within(p, n, S) /\ Elements(heap, o) = Heads(heap, p, n) /\ p[0] = o /\ ~IsNode(heap, p[n])
    BY DEF ListAt, Path
<1>2. Rewired(heap, heap', S, {o}) /\ HeadsKept(heap, heap', S, {})
    BY DEF TakenOut
<1>3. PICK j : j = 0
    OBVIOUS
<1>4. n # 0
    BY <1>1 DEF TakenOut
<1>5. j \in 0 .. n - 1
    BY <1>1, <1>3, <1>4
<1>6. PICK q, m : q = From(p, j + 1, n) /\ m = n - (j + 1)
    OBVIOUS
<1>7. /\ Path(heap, c, q, m) /\ Within(q, m, S) /\ m \in Nat
      /\ \A x \in 0 .. j : \A i \in 0 .. m : q[i] # p[x]
      /\ Follows(q, m, p, j + 1)
    <2>1. TailOf(heap, p[j]) = c
        BY <1>1, <1>3
    <2> QED  BY <1>1, <1>5, <1>6, <2>1, PathBehind
<1>8. Avoids(q, m, {o})
    <2>1. j \in 0 .. j /\ \A i \in 0 .. m - 1 : i \in 0 .. m
        BY <1>3, <1>7
    <2> QED  BY <1>1, <1>3, <1>7, <2>1 DEF Avoids
<1>9. Path(heap', c, q, m) /\ Heads(heap', q, m) = Heads(heap, q, m)
    BY <1>2, <1>7, <1>8, PathHeadsKept
<1>10. Elements(heap', c) = Heads(heap', q, m)
    BY <1>9, ListIs DEF ListAt
<1>11. WithoutAt(Heads(heap, p, n), 1) = Heads(heap, p, j) \o Heads(heap, q, m)
    <2>1. PICK i : i = 1
        OBVIOUS
    <2>2. CutsOut(p, n, j, i, q, m)
        BY <1>3, <1>5, <1>6, <1>7, <2>1 DEF CutsOut
    <2>3. WithoutAt(Heads(heap, p, n), i) = Heads(heap, p, j) \o Heads(heap, q, m)
        BY <1>1, <2>2, HeadsWithout
    <2> QED  BY <2>1, <2>3
<1>12. Heads(heap, p, j) \o Heads(heap, q, m) = Heads(heap, q, m)
    BY <1>3, <1>7, HeadsNone
<1> QED  BY <1>1, <1>3, <1>9, <1>10, <1>11, <1>12

\* Place f of the path p with n nodes has the first element v; ...
FirstHead(h, p, n, v, f) == f \in 0 .. n - 1 /\ HeadOf(h, p[f]) = v /\ \A j \in 0 .. f - 1 : HeadOf(h, p[j]) # v

\* ... it is where the elements as a sequence have it, and when it has no place they do not.
LEMMA FirstHeadIs ==
    ASSUME NEW h, NEW p, NEW n \in Nat, NEW v
    PROVE  /\ (\A k \in 0 .. n - 1 : HeadOf(h, p[k]) # v) => Index(Heads(h, p, n), v) = 0
           /\ \A f : FirstHead(h, p, n, v, f) => Index(Heads(h, p, n), v) # 0 /\ FirstIn(Heads(h, p, n), v) = f + 1
<1>1. PICK s : s = Heads(h, p, n)
    OBVIOUS
<1>2. DOMAIN s = 1 .. n /\ \A i \in 1 .. n : s[i] = HeadOf(h, p[i - 1])
    <2>1. PICK V : HeadsIn(h, p, n, V)
        BY HeadsRange
    <2> QED  BY <1>1, <2>1, HeadsAre
<1>3. ASSUME \A k \in 0 .. n - 1 : HeadOf(h, p[k]) # v PROVE Index(s, v) = 0
    <2>1. \A i \in 1 .. n : i - 1 \in 0 .. n - 1
        OBVIOUS
    <2>2. ~\E i \in DOMAIN s : s[i] = v
        BY <1>2, <1>3, <2>1
    <2> QED  BY <2>2 DEF Index
<1>4. ASSUME NEW f, FirstHead(h, p, n, v, f) PROVE Index(s, v) # 0 /\ FirstIn(s, v) = f + 1
    <2>1. f \in 0 .. n - 1 /\ HeadOf(h, p[f]) = v /\ \A j \in 0 .. f - 1 : HeadOf(h, p[j]) # v
        BY <1>4 DEF FirstHead
    <2>2. PICK i : i = f + 1
        OBVIOUS
    <2>3. i \in 1 .. n /\ i - 1 = f /\ i \in DOMAIN s
        BY <1>2, <2>1, <2>2
    <2>4. s[i] = v
        BY <1>2, <2>1, <2>3
    <2>5. Index(s, v) # 0
        <3>1. Index(s, v) = CHOOSE x \in DOMAIN s : s[x] = v
            BY <2>3, <2>4 DEF Index
        <3>2. Index(s, v) \in DOMAIN s
            BY <2>3, <2>4, <3>1
        <3> QED  BY <1>2, <3>2
    <2>6. ASSUME NEW j \in 1 .. i - 1 PROVE s[j] # v
        <3>1. j \in 1 .. n /\ j - 1 \in 0 .. f - 1
            BY <2>1, <2>2
        <3> QED  BY <1>2, <2>1, <3>1
    <2>7. ASSUME NEW x \in DOMAIN s, s[x] = v, \A j \in 1 .. x - 1 : s[j] # v PROVE x = i
        <3>1. x \in 1 .. n
            BY <1>2, <2>7
        <3>2. ~(i < x) /\ ~(x < i)
            <4>1. ~(i \in 1 .. x - 1)
                BY <2>4, <2>7
            <4>2. ~(x \in 1 .. i - 1)
                BY <2>6, <2>7
            <4> QED  BY <2>3, <3>1, <4>1, <4>2
        <3> QED  BY <2>3, <3>1, <3>2
    <2>8. FirstIn(s, v) = CHOOSE x \in DOMAIN s : s[x] = v /\ \A j \in 1 .. x - 1 : s[j] # v
        BY DEF FirstIn
    <2>9. FirstIn(s, v) = i
        BY <2>3, <2>4, <2>6, <2>7, <2>8
    <2> QED  BY <2>2, <2>5, <2>9
<1> QED  BY <1>1, <1>3, <1>4

\* The call takes out the node there, closes it, and hangs what was behind it to the node before.
Closes(o) == SetTailOf(CreateFS(heap, EIntList), o, heap.top)

\* There is none with the element, or the first is closed.
LEMMA RemovesFirst ==
    ASSUME NEW N, Fits(N), NEW S, S = Objects \cup N, NEW h \in Valids, NEW v, RemoveElement(h, v),
           NEW p, NEW n, ListAt(heap, S, list[h], p, n)
    PROVE  \/ (\A k \in 0 .. n - 1 : HeadOf(heap, p[k]) # v) /\ heap' = heap /\ list' = list
           \/ \E f : /\ FirstHead(heap, p, n, v, f)
                     /\ f = 0 => heap' = Closes(p[f]) /\ Moved(h, TailOf(heap, p[f]))
                     /\ f # 0 => heap' = SetTailOf(Closes(p[f]), p[f - 1], TailOf(heap, p[f])) /\ list' = list
<1> DEFINE at == Step(heap, list[h])
           found == {j \in 0 .. ListLength(heap, list[h]) - 1 : HeadOf(heap, at[j]) = v}
           first == CHOOSE i \in found : \A j \in found : i <= j
           out == at[first]
           closed == SetTailOf(CreateFS(heap, EIntList), out, heap.top)
<1>1. IF found = {} THEN UNCHANGED <<heap, list>>
      ELSE IF first = 0 THEN heap' = closed /\ Moved(h, TailOf(heap, out))
      ELSE heap' = SetTailOf(closed, at[first - 1], TailOf(heap, out)) /\ UNCHANGED list
    BY Zenon DEF RemoveElement
<1>2. at = Step(heap, list[h]) /\ closed = Closes(out) /\ out = at[first]
    BY DEF Closes
<1>3. (\E i \in found : \A j \in found : i <= j) => first \in found /\ \A j \in found : first <= j
    OBVIOUS
<1>4. \A j : j \in found <=> j \in 0 .. ListLength(heap, list[h]) - 1 /\ HeadOf(heap, at[j]) = v
    OBVIOUS
<1> HIDE DEF at, found, first, out, closed
<1>5. Closed(heap, S) /\ list[h] \in S /\ Ends(heap, list[h])
    BY ListsBefore DEF RemoveElement, Valids
<1>6. PICK m : m = ListLength(heap, list[h])
    OBVIOUS
<1>7. Path(heap, list[h], at, m) /\ Path(heap, list[h], p, n)
    BY <1>2, <1>5, <1>6, EndsIs DEF ListAt
<1>8. m = n /\ n \in Nat /\ \A k \in 0 .. n : at[k] = p[k]
    <2>1. m = n /\ \A k \in 0 .. m : at[k] = p[k]
        BY <1>7, PathUnique
    <2> QED  BY <1>7, <2>1 DEF Path
<1>9. \A j : j \in found <=> j \in 0 .. n - 1 /\ HeadOf(heap, p[j]) = v
    <2>1. \A j \in 0 .. n - 1 : j \in 0 .. n
        BY <1>8
    <2> QED  BY <1>4, <1>6, <1>8, <2>1
<1>10. CASE found = {}
    BY <1>1, <1>9, <1>10
<1>11. CASE found # {}
    <2>1. first \in found /\ \A j \in found : first <= j
        <3>1. found \in SUBSET Nat
            BY <1>8, <1>9
        <3>2. \E i \in found : \A j \in found : i <= j
            BY <1>11, <3>1, LeastExists
        <3> QED  BY <1>3, <3>2
    <2>2. PICK f : f = first
        OBVIOUS
    <2>3. f \in 0 .. n - 1 /\ HeadOf(heap, p[f]) = v
        BY <1>9, <2>1, <2>2
    <2>4. ASSUME NEW j \in 0 .. f - 1 PROVE HeadOf(heap, p[j]) # v
        <3>1. j \in 0 .. n - 1 /\ ~(f <= j)
            BY <1>8, <2>3
        <3> QED  BY <1>9, <2>1, <2>2, <3>1
    <2>5. out = p[f] /\ (f # 0 => at[first - 1] = p[f - 1])
        <3>1. f \in 0 .. n /\ (f # 0 => f - 1 \in 0 .. n)
            BY <1>8, <2>3
        <3> QED  BY <1>2, <1>8, <2>2, <3>1
    <2>6. FirstHead(heap, p, n, v, f)
        BY <2>3, <2>4 DEF FirstHead
    <2> QED  BY <1>1, <1>2, <1>11, <2>2, <2>5, <2>6
<1> QED  BY <1>10, <1>11

\* So the node is taken out.
LEMMA ClosedIs ==
    ASSUME NEW S, Placed(heap, S), 0 \notin S, NEW a, NEW p, NEW n, ListAt(heap, S, a, p, n), NEW f \in 0 .. n - 1,
           NEW o, o = p[f], NEW b, b = IF f = 0 THEN 0 ELSE p[f - 1], NEW W, W = {o} \cup (IF b = 0 THEN {} ELSE {b}),
           f = 0 => heap' = Closes(o), f # 0 => heap' = SetTailOf(Closes(o), b, TailOf(heap, o))
    PROVE  TakenOut(S, W, o, b)
<1>1. Path(heap, a, p, n) /\ n \in Nat /\ Within(p, n, S)
    BY DEF ListAt, Path
<1>2. o \in S /\ IsNode(heap, o) /\ f \in 0 .. n /\ o # 0
    <2>1. f \in 0 .. n
        BY <1>1
    <2> QED  BY <1>1, <2>1 DEF Path, Along, Within
<1>3. PICK k, R, made, closed : k = heap.top /\ R = S \cup {k} /\ made = CreateFS(heap, EIntList) /\ closed = Closes(o)
    OBVIOUS
<1>4. Placed(made, R) /\ k \notin S /\ Rewired(heap, made, S, {}) /\ HeadsKept(heap, made, S, {}) /\ ~IsNode(made, k)
    BY <1>3, EmptyMade
<1>5. closed = SetTailOf(made, o, k) /\ o \in R /\ k \in R /\ S \subseteq R /\ IsNode(made, o) /\ o # k
    BY <1>2, <1>3, <1>4 DEF Closes, Rewired
<1>6. Placed(closed, R) /\ Rewired(made, closed, R, {o}) /\ HeadsKept(made, closed, R, {}) /\ TailOf(closed, o) = k
    BY <1>4, <1>5, TailSet
<1>7. Rewired(heap, closed, S, {o}) /\ HeadsKept(heap, closed, S, {}) /\ ~IsNode(closed, k)
    BY <1>4, <1>5, <1>6 DEF Rewired, HeadsKept
<1>8. CASE f = 0
    <2>1. heap' = closed /\ b = 0 /\ W = {o}
        BY <1>3, <1>8
    <2> QED  BY <1>2, <1>6, <1>7, <2>1 DEF TakenOut
<1>9. CASE f # 0
    <2>1. PICK i, e : i = f - 1 /\ e = TailOf(heap, o)
        OBVIOUS
    <2>2. i \in 0 .. n - 1 /\ i \in 0 .. n /\ i + 1 = f /\ b = p[i] /\ i # f
        BY <1>1, <1>9, <2>1
    <2>3. b \in S /\ IsNode(heap, b) /\ TailOf(heap, b) = o
        BY <1>1, <2>2 DEF Path, Along, Within
    <2>4. b # 0 /\ b # o /\ b \in R /\ heap' = SetTailOf(closed, b, e) /\ W = {o, b}
        <3>1. b # o
            BY <1>1, <1>2, <2>2, PathApart
        <3> QED  BY <1>3, <1>5, <1>9, <2>1, <2>3, <3>1
    <2>5. IsNode(closed, b)
        BY <1>7, <2>3 DEF Rewired
    <2>6. Rewired(closed, heap', R, {b}) /\ HeadsKept(closed, heap', R, {}) /\ TailOf(heap', b) = e
        BY <1>6, <2>4, <2>5, TailSet
    <2>7. Rewired(heap, heap', S, W) /\ HeadsKept(heap, heap', S, {})
        BY <1>5, <1>7, <2>4, <2>6 DEF Rewired, HeadsKept
    <2>8. TailOf(heap', o) = k /\ ~IsNode(heap', k)
        <3>1. IsNode(closed, o) /\ o \notin {b}
            BY <1>2, <1>7, <2>4 DEF Rewired
        <3> QED  BY <1>5, <1>6, <1>7, <2>6, <3>1 DEF Rewired
    <2> QED  BY <1>2, <2>1, <2>3, <2>4, <2>6, <2>7, <2>8 DEF TakenOut
<1> QED  BY <1>8, <1>9

\* What remains of list g when the first v is taken out of list h
AfterRemoval(g, h, v) ==
    IF Index(Held[h], v) = 0 THEN Held[g]
    ELSE LET first == FirstIn(Held[h], v)
             out == Index(Chains[g], Chains[h][first])
             pointsAt == IF first = 1 THEN 0 ELSE Chains[h][first - 1]
         IN IF out = 0 THEN Held[g]
            ELSE IF g = h \/ (out > 1 /\ Chains[g][out - 1] = pointsAt)
            THEN WithoutAt(Held[g], out)
            ELSE SubSeq(Held[g], 1, out)

\* That is what each list holds.
LEMMA RemoveElementIs ==
    ASSUME NEW N, NEW S, NEW T, NEW g, ListsStand(N, S, T, g), NEW h \in Handles, NEW v, RemoveElement(h, v), g \in Valids
    PROVE  Elements(heap', list'[g]) = AfterRemoval(g, h, v)
<1>1. Fits(N) /\ S = Objects \cup N /\ h \in Valids
    BY DEF ListsStand, RemoveElement, Valid, Valids
<1>2. PICK p, n : ListAt(heap, S, list[h], p, n) /\ n \in Nat
    BY <1>1, ListFound
<1>3. Path(heap, list[h], p, n) /\ Held[h] = Heads(heap, p, n) /\ Chains[h] = Places(p, n) /\ Elements(heap, list[h]) = Held[h]
    BY <1>1, <1>2, ListFound DEF ListAt
<1>4. CASE (\A k \in 0 .. n - 1 : HeadOf(heap, p[k]) # v) /\ heap' = heap /\ list' = list
    <2>1. Index(Held[h], v) = 0
        BY <1>2, <1>3, <1>4, FirstHeadIs
    <2>2. Elements(heap', list'[g]) = Held[g]
        BY <1>4, StandsIs
    <2> QED  BY <2>1, <2>2 DEF AfterRemoval
<1>5. ASSUME NEW f, FirstHead(heap, p, n, v, f),
             f = 0 => heap' = Closes(p[f]) /\ Moved(h, TailOf(heap, p[f])),
             f # 0 => heap' = SetTailOf(Closes(p[f]), p[f - 1], TailOf(heap, p[f])) /\ list' = list
      PROVE  Elements(heap', list'[g]) = AfterRemoval(g, h, v)
    <2>1. PICK o, b : o = p[f] /\ b = IF f = 0 THEN 0 ELSE p[f - 1]
        OBVIOUS
    <2>2. PICK W : W = {o} \cup (IF b = 0 THEN {} ELSE {b})
        OBVIOUS
    <2>3. f \in 0 .. n - 1
        BY <1>5 DEF FirstHead
    <2>4. Placed(heap, S) /\ 0 \notin S /\ Closed(heap', T)
        BY <1>1, ListsBefore DEF ListsStand
    <2>5. TakenOut(S, W, o, b)
        BY <1>2, <1>5, <2>1, <2>2, <2>3, <2>4, ClosedIs
    <2>6. Index(Held[h], v) # 0 /\ FirstIn(Held[h], v) = f + 1
        BY <1>2, <1>3, <1>5, FirstHeadIs
    <2>7. Chains[h][f + 1] = o /\ Index(Chains[h], o) = f + 1
        BY <1>3, <2>1, <2>3, PlacesAre
    <2>8. b = IF f + 1 = 1 THEN 0 ELSE Chains[h][(f + 1) - 1]
        <3>1. CASE f = 0
            BY <2>1, <3>1
        <3>2. CASE f # 0
            <4>1. PICK i : i = f - 1
                OBVIOUS
            <4>2. i \in 0 .. n - 1 /\ i + 1 = f /\ (f + 1) - 1 = f /\ f + 1 # 1
                BY <1>2, <2>3, <3>2, <4>1
            <4>3. Chains[h][i + 1] = p[i]
                BY <1>3, <4>2, PlacesAre
            <4> QED  BY <2>1, <3>2, <4>1, <4>2, <4>3
        <3> QED  BY <3>1, <3>2
    <2>9. PICK out : out = Index(Chains[g], o)
        OBVIOUS
    <2>10. AfterRemoval(g, h, v) = IF out = 0 THEN Held[g]
                                   ELSE IF g = h \/ (out > 1 /\ Chains[g][out - 1] = b) THEN WithoutAt(Held[g], out)
                                   ELSE SubSeq(Held[g], 1, out)
        BY <2>6, <2>7, <2>8, <2>9 DEF AfterRemoval
    <2>11. CASE g = h /\ f = 0
        <3>1. PICK c : c = TailOf(heap, o)
            OBVIOUS
        <3>2. list'[g] = c /\ b = 0 /\ o = list[h]
            BY <1>1, <1>3, <1>5, <2>1, <2>11, <3>1, MovedIs DEF Path
        <3>3. c \in T /\ Ends(heap', c)
            BY <3>2 DEF ListsStand
        <3>4. Elements(heap', c) = WithoutAt(Elements(heap, o), 1)
            BY <1>2, <2>4, <2>5, <3>1, <3>2, <3>3, HeadTakenOut
        <3>5. out = 1
            BY <2>7, <2>9, <2>11
        <3> QED  BY <1>3, <2>10, <2>11, <3>2, <3>4, <3>5
    <2>12. CASE ~(g = h /\ f = 0)
        <3>1. list'[g] = list[g]
            BY <1>5, <2>12, OthersMoved
        <3>2. PICK a : a = list[g]
            OBVIOUS
        <3>3. PICK q, m : ListAt(heap, S, a, q, m)
            BY <3>2, ListFound
        <3>4. Chains[g] = Places(q, m) /\ Held[g] = Elements(heap, a)
            BY <3>2, <3>3, ListFound DEF ListAt
        <3>5. a \in T /\ Ends(heap', a)
            BY <3>1, <3>2 DEF ListsStand
        <3>6. Elements(heap', a) = Remaining(a, Places(q, m), out, b)
            BY <2>4, <2>5, <2>9, <3>3, <3>4, <3>5, TakenOutIs
        <3>7. CASE g = h
            <4>1. f # 0 /\ out = f + 1
                BY <2>7, <2>9, <2>12, <3>7
            <4>2. out > 1 /\ out # 0 /\ Chains[g][out - 1] = b
                <5>1. out > 1 /\ out # 0 /\ f + 1 # 1
                    BY <1>2, <2>3, <4>1
                <5> QED  BY <2>8, <3>7, <4>1, <5>1
            <4> QED  BY <2>10, <3>1, <3>2, <3>4, <3>6, <3>7, <4>2 DEF Remaining
        <3>8. CASE g # h
            BY <2>10, <3>1, <3>2, <3>4, <3>6, <3>8 DEF Remaining
        <3> QED  BY <3>7, <3>8
    <2> QED  BY <2>11, <2>12
<1>6. \/ (\A k \in 0 .. n - 1 : HeadOf(heap, p[k]) # v) /\ heap' = heap /\ list' = list
      \/ \E f : /\ FirstHead(heap, p, n, v, f)
                /\ f = 0 => heap' = Closes(p[f]) /\ Moved(h, TailOf(heap, p[f]))
                /\ f # 0 => heap' = SetTailOf(Closes(p[f]), p[f - 1], TailOf(heap, p[f])) /\ list' = list
    BY <1>1, <1>2, RemovesFirst
<1> QED  BY <1>4, <1>5, <1>6

-----------------------------------------------------------------------------
(* What each list holds after a call *)

\* Chains or contents of the lists, a list made by the call among them, before it
AtCall(f) == IF did'.op = "create" THEN [h \in Valids \cup {did'.on} |-> IF h \in Valids THEN f[h] ELSE << >>] ELSE f

AllEnd == \A h \in Valids : Ends(heap, list[h])

\* List g holds what the operation on sequences of the name of the call makes of it.
Serves(g) == Elements(heap', list'[g]) = Expected(g, AtCall(Chains), AtCall(Held))

\* Where a list stands that ends is a place of the heap.
LEMMA StandsAfter ==
    ASSUME NEW N, Fits(N), EverythingFits', AllEnd, NEW g \in Handles, list'[g] # 0, Ends(heap', list'[g])
    PROVE  \E S, T : ListsStand(N, S, T, g)
<1>1. PICK T : Closed(heap', T) /\ \A h \in Handles : list'[h] # 0 => list'[h] \in T
    BY ListsAfter
<1>2. PICK S : S = Objects \cup N
    OBVIOUS
<1>3. ListsStand(N, S, T, g)
    BY <1>1, <1>2 DEF ListsStand, AllEnd
<1> QED  BY <1>3

\* When the list object on the call stands somewhere, all of them do.
LEMMA PlacedStill ==
    ASSUME NEW N, Fits(N), NEW h \in Handles, NEW a, Moved(h, a), a # 0, NEW g \in Valids \cup {h}
    PROVE  g \in Handles /\ list'[g] # 0
<1>1. CASE g = h
    BY <1>1, MovedIs
<1>2. CASE g # h
    <2>1. g \in Valids /\ list'[g] = list[g]
        BY <1>2, OthersMoved
    <2> QED  BY <2>1 DEF Valids
<1> QED  BY <1>1, <1>2

\* A new list
LEMMA CreateListServes ==
    ASSUME NEW N, Fits(N), EverythingFits', AllEnd, NEW h \in Handles, CreateList(h),
           NEW g \in Valids \cup {h}, Ends(heap', list'[g])
    PROVE  Serves(g)
<1>1. did' = [op |-> "create", on |-> h, arg |-> << >>] /\ Moved(h, heap.top)
    BY DEF CreateList, Did
<1>2. heap.top # 0
    BY DEF Fits, HeapsAreFit, HeapFits
<1>3. PICK S, T : ListsStand(N, S, T, g)
    BY <1>1, <1>2, PlacedStill, StandsAfter
<1>4. Elements(heap', list'[g]) = IF g = h THEN << >> ELSE Held[g]
    BY <1>3, CreateListIs
<1>5. Expected(g, AtCall(Chains), AtCall(Held)) = IF g = h THEN << >> ELSE Held[g]
    BY <1>1 DEF Expected, AtCall
<1> QED  BY <1>4, <1>5 DEF Serves

\* ... with an element
LEMMA CreateListWithServes ==
    ASSUME NEW N, Fits(N), EverythingFits', AllEnd, NEW h \in Handles, NEW v, CreateListWith(h, v),
           NEW g \in Valids \cup {h}, Ends(heap', list'[g])
    PROVE  Serves(g)
<1>1. did' = [op |-> "create", on |-> h, arg |-> <<v>>] /\ Moved(h, heap.top)
    BY DEF CreateListWith, Did
<1>2. heap.top # 0
    BY DEF Fits, HeapsAreFit, HeapFits
<1>3. PICK S, T : ListsStand(N, S, T, g)
    BY <1>1, <1>2, PlacedStill, StandsAfter
<1>4. Elements(heap', list'[g]) = IF g = h THEN <<v>> ELSE Held[g]
    BY <1>3, CreateListWithIs
<1>5. Expected(g, AtCall(Chains), AtCall(Held)) = IF g = h THEN <<v>> ELSE Held[g]
    BY <1>1 DEF Expected, AtCall
<1> QED  BY <1>4, <1>5 DEF Serves

\* One element more, in front ...
LEMMA AddFirstServes ==
    ASSUME NEW N, Fits(N), EverythingFits', AllEnd, NEW h \in Handles, NEW v, AddFirst(h, v),
           NEW g \in Valids, Ends(heap', list'[g])
    PROVE  Serves(g)
<1>1. did' = [op |-> "addFirst", on |-> h, arg |-> v] /\ Moved(h, heap.top) /\ heap' = NewNode(heap, v, list[h]) /\ h \in Valids
    BY DEF AddFirst, Did, Valid, Valids
<1>2. heap.top # 0
    BY DEF Fits, HeapsAreFit, HeapFits
<1>3. PICK S, T : ListsStand(N, S, T, g)
    BY <1>1, <1>2, PlacedStill, StandsAfter
<1>4. Elements(heap', list'[g]) = IF g = h THEN <<v>> \o Held[g] ELSE Held[g]
    BY <1>1, <1>3, AddFirstIs
<1>5. Expected(g, AtCall(Chains), AtCall(Held)) = IF g = h THEN <<v>> \o Held[g] ELSE Held[g]
    BY <1>1 DEF Expected, AtCall
<1> QED  BY <1>4, <1>5 DEF Serves

\* ... or behind
LEMMA AddLastServes ==
    ASSUME NEW N, Fits(N), EverythingFits', AllEnd, NEW h \in Handles, NEW v, AddLast(h, v),
           NEW g \in Valids, Ends(heap', list'[g])
    PROVE  Serves(g)
<1>1. did' = [op |-> "addLast", on |-> h, arg |-> v] /\ list[h] # 0
    BY DEF AddLast, Did, Valid
<1>2. PICK a : Moved(h, a) /\ a # 0
    <2>1. heap.top # 0
        BY DEF Fits, HeapsAreFit, HeapFits
    <2>2. Moved(h, IF IsNode(heap, list[h]) THEN list[h] ELSE heap.top)
        BY DEF AddLast
    <2> QED  BY <1>1, <2>1, <2>2
<1>3. PICK S, T : ListsStand(N, S, T, g)
    BY <1>2, PlacedStill, StandsAfter
<1>4. Elements(heap', list'[g]) = IF g = h \/ Shares(h, g) THEN Append(Held[g], v) ELSE Held[g]
    BY <1>3, AddLastIs
<1>5. Expected(g, AtCall(Chains), AtCall(Held)) = IF g = h \/ Shares(h, g) THEN Append(Held[g], v) ELSE Held[g]
    BY <1>1 DEF Expected, AtCall, Shares
<1> QED  BY <1>4, <1>5 DEF Serves

\* Two lists become one, ...
LEMMA AppendListServes ==
    ASSUME NEW N, Fits(N), EverythingFits', AllEnd, NEW h \in Handles, NEW c \in Handles, AppendList(h, c),
           NEW g \in Valids, Ends(heap', list'[g])
    PROVE  Serves(g)
<1>1. did' = [op |-> "append", on |-> h, arg |-> c]
    BY DEF AppendList, Did
<1>2. PICK a : Moved(h, a) /\ a # 0
    BY DEF AppendList, Valid
<1>3. PICK S, T : ListsStand(N, S, T, g)
    BY <1>2, PlacedStill, StandsAfter
<1>4. Elements(heap', list'[g]) = IF g = h \/ Shares(h, g) THEN Held[g] \o Held[c] ELSE Held[g]
    BY <1>3, AppendListIs
<1>5. Expected(g, AtCall(Chains), AtCall(Held)) = IF g = h \/ Shares(h, g) THEN Held[g] \o Held[c] ELSE Held[g]
    BY <1>1 DEF Expected, AtCall, Shares
<1> QED  BY <1>4, <1>5 DEF Serves

\* ... the other way round, ...
LEMMA PrependListServes ==
    ASSUME NEW N, Fits(N), EverythingFits', AllEnd, NEW h \in Handles, NEW c \in Handles, PrependList(h, c),
           NEW g \in Valids, Ends(heap', list'[g])
    PROVE  Serves(g)
<1>1. did' = [op |-> "prepend", on |-> h, arg |-> c]
    BY DEF PrependList, Did
<1>2. PICK a : Moved(h, a) /\ a # 0
    BY DEF PrependList, Valid
<1>3. PICK S, T : ListsStand(N, S, T, g)
    BY <1>2, PlacedStill, StandsAfter
<1>4. Elements(heap', list'[g]) = IF g = h THEN Held[c] \o Held[g]
                                  ELSE IF Shares(c, g) THEN Held[g] \o Held[h] ELSE Held[g]
    BY <1>3, PrependListIs
<1>5. Expected(g, AtCall(Chains), AtCall(Held)) = IF g = h THEN Held[c] \o Held[g]
                                                  ELSE IF Shares(c, g) THEN Held[g] \o Held[h] ELSE Held[g]
    BY <1>1 DEF Expected, AtCall, Shares
<1> QED  BY <1>4, <1>5 DEF Serves

\* One element less, the first ...
LEMMA MoveListToNextServes ==
    ASSUME NEW N, Fits(N), EverythingFits', AllEnd, NEW h \in Handles, MoveListToNext(h),
           NEW g \in Valids, Ends(heap', list'[g])
    PROVE  Serves(g)
<1>1. did' = [op |-> "moveToNext", on |-> h, arg |-> 0] /\ Moved(h, TailOf(heap, list[h])) /\ list[h] # 0 /\ IsNode(heap, list[h])
    BY DEF MoveListToNext, Did, Valid
<1>2. TailOf(heap, list[h]) # 0
    <2>1. PICK S : S = Objects \cup N
        OBVIOUS
    <2>2. Closed(heap, S) /\ list[h] \in S /\ S \subseteq Nat \ {0}
        BY <1>1, <2>1, ListsBefore
    <2> QED  BY <1>1, <2>2 DEF Closed
<1>3. PICK S, T : ListsStand(N, S, T, g)
    BY <1>1, <1>2, PlacedStill, StandsAfter
<1>4. Elements(heap', list'[g]) = IF g = h THEN Tail(Held[g]) ELSE Held[g]
    BY <1>3, MoveListToNextIs
<1>5. Expected(g, AtCall(Chains), AtCall(Held)) = IF g = h THEN Tail(Held[g]) ELSE Held[g]
    BY <1>1 DEF Expected, AtCall
<1> QED  BY <1>4, <1>5 DEF Serves

\* ... or the first with a value
LEMMA RemoveElementServes ==
    ASSUME NEW N, Fits(N), EverythingFits', AllEnd, NEW h \in Handles, NEW v, RemoveElement(h, v),
           NEW g \in Valids, Ends(heap', list'[g])
    PROVE  Serves(g)
<1>1. did' = [op |-> "removeElement", on |-> h, arg |-> v] /\ h \in Valids /\ Ends(heap, list[h])
    BY DEF RemoveElement, Did, Valid, Valids
<1>2. g \in Handles /\ list'[g] # 0
    <2>1. PICK S : S = Objects \cup N
        OBVIOUS
    <2>2. Closed(heap, S) /\ list[h] \in S /\ S \subseteq Nat \ {0}
        BY <1>1, <2>1, ListsBefore DEF Valids
    <2>3. PICK p, n : ListAt(heap, S, list[h], p, n)
        BY <1>1, <2>2, ListExists
    <2>4. list' = list \/ \E f : f \in 0 .. n - 1 /\ Moved(h, TailOf(heap, p[f]))
        <3>1. \/ (\A k \in 0 .. n - 1 : HeadOf(heap, p[k]) # v) /\ heap' = heap /\ list' = list
              \/ \E f : /\ FirstHead(heap, p, n, v, f)
                        /\ f = 0 => heap' = Closes(p[f]) /\ Moved(h, TailOf(heap, p[f]))
                        /\ f # 0 => heap' = SetTailOf(Closes(p[f]), p[f - 1], TailOf(heap, p[f])) /\ list' = list
            BY <1>1, <2>1, <2>3, RemovesFirst
        <3> QED  BY <3>1 DEF FirstHead
    <2>5. ASSUME NEW f \in 0 .. n - 1 PROVE TailOf(heap, p[f]) # 0
        <3>1. n \in Nat /\ IsNode(heap, p[f]) /\ Within(p, n, S)
            BY <2>3 DEF ListAt, Path, Along
        <3>2. p[f] \in S
            BY <3>1 DEF Within
        <3> QED  BY <2>2, <3>1, <3>2 DEF Closed
    <2>6. CASE list' = list
        BY <2>6 DEF Valids
    <2>7. CASE \E f : f \in 0 .. n - 1 /\ Moved(h, TailOf(heap, p[f]))
        <3>1. PICK a : Moved(h, a) /\ a # 0
            BY <2>5, <2>7
        <3> QED  BY <3>1, PlacedStill
    <2> QED  BY <2>4, <2>6, <2>7
<1>3. PICK S, T : ListsStand(N, S, T, g)
    BY <1>2, StandsAfter
<1>4. Elements(heap', list'[g]) = AfterRemoval(g, h, v)
    BY <1>3, RemoveElementIs
<1>5. Expected(g, AtCall(Chains), AtCall(Held)) = AfterRemoval(g, h, v)
    BY <1>1 DEF Expected, AtCall, AfterRemoval
<1> QED  BY <1>4, <1>5 DEF Serves

\* Another element ...
LEMMA SetHeadServes ==
    ASSUME NEW N, Fits(N), EverythingFits', AllEnd, NEW h \in Handles, NEW v, SetHead(h, v),
           NEW g \in Valids, Ends(heap', list'[g])
    PROVE  Serves(g)
<1>1. did' = [op |-> "setHead", on |-> h, arg |-> v] /\ list' = list
    BY DEF SetHead, Did
<1>2. g \in Handles /\ list'[g] # 0
    BY <1>1 DEF Valids
<1>3. PICK S, T : ListsStand(N, S, T, g)
    BY <1>2, StandsAfter
<1>4. PICK here : here = Index(Chains[g], list[h])
    OBVIOUS
<1>5. Elements(heap', list'[g]) = IF here = 0 THEN Held[g] ELSE [Held[g] EXCEPT ![here] = v]
    BY <1>3, <1>4, SetHeadIs
<1>6. Expected(g, AtCall(Chains), AtCall(Held)) = IF here = 0 THEN Held[g] ELSE [Held[g] EXCEPT ![here] = v]
    BY <1>1, <1>4 DEF Expected, AtCall
<1> QED  BY <1>5, <1>6 DEF Serves

\* ... or another end
LEMMA SetTailServes ==
    ASSUME NEW N, Fits(N), EverythingFits', AllEnd, NEW h \in Handles, NEW c \in Handles, SetTail(h, c),
           NEW g \in Valids, Ends(heap', list'[g])
    PROVE  Serves(g)
<1>1. did' = [op |-> "setTail", on |-> h, arg |-> c] /\ list' = list
    BY DEF SetTail, Did
<1>2. g \in Handles /\ list'[g] # 0
    BY <1>1 DEF Valids
<1>3. PICK S, T : ListsStand(N, S, T, g)
    BY <1>2, StandsAfter
<1>4. PICK here : here = Index(Chains[g], list[h])
    OBVIOUS
<1>5. Elements(heap', list'[g]) = IF here = 0 THEN Held[g] ELSE SubSeq(Held[g], 1, here) \o Held[c]
    BY <1>3, <1>4, SetTailIs
<1>6. Expected(g, AtCall(Chains), AtCall(Held)) = IF here = 0 THEN Held[g] ELSE SubSeq(Held[g], 1, here) \o Held[c]
    BY <1>1, <1>4 DEF Expected, AtCall
<1> QED  BY <1>5, <1>6 DEF Serves

\* The calls that are not on lists say so.
LEMMA OthersAreQuiet ==
    ASSUME OnFeatures \/ OnArrays \/ Reset \/ (\E h \in Handles, a \in Objects, f \in Features : SetList(a, f, h))
    PROVE  did'.op = "none"
<1>1. CASE OnFeatures
    <2>1. \A t : Create(t) => did'.op = "none"
        BY DEF Create, Quiet
    <2>2. \A a, f, v : SetNumber(a, f, v) \/ SetLong(a, f, v) \/ SetBoolean(a, f, v) => did'.op = "none"
        BY DEF SetNumber, SetLong, SetBoolean, Quiet
    <2>3. \A a, f, v : SetString(a, f, v) \/ SetFS(a, f, v) => did'.op = "none"
        BY DEF SetString, SetFS, Quiet
    <2>4. \A a, t : Clone(a) \/ CloneTo(a, t) => did'.op = "none"
        <3>1. ASSUME NEW a, Clone(a) PROVE did'.op = "none"
            BY <3>1 DEF Clone, Quiet
        <3>2. ASSUME NEW a, NEW t, CloneTo(a, t) PROVE did'.op = "none"
            BY <3>2 DEF CloneTo, Quiet
        <3> QED  BY <3>1, <3>2
    <2> QED  BY <1>1, <2>1, <2>2, <2>3, <2>4 DEF OnFeatures
<1>2. CASE OnArrays
    <2>1. \A t, n : CreateArray(t, n) => did'.op = "none"
        BY DEF CreateArray, Quiet
    <2>2. \A a, i, k, v : ArraySet(a, i, k, v) => did'.op = "none"
        BY DEF ArraySet, Quiet
    <2>3. \A a, v, n, i : CopyFromArray(a, v, n, i) => did'.op = "none"
        BY DEF CopyFromArray, Quiet
    <2> QED  BY <1>2, <2>1, <2>2, <2>3 DEF OnArrays
<1>3. CASE Reset
    BY <1>3 DEF Reset
<1>4. CASE \E h \in Handles, a \in Objects, f \in Features : SetList(a, f, h)
    BY <1>4 DEF SetList, Quiet
<1> QED  BY <1>1, <1>2, <1>3, <1>4

\* Every call on a list serves every list.
LEMMA CallServes ==
    ASSUME EverythingFits, EverythingFits', Next, ~(did'.op \in {"none", "getListFSValue"}), AllEnd,
           NEW g \in Valids \cup {did'.on}, Ends(heap', list'[g])
    PROVE  Serves(g)
<1>1. PICK N : Fits(N)
    BY DEF EverythingFits
<1>2. PICK h \in Handles :
        \/ CreateList(h) \/ MoveListToNext(h)
        \/ \E v \in HeadValues : \/ CreateListWith(h, v) \/ AddFirst(h, v) \/ AddLast(h, v)
                                 \/ RemoveElement(h, v) \/ SetHead(h, v)
        \/ \E c \in Handles : AppendList(h, c) \/ PrependList(h, c) \/ SetTail(h, c)
        \/ \E a \in Objects, f \in Features : GetListFSValue(h, a, f)
    <2>1. OnChains
        BY OthersAreQuiet DEF Next
    <2> QED  BY <2>1, OthersAreQuiet DEF OnChains
<1>3. ~\E a \in Objects, f \in Features : GetListFSValue(h, a, f)
    BY DEF GetListFSValue, Did
<1>4. CASE CreateList(h)
    <2>1. did'.on = h
        BY <1>4 DEF CreateList, Did
    <2> QED  BY <1>1, <1>4, <2>1, CreateListServes
<1>5. ASSUME NEW v, CreateListWith(h, v) PROVE Serves(g)
    <2>1. did'.on = h
        BY <1>5 DEF CreateListWith, Did
    <2> QED  BY <1>1, <1>5, <2>1, CreateListWithServes
<1>6. CASE MoveListToNext(h)
    <2>1. g \in Valids
        BY <1>6 DEF MoveListToNext, Did, Valid, Valids
    <2> QED  BY <1>1, <1>6, <2>1, MoveListToNextServes
<1>7. ASSUME NEW v, AddFirst(h, v) \/ AddLast(h, v) \/ RemoveElement(h, v) \/ SetHead(h, v) PROVE Serves(g)
    <2>1. g \in Valids
        BY <1>7 DEF AddFirst, AddLast, RemoveElement, SetHead, Did, Valid, Valids
    <2> QED  BY <1>1, <1>7, <2>1, AddFirstServes, AddLastServes, RemoveElementServes, SetHeadServes
<1>8. ASSUME NEW c \in Handles, AppendList(h, c) \/ PrependList(h, c) \/ SetTail(h, c) PROVE Serves(g)
    <2>1. g \in Valids
        BY <1>8 DEF AppendList, PrependList, SetTail, Did, Valid, Valids
    <2> QED  BY <1>1, <1>8, <2>1, AppendListServes, PrependListServes, SetTailServes
<1> QED  BY <1>2, <1>3, <1>4, <1>5, <1>6, <1>7, <1>8

-----------------------------------------------------------------------------
(* Theorems *)

\* As long as no array is cloned and no structure to a type without common features (Careless;
\* copyFeatures() asserts that it does not happen), every cell of every heap is what was written
\* there, after any sequence of calls: see EverythingFits.
THEOREM EverythingAlwaysFits ==
    ASSUME Careless = FALSE
    PROVE  Spec => []EverythingFits
<1>1. Init => EverythingFits
    BY InitFits
<1>2. EverythingFits /\ [Next]_vars => EverythingFits'
    BY StepFits
<1> QED  BY <1>1, <1>2, PTL DEF Spec

\* Then every value is read as it was last written, and the iterator over the heap finds every
\* feature structure: property HeapIsRead of the runs, for any types, values, sizes and bounds.
THEOREM HeapIsAlwaysRead ==
    ASSUME Careless = FALSE
    PROVE  Spec => []HeapIsRead
<1>1. EverythingFits => HeapIsRead
    BY FitsReads, FitsIterates DEF HeapIsRead
<1> QED  BY <1>1, EverythingAlwaysFits, PTL

\* Lists are sequences for any number of list objects and any calls: property ListsAreSequences.
THEOREM ListsAlwaysSequences ==
    ASSUME Careless = FALSE
    PROVE  Spec => ListsAreSequences
<1>1. ASSUME EverythingFits, EverythingFits', [Next]_vars
      PROVE  [\/ did'.op \in {"none", "getListFSValue"}
              \/ LET valid == {h \in Handles : list[h] # 0}
                     chain == [h \in valid |-> Chain(heap, list[h])]
                     held == [h \in valid |-> Elements(heap, list[h])]
                     before == IF did'.op = "create"
                               THEN [h \in valid \cup {did'.on} |-> IF h \in valid THEN held[h] ELSE << >>]
                               ELSE held
                     chains == IF did'.op = "create"
                               THEN [h \in valid \cup {did'.on} |-> IF h \in valid THEN chain[h] ELSE << >>]
                               ELSE chain
                 IN (\A h \in valid : Ends(heap, list[h])) =>
                    \A g \in valid \cup {did'.on} :
                      Ends(heap', list'[g]) => Elements(heap', list'[g]) = Expected(g, chains, before)]_vars
    <2>1. CASE Next
        <3>1. \/ did'.op \in {"none", "getListFSValue"}
              \/ AllEnd => \A g \in Valids \cup {did'.on} : Ends(heap', list'[g]) => Serves(g)
            BY <1>1, <2>1, CallServes
        <3> QED  BY <3>1 DEF AllEnd, Valids, Chains, Held, AtCall, Serves
    <2>2. CASE UNCHANGED vars
        BY <2>2
    <2> QED  BY <1>1, <2>1, <2>2
<1> QED  BY <1>1, EverythingAlwaysFits, PTL DEF Spec, ListsAreSequences

=============================================================================
