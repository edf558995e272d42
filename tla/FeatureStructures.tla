------------------------- MODULE FeatureStructures -------------------------
(***************************************************************************)
(* Feature structures in the heaps of a CAS: src/src/cas/lowlevel_fsheap,  *)
(* featurestructure.cpp, arrayfs.cpp, listfs.cpp.  A feature structure is  *)
(* an address in the main heap: its type and one cell per feature.  A cell *)
(* holds a number or an address, or the place of a value in a side heap:   *)
(* strings through a table of references, 64-bit and 8-bit values.  New    *)
(* cells are not cleared, so the heaps promise that a cell nobody wrote    *)
(* is zero.  Lists are feature structures of their own that share their    *)
(* ends, and a list object (a handle) is a place in such a chain.          *)
(* Types and features are numbers, as in the code.  Floats, bytes, shorts  *)
(* and doubles are stored like integers, booleans and longs.               *)
(***************************************************************************)
EXTENDS Integers, Sequences, FiniteSets

CONSTANTS Types,            \* the type numbers, the built-in ones among them
          Features,         \* the feature numbers
          Supertypes,       \* [type -> the types that subsume it, itself too]
          FeaturesOf,       \* [type -> its features by offset, inherited first]
          RangeOf,          \* [feature -> its range type]
          Numbers, Strings, \* values: numbers, and sequences of characters
          HeadValues,       \* the elements of lists
          Sizes,            \* the lengths of new arrays
          Handles,          \* the list objects of the application
          Careless,         \* whether clones sideways and of arrays are made
          MaxCells,         \* bounds: cells used in the main heap ...
          MaxChars,         \* ... for characters and references ...
          MaxSide,          \* ... and in the other side heaps
          MaxResets         \* calls of reset

Top == 1
Integer == 2
Boolean == 3
Long == 4
String == 5
FSArray == 6
IntArray == 7
StringArray == 8
BooleanArray == 9
LongArray == 10
IntList == 11
EIntList == 12
NEIntList == 13
HeadFeature == 1            \* features of NEIntList
TailFeature == 2

Arrays == {FSArray, IntArray, StringArray, BooleanArray, LongArray}
Primitives == {Integer, Boolean, Long, String}
Subsumes(t, u) == t \in Supertypes[u]

(* Every type has the features of its supertypes at the same offsets: what
   the type system keeps for the types it is told of. *)
ASSUME OffsetsAreInherited ==
  \A t \in Types : \A u \in Supertypes[t] :
    /\ Len(FeaturesOf[u]) <= Len(FeaturesOf[t])
    /\ \A i \in DOMAIN FeaturesOf[u] : FeaturesOf[t][i] = FeaturesOf[u][i]

(* The types are a tree below the top type, in which the built-in ones have
   their places (internal_typeshortcuts.hpp); a type has a feature once. *)
ASSUME TypesAssumption ==
  /\ 1 .. 13 \subseteq Types
  /\ Supertypes \in [Types -> SUBSET Types]
  /\ \A t \in Types : t \in Supertypes[t]
  /\ \A t \in Types : \A u \in Supertypes[t] : Supertypes[u] \subseteq Supertypes[t]
  /\ \A t \in Types : \A u, v \in Supertypes[t] : Subsumes(u, v) \/ Subsumes(v, u)
  /\ \A t, u \in Types : \E s \in Supertypes[t] \cap Supertypes[u] :
       \A r \in Supertypes[t] \cap Supertypes[u] : Subsumes(r, s)
  /\ \A t \in Primitives : Supertypes[t] = {Top, t}
  /\ \A t \in Arrays \cup {IntList, EIntList, NEIntList} : ~Subsumes(String, t)
  /\ FeaturesOf \in [Types -> Seq(Features)]
  /\ \A t \in Types : \A i, j \in DOMAIN FeaturesOf[t] :
       FeaturesOf[t][i] = FeaturesOf[t][j] => i = j
  /\ \A t \in Arrays \cup {EIntList} : FeaturesOf[t] = << >>
  /\ FeaturesOf[NEIntList] = <<HeadFeature, TailFeature>>
  /\ RangeOf \in [Features -> Types]

(* Characters are not the end mark; lengths are numbers. *)
ASSUME ValuesAssumption ==
  /\ Strings \subseteq Seq(Int \ {0})
  /\ Sizes \subseteq Nat

VARIABLES heap,             \* the six heaps of FSHeap: types and features,
          refs,             \* two cells for each string: place and length,
          chars,            \* the characters of the strings,
          longs, bytes,     \* 64-bit and 8-bit values
          list,             \* where each list object stands, 0 when invalid
          resets,
          stored,           \* what the application wrote, by object (ghost)
          did               \* the call on a list just made (ghost)

vars == <<heap, refs, chars, longs, bytes, list, resets, stored, did>>
side == <<refs, chars, longs, bytes>>

----------------------------------------------------------------------------
(* Heaps: the cells in memory and the first that is free. *)

NewHeap(n) == [cell |-> [i \in 0 .. n - 1 |-> 0], top |-> 1]
Capacity(h) == Cardinality(DOMAIN h.cell)

IncreaseHeap(h, n) ==
  LET top == h.top + n
      size == Capacity(h)
      new == IF n > size THEN size + n ELSE 2 * size
  IN IF top < size THEN [h EXCEPT !.top = top]
     ELSE [cell |-> [i \in 0 .. new - 1 |-> IF i < h.top THEN h.cell[i] ELSE 0],
           top |-> top]

SetCells(h, at, values) ==
  [h EXCEPT !.cell = [i \in DOMAIN h.cell |->
                        IF i \in at .. at + Len(values) - 1 THEN values[i - at + 1]
                        ELSE h.cell[i]]]

(* The mutated resetting: the cells keep what they held. *)
ResetTop(h) == [h EXCEPT !.top = 1]

ResetHeap(h) ==
  IF h.top = 1 THEN h
  ELSE [cell |-> [i \in DOMAIN h.cell |-> IF i < h.top THEN 0 ELSE h.cell[i]],
        top |-> 1]

Resides(a) == a >= 1 /\ a < heap.top
TypeOf(h, a) == h.cell[a]
FeatureOffset(t, f) == CHOOSE i \in DOMAIN FeaturesOf[t] : FeaturesOf[t][i] = f
Cell(a, f) == heap.cell[a + FeatureOffset(heap.cell[a], f)]

(* A new object behind the last one; its cells are those of the heap. *)
CreateFS(h, t) == SetCells(IncreaseHeap(h, Len(FeaturesOf[t]) + 1), h.top, <<t>>)

----------------------------------------------------------------------------
(* Strings: the characters with an end mark, and a reference to them. *)

AddString(s) == SetCells(IncreaseHeap(chars, Len(s) + 1), chars.top, s)
Length(h, at) == (CHOOSE n \in 0 .. h.top - at :
                    /\ h.cell[at + n] = 0
                    /\ \A m \in 0 .. n - 1 : h.cell[at + m] # 0)
RefCell(r) == 1 + 2 * (r - 1)

(* setStringRef on reference r of table: the string at place at. *)
SetStringRef(table, text, r, at) == SetCells(table, RefCell(r), <<at, Length(text, at)>>)
(* getStringAsFS: a reference of its own for the string. *)
NextRef(table) == 1 + ((table.top - 1) \div 2)
WithRef(table, text, at) ==
  SetStringRef(IncreaseHeap(table, 2), text, NextRef(table), at)

StringAt(r) ==
  IF r = 0 THEN << >>
  ELSE [i \in 1 .. refs.cell[RefCell(r) + 1] |-> chars.cell[refs.cell[RefCell(r)] + i - 1]]

BooleanCell(b) == IF b = 1 THEN 1 ELSE 2
LongAt(p) == IF p = 0 THEN 10 ELSE longs.cell[p]
LongCells == 8              \* addLong() asks for the bytes of one value

----------------------------------------------------------------------------
(* Which feature takes which value: checkAppropFeature.  A feature whose
   range is the top type takes all but arrays of feature structures. *)

HasFeature(a, f) ==
  \E i \in DOMAIN FeaturesOf[TypeOf(heap, a)] : FeaturesOf[TypeOf(heap, a)][i] = f

Takes(a, f, t) ==
  /\ Resides(a)
  /\ TypeOf(heap, a) \in Types
  /\ HasFeature(a, f)
  /\ IF t = FSArray THEN Subsumes(FSArray, RangeOf[f]) ELSE Subsumes(RangeOf[f], t)

IsString(f) == Subsumes(String, RangeOf[f])

Objects == DOMAIN stored
Unset == [kind |-> "unset"]
Value(k, v) == [kind |-> k, v |-> v]
BlankObject(t) == [type |-> t,
                   slots |-> [f \in {FeaturesOf[t][i] : i \in DOMAIN FeaturesOf[t]} |-> Unset]]
BlankArray(t, n) == [type |-> t, slots |-> [i \in 0 .. n - 1 |-> Unset]]
With(objects, a, o) == [x \in DOMAIN objects \cup {a} |-> IF x = a THEN o ELSE objects[x]]
Wrote(a, i, k, v) == stored' = [stored EXCEPT ![a].slots[i] = Value(k, v)]

HeapsFit == /\ heap'.top <= MaxCells
            /\ refs'.top <= MaxChars /\ chars'.top <= MaxChars
            /\ longs'.top <= MaxSide /\ bytes'.top <= MaxSide
Quiet == /\ UNCHANGED <<list, resets>>
         /\ did' = [op |-> "none"]

----------------------------------------------------------------------------
(* Objects and their features. *)

(* No object is of a string subtype, which createFS() asserts; lists and
   arrays are made by calls of their own. *)
Creatable == {t \in Types \ (Primitives \cup Arrays \cup {IntList, EIntList, NEIntList}) :
                ~Subsumes(String, t)}

Create(t) ==
  /\ t \in Creatable
  /\ heap' = CreateFS(heap, t)
  /\ stored' = With(stored, heap.top, BlankObject(t))
  /\ UNCHANGED side
  /\ Quiet /\ HeapsFit

SetNumber(a, f, v) ==
  /\ a \in Objects /\ Takes(a, f, Integer)
  /\ heap' = SetCells(heap, a + FeatureOffset(TypeOf(heap, a), f), <<v>>)
  /\ Wrote(a, f, "number", v)
  /\ UNCHANGED side
  /\ Quiet

SetBoolean(a, f, b) ==
  /\ a \in Objects /\ Takes(a, f, Boolean)
  /\ heap' = SetCells(heap, a + FeatureOffset(TypeOf(heap, a), f), <<BooleanCell(b)>>)
  /\ Wrote(a, f, "boolean", b)
  /\ UNCHANGED side
  /\ Quiet

(* Every write of a 64-bit value takes new cells: a clone may keep the old. *)
SetLong(a, f, v) ==
  /\ a \in Objects /\ Takes(a, f, Long)
  /\ longs' = SetCells(IncreaseHeap(longs, LongCells), longs.top, <<v>>)
  /\ heap' = SetCells(heap, a + FeatureOffset(TypeOf(heap, a), f), <<longs.top>>)
  /\ Wrote(a, f, "long", v)
  /\ UNCHANGED <<refs, chars, bytes>>
  /\ Quiet /\ HeapsFit

(* A string feature keeps its reference: it is pointed at the new string.
   Only the range of the feature is looked at. *)
SetString(a, f, s) ==
  /\ a \in Objects /\ HasFeature(a, f) /\ IsString(f)
  /\ chars' = AddString(s)
  /\ LET r == Cell(a, f) IN
     IF r = 0
     THEN /\ refs' = WithRef(refs, chars', chars.top)
          /\ heap' = SetCells(heap, a + FeatureOffset(TypeOf(heap, a), f), <<NextRef(refs)>>)
     ELSE /\ refs' = SetStringRef(refs, chars', r, chars.top)
          /\ heap' = heap
  /\ Wrote(a, f, "string", s)
  /\ UNCHANGED <<longs, bytes>>
  /\ Quiet /\ HeapsFit

SetFS(a, f, b) ==
  /\ {a, b} \subseteq Objects /\ Takes(a, f, TypeOf(heap, b))
  /\ heap' = SetCells(heap, a + FeatureOffset(TypeOf(heap, a), f), <<b>>)
  /\ Wrote(a, f, "fs", b)
  /\ UNCHANGED side
  /\ Quiet

----------------------------------------------------------------------------
(* Arrays: of numbers, strings and feature structures in the main heap
   behind their size, of small and of large values in a side heap. *)

CreateArray(t, n) ==
  /\ t \in Arrays
  /\ CASE t = LongArray ->
            /\ longs' = IncreaseHeap(longs, n)
            /\ heap' = SetCells(IncreaseHeap(heap, 3), heap.top, <<t, n, longs.top>>)
            /\ bytes' = bytes
       [] t = BooleanArray ->
            /\ bytes' = IncreaseHeap(bytes, n)
            /\ heap' = SetCells(IncreaseHeap(heap, 3), heap.top, <<t, n, bytes.top>>)
            /\ longs' = longs
       [] OTHER ->
            /\ heap' = SetCells(IncreaseHeap(heap, 2 + n), heap.top, <<t, n>>)
            /\ UNCHANGED <<longs, bytes>>
  /\ stored' = With(stored, heap.top, BlankArray(t, n))
  /\ UNCHANGED <<refs, chars>>
  /\ Quiet /\ HeapsFit

ArraySize(a) == heap.cell[a + 1]
ArrayOffset(a) == IF TypeOf(heap, a) \in {BooleanArray, LongArray} THEN heap.cell[a + 2]
                  ELSE a + 2

(* Element i becomes v; the caller's type of array is that of the object. *)
ArraySet(a, i, k, v) ==
  /\ a \in Objects /\ TypeOf(heap, a) \in Arrays /\ i < ArraySize(a)
  /\ LET at == ArrayOffset(a) + i IN
     CASE k = "number" /\ TypeOf(heap, a) = IntArray ->
            heap' = SetCells(heap, at, <<v>>) /\ UNCHANGED side
       [] k = "fs" /\ TypeOf(heap, a) = FSArray ->
            heap' = SetCells(heap, at, <<v>>) /\ UNCHANGED side
       [] k = "string" /\ TypeOf(heap, a) = StringArray ->
            /\ chars' = AddString(v)
            /\ refs' = WithRef(refs, chars', chars.top)
            /\ heap' = SetCells(heap, at, <<NextRef(refs)>>)
            /\ UNCHANGED <<longs, bytes>>
       [] k = "boolean" /\ TypeOf(heap, a) = BooleanArray ->
            bytes' = SetCells(bytes, at, <<v>>) /\ UNCHANGED <<heap, refs, chars, longs>>
       [] k = "long" /\ TypeOf(heap, a) = LongArray ->
            longs' = SetCells(longs, at, <<v>>) /\ UNCHANGED <<heap, refs, chars, bytes>>
       [] OTHER -> FALSE
  /\ Wrote(a, i, k, v)
  /\ Quiet /\ HeapsFit

ElementKind(t) == CASE t = IntArray -> "number" [] t = LongArray -> "long"
                    [] t = BooleanArray -> "boolean" [] t = StringArray -> "string"
                    [] t = FSArray -> "fs"

(* n values v from outside go to the elements from offset on; arrays of
   strings and of feature structures refuse. *)
CopyFromArray(a, v, n, offset) ==
  /\ a \in Objects /\ TypeOf(heap, a) \in {IntArray, BooleanArray, LongArray}
  /\ n >= 1 /\ n - 1 < ArraySize(a) /\ offset + n - 1 < ArraySize(a)
  /\ LET values == [i \in 1 .. n |-> v]
         at == ArrayOffset(a) + offset
     IN CASE TypeOf(heap, a) = IntArray ->
               heap' = SetCells(heap, at, values) /\ UNCHANGED <<longs, bytes>>
          [] TypeOf(heap, a) = BooleanArray ->
               bytes' = SetCells(bytes, at, values) /\ UNCHANGED <<heap, longs>>
          [] TypeOf(heap, a) = LongArray ->
               longs' = SetCells(longs, at, values) /\ UNCHANGED <<heap, bytes>>
  /\ stored' = [stored EXCEPT ![a].slots =
                  [i \in DOMAIN @ |-> IF i \in offset .. offset + n - 1
                                      THEN Value(ElementKind(TypeOf(heap, a)), v) ELSE @[i]]]
  /\ UNCHANGED <<refs, chars>>
  /\ Quiet

----------------------------------------------------------------------------
(* Clones.  A string gets a reference of its own; the place of a 64-bit
   value is shared, which is safe because writes take new cells.  Zero
   features to copy stand for all those of the target. *)

CopyFeatures(h, table, target, source, count) ==
  LET t == h.cell[target]
      n == IF count = 0 THEN Len(FeaturesOf[t]) ELSE count
      own == {i \in 1 .. n : IsString(FeaturesOf[t][i]) /\ h.cell[source + i] # 0}
      rank(i) == Cardinality({j \in own : j < i})
      sourceRef(i) == table.cell[RefCell(h.cell[source + i])]
      newRef(i) == NextRef(table) + rank(i)
      place == [r \in {newRef(i) : i \in own} |->
                  sourceRef(CHOOSE i \in own : newRef(i) = r)]
      wide == IncreaseHeap(table, 2 * Cardinality(own))
  IN [heap |-> SetCells(h, target + 1,
                 [i \in 1 .. n |-> IF i \in own THEN newRef(i)
                                   ELSE IF IsString(FeaturesOf[t][i]) THEN h.cell[target + i]
                                   ELSE h.cell[source + i]]),
      refs |-> [wide EXCEPT !.cell = [c \in DOMAIN wide.cell |->
                  IF \E r \in DOMAIN place : c \in {RefCell(r), RefCell(r) + 1}
                  THEN LET r == CHOOSE q \in DOMAIN place : c \in {RefCell(q), RefCell(q) + 1}
                       IN IF c = RefCell(r) THEN place[r] ELSE Length(chars, place[r])
                  ELSE wide.cell[c]]]]

(* The slots a clone has by its documentation: those of the common features
   as in the source, the others untouched. *)
ClonedObject(a, t, common) ==
  [type |-> t,
   slots |-> [f \in {FeaturesOf[t][i] : i \in DOMAIN FeaturesOf[t]} |->
                IF \E i \in DOMAIN FeaturesOf[common] : FeaturesOf[common][i] = f
                THEN stored[a].slots[f] ELSE Unset]]

Clone(a) ==
  /\ a \in Objects
  /\ TypeOf(heap, a) \in Arrays => Careless
  /\ LET t == TypeOf(heap, a)
         copy == CopyFeatures(CreateFS(heap, t), refs, heap.top, a, 0)
     IN /\ heap' = copy.heap
        /\ refs' = copy.refs
        /\ stored' = With(stored, heap.top, [stored[a] EXCEPT !.type = t])
  /\ UNCHANGED <<chars, longs, bytes>>
  /\ Quiet /\ HeapsFit

MostSpecificCommonSupertype(t, u) ==
  CHOOSE s \in Supertypes[t] \cap Supertypes[u] :
    \A r \in Supertypes[t] \cap Supertypes[u] : Subsumes(r, s)

CloneTo(a, t) ==
  LET common == MostSpecificCommonSupertype(TypeOf(heap, a), t)
      n == Len(FeaturesOf[common])
      copy == CopyFeatures(CreateFS(heap, t), refs, heap.top, a, n)
  IN /\ a \in Objects /\ TypeOf(heap, a) \notin Arrays
     /\ t \in Creatable
     /\ n = 0 => Careless
     /\ heap' = copy.heap
     /\ refs' = copy.refs
     /\ stored' = With(stored, heap.top, ClonedObject(a, t, common))
     /\ UNCHANGED <<chars, longs, bytes>>
     /\ Quiet /\ HeapsFit

----------------------------------------------------------------------------
(* Lists of numbers.  A chain of non-empty nodes ends in an empty one, and
   several list objects may stand in one chain.  The calls that walk to the
   end are made on chains that have one. *)

IsNode(h, a) == TypeOf(h, a) = NEIntList
HeadOf(h, a) == h.cell[a + HeadFeature]
TailOf(h, a) == h.cell[a + TailFeature]

(* The chain from a: its nodes in order, as far as the heap has cells. *)
Step(h, a) ==
  LET at[k \in 0 .. h.top] ==
        IF k = 0 THEN a
        ELSE LET b == at[k - 1] IN IF IsNode(h, b) THEN TailOf(h, b) ELSE b
  IN at
Ends(h, a) == ~IsNode(h, Step(h, a)[h.top])
ListLength(h, a) ==
  LET at == Step(h, a)
  IN CHOOSE n \in 0 .. h.top : ~IsNode(h, at[n]) /\ \A m \in 0 .. n - 1 : IsNode(h, at[m])
LastNode(h, a) == Step(h, a)[ListLength(h, a) - 1]
Elements(h, a) == LET at == Step(h, a)
                  IN [i \in 1 .. ListLength(h, a) |-> HeadOf(h, at[i - 1])]

NewNode(h, v, tail) == SetCells(IncreaseHeap(h, 3), h.top, <<NEIntList, v, tail>>)
(* The mutated tail: the node that held the old one is forgotten. *)
SetTailOfNext(h, a, b) ==
  SetCells(h, (IF IsNode(h, TailOf(h, a)) THEN TailOf(h, a) ELSE a) + TailFeature, <<b>>)
SetTailOf(h, a, b) == SetCells(h, a + TailFeature, <<b>>)

Valid(h) == list[h] # 0
OnLists == /\ UNCHANGED <<refs, chars, longs, bytes, resets, stored>>
           /\ heap'.top <= MaxCells
Moved(h, a) == list' = [list EXCEPT ![h] = a]
Did(op, h, arg) == did' = [op |-> op, on |-> h, arg |-> arg]

CreateList(h) ==
  /\ heap' = CreateFS(heap, EIntList)
  /\ Moved(h, heap.top)
  /\ Did("create", h, << >>)
  /\ OnLists

(* A node is made before the empty list it ends in. *)
CreateListWith(h, v) ==
  /\ heap' = SetTailOf(CreateFS(NewNode(heap, v, 0), EIntList), heap.top, heap.top + 3)
  /\ Moved(h, heap.top)
  /\ Did("create", h, <<v>>)
  /\ OnLists

AddFirst(h, v) ==
  /\ Valid(h)
  /\ heap' = NewNode(heap, v, list[h])
  /\ Moved(h, heap.top)
  /\ Did("addFirst", h, v)
  /\ OnLists

(* An empty list becomes a node in front of the empty end; else the node
   goes between the last one and its end. *)
AddLast(h, v) ==
  /\ Valid(h) /\ Ends(heap, list[h])
  /\ IF IsNode(heap, list[h])
     THEN LET last == LastNode(heap, list[h])
          IN heap' = SetTailOf(NewNode(heap, v, TailOf(heap, last)), last, heap.top)
     ELSE heap' = NewNode(heap, v, list[h])
  /\ Moved(h, IF IsNode(heap, list[h]) THEN list[h] ELSE heap.top)
  /\ Did("addLast", h, v)
  /\ OnLists

(* Only a list appended to itself is refused: one that stands further on in
   the same chain makes a circle. *)
Circular(a, b) == a = b /\ IsNode(heap, a)

AppendList(h, g) ==
  /\ Valid(h) /\ Valid(g) /\ ~Circular(list[h], list[g]) /\ Ends(heap, list[h])
  /\ heap' = IF IsNode(heap, list[h])
             THEN SetTailOf(heap, LastNode(heap, list[h]), list[g]) ELSE heap
  /\ Moved(h, IF IsNode(heap, list[h]) THEN list[h] ELSE list[g])
  /\ Did("append", h, g)
  /\ OnLists

PrependList(h, g) ==
  /\ Valid(h) /\ Valid(g) /\ ~Circular(list[h], list[g]) /\ Ends(heap, list[g])
  /\ heap' = IF IsNode(heap, list[g])
             THEN SetTailOf(heap, LastNode(heap, list[g]), list[h]) ELSE heap
  /\ Moved(h, IF IsNode(heap, list[g]) THEN list[g] ELSE list[h])
  /\ Did("prepend", h, g)
  /\ OnLists

MoveListToNext(h) ==
  /\ Valid(h) /\ IsNode(heap, list[h])
  /\ Moved(h, TailOf(heap, list[h]))
  /\ Did("moveToNext", h, 0)
  /\ UNCHANGED heap /\ OnLists

(* The first node with the element is taken out and closed with an empty
   list of its own. *)
RemoveElement(h, v) ==
  /\ Valid(h) /\ IsNode(heap, list[h]) /\ Ends(heap, list[h])
  /\ LET at == Step(heap, list[h])
         found == {k \in 0 .. ListLength(heap, list[h]) - 1 : HeadOf(heap, at[k]) = v}
         first == CHOOSE k \in found : \A j \in found : k <= j
         out == at[first]
         closed == SetTailOf(CreateFS(heap, EIntList), out, heap.top)
     IN IF found = {} THEN UNCHANGED <<heap, list>>
        ELSE IF first = 0
        THEN heap' = closed /\ Moved(h, TailOf(heap, out))
        ELSE /\ heap' = SetTailOf(closed, at[first - 1], TailOf(heap, out))
             /\ UNCHANGED list
  /\ Did("removeElement", h, v)
  /\ OnLists

SetHead(h, v) ==
  /\ Valid(h) /\ IsNode(heap, list[h])
  /\ heap' = SetCells(heap, list[h] + HeadFeature, <<v>>)
  /\ UNCHANGED list
  /\ Did("setHead", h, v)
  /\ OnLists

SetTail(h, g) ==
  /\ Valid(h) /\ Valid(g) /\ IsNode(heap, list[h])
  /\ heap' = SetTailOf(heap, list[h], list[g])
  /\ UNCHANGED list
  /\ Did("setTail", h, g)
  /\ OnLists

(* A list feature nobody wrote is given an empty list when it is read. *)
GetListFSValue(h, a, f) ==
  /\ a \in Objects /\ HasFeature(a, f) /\ Subsumes(IntList, RangeOf[f])
  /\ IF Cell(a, f) = 0
     THEN /\ heap' = SetCells(CreateFS(heap, EIntList),
                              a + FeatureOffset(TypeOf(heap, a), f), <<heap.top>>)
          /\ Moved(h, heap.top)
          /\ Wrote(a, f, "fs", heap.top)
     ELSE /\ Moved(h, Cell(a, f))
          /\ UNCHANGED <<heap, stored>>
  /\ Did("getListFSValue", h, 0)
  /\ UNCHANGED <<refs, chars, longs, bytes, resets>>
  /\ heap'.top <= MaxCells

SetList(a, f, h) ==
  /\ Valid(h) /\ a \in Objects /\ Takes(a, f, TypeOf(heap, list[h]))
  /\ heap' = SetCells(heap, a + FeatureOffset(TypeOf(heap, a), f), <<list[h]>>)
  /\ Wrote(a, f, "fs", list[h])
  /\ UNCHANGED side
  /\ Quiet

----------------------------------------------------------------------------
(* CAS::iterator(): from cell to cell, by the size of what is there.  An
   array is taken to lie in the main heap as a whole. *)

HeapStep(a) ==
  a + IF TypeOf(heap, a) \in Arrays THEN 2 + heap.cell[a + 1]
      ELSE 1 + Len(FeaturesOf[TypeOf(heap, a)])
AtFS(a) == a < heap.top /\ TypeOf(heap, a) \in Types

(* Where it stands after k moves; it stays where nothing is. *)
MovedToNext ==
  LET at[k \in 0 .. heap.top] ==
        IF k = 0 THEN 1 ELSE IF AtFS(at[k - 1]) THEN HeapStep(at[k - 1]) ELSE at[k - 1]
  IN at
HeapIterator ==
  LET at == MovedToNext IN {at[k] : k \in {j \in 0 .. heap.top : AtFS(at[j])}}

----------------------------------------------------------------------------

(* The application lets go of what it held when the CAS is reset. *)
Reset ==
  /\ resets < MaxResets
  /\ resets' = resets + 1
  /\ heap' = ResetHeap(heap)
  /\ refs' = ResetHeap(refs)
  /\ chars' = ResetHeap(chars)
  /\ longs' = ResetHeap(longs)
  /\ bytes' = ResetHeap(bytes)
  /\ list' = [h \in Handles |-> 0]
  /\ stored' = << >>
  /\ did' = [op |-> "none"]

Init ==
  /\ heap = NewHeap(4) /\ refs = NewHeap(2) /\ chars = NewHeap(2)
  /\ longs = NewHeap(1) /\ bytes = NewHeap(1)
  /\ list = [h \in Handles |-> 0]
  /\ resets = 0
  /\ stored = << >>
  /\ did = [op |-> "none"]

OnFeatures ==
  \/ \E t \in Types : Create(t)
  \/ \E a \in Objects, f \in Features :
       \/ \E v \in Numbers : SetNumber(a, f, v) \/ SetLong(a, f, v)
       \/ \E b \in {0, 1} : SetBoolean(a, f, b)
       \/ \E s \in Strings : SetString(a, f, s)
       \/ \E b \in Objects : SetFS(a, f, b)
  \/ \E a \in Objects : Clone(a) \/ \E t \in Types : CloneTo(a, t)

OnArrays ==
  \/ \E t \in Arrays, n \in Sizes : CreateArray(t, n)
  \/ \E a \in Objects, i \in 0 .. MaxCells :
       \/ \E v \in Numbers, k \in {"number", "boolean", "long"} : ArraySet(a, i, k, v)
       \/ \E s \in Strings : ArraySet(a, i, "string", s)
       \/ \E b \in Objects : ArraySet(a, i, "fs", b)
       \/ \E v \in Numbers, n \in Sizes : CopyFromArray(a, v, n, i)

OnChains ==
  \E h \in Handles :
    \/ CreateList(h) \/ MoveListToNext(h)
    \/ \E v \in HeadValues : \/ CreateListWith(h, v) \/ AddFirst(h, v) \/ AddLast(h, v)
                             \/ RemoveElement(h, v) \/ SetHead(h, v)
    \/ \E g \in Handles : AppendList(h, g) \/ PrependList(h, g) \/ SetTail(h, g)
    \/ \E a \in Objects, f \in Features : GetListFSValue(h, a, f) \/ SetList(a, f, h)

Next == OnFeatures \/ OnArrays \/ OnChains \/ Reset

Spec == Init /\ [][Next]_vars

----------------------------------------------------------------------------
(* Properties *)

(* What a typed getter makes of a cell of the main heap. *)
ReadAs(sort, cell) ==
  CASE sort \in {"number", "fs"} -> cell
    [] sort = "boolean" -> IF cell = 1 THEN 1 ELSE 0
    [] sort = "long" -> LongAt(cell)
    [] sort = "string" -> StringAt(cell)

Element(a, i) ==
  CASE TypeOf(heap, a) = LongArray -> longs.cell[ArrayOffset(a) + i]
    [] TypeOf(heap, a) = BooleanArray -> bytes.cell[ArrayOffset(a) + i]
    [] TypeOf(heap, a) = StringArray -> StringAt(heap.cell[ArrayOffset(a) + i])
    [] OTHER -> heap.cell[ArrayOffset(a) + i]

NumberOf(v) == IF v = 1 THEN 1 ELSE 0

FeatureReads(a, f, w) ==
  IF w.kind = "unset" THEN Cell(a, f) = 0
  ELSE ReadAs(w.kind, Cell(a, f)) = IF w.kind = "boolean" THEN NumberOf(w.v) ELSE w.v
ElementReads(a, i, w) ==
  IF w.kind # "unset" THEN Element(a, i) = w.v
  ELSE IF TypeOf(heap, a) = StringArray THEN Element(a, i) = << >> ELSE Element(a, i) = 0

(* Whatever is created, grown, cloned, pointed at another string or reset
   since, every feature and every element reads as it was last written, and
   as nothing when it never was: heaps, side heaps, references and clones do
   not run into each other (lowlevel_fsheap.hpp, featurestructure.cpp,
   arrayfs.cpp).  createFS clears no cell, so this rests on reset() doing it. *)
ValuesReadBack ==
  \A a \in Objects :
    LET o == stored[a] IN
    /\ TypeOf(heap, a) = o.type
    /\ IF o.type \in Arrays
       THEN /\ DOMAIN o.slots = 0 .. ArraySize(a) - 1
            /\ \A i \in DOMAIN o.slots : ElementReads(a, i, o.slots[i])
       ELSE \A f \in DOMAIN o.slots : FeatureReads(a, f, o.slots[f])

(* The iterator over all that is in the CAS comes by every feature structure
   and nothing else (cas.hpp, CAS::iterator()), however the heap grew: as long
   as arrays whose elements are in another heap have just one of them. *)
IteratorSeesAll ==
  (\A a \in Objects : TypeOf(heap, a) \in {BooleanArray, LongArray} => ArraySize(a) = 1) =>
    /\ Objects \subseteq HeapIterator
    /\ (\A h \in Handles : list[h] = 0) => HeapIterator = Objects

\* Every value is the one last written, whatever grew or was reset meanwhile, and an iterator over
\* the heap finds every feature structure in it (lowlevel_fsheap.cpp).
HeapIsRead == ValuesReadBack /\ IteratorSeesAll

----------------------------------------------------------------------------
(* Lists as sequences. *)

Chain(h, a) == LET at == Step(h, a) IN [i \in 1 .. ListLength(h, a) |-> at[i - 1]]
LastOf(s) == IF s = << >> THEN 0 ELSE s[Len(s)]
Index(s, x) == IF \E i \in DOMAIN s : s[i] = x THEN CHOOSE i \in DOMAIN s : s[i] = x ELSE 0
WithoutAt(s, i) == SubSeq(s, 1, i - 1) \o SubSeq(s, i + 1, Len(s))
FirstIn(s, v) == CHOOSE i \in DOMAIN s : s[i] = v /\ \A j \in 1 .. i - 1 : s[j] # v

(* What the list object g holds after the call did, with the chains and the
   contents of all list objects before it: the object the call is made on
   changes as a sequence would, and so does every other that shares the
   nodes changed.  An element taken out closes the lists that come to it
   another way. *)
Expected(g, chain, held) ==
  LET h == did'.on
      arg == did'.arg
      own == g = h
      sharesEnd(x) == LastOf(chain[x]) # 0 /\ LastOf(chain[g]) = LastOf(chain[x])
      here == Index(chain[g], list[h])     \* where the node of h is in g
  IN CASE did'.op = "create" -> IF own THEN arg ELSE held[g]
       [] did'.op = "addFirst" -> IF own THEN <<arg>> \o held[g] ELSE held[g]
       [] did'.op = "addLast" -> IF own \/ sharesEnd(h) THEN Append(held[g], arg) ELSE held[g]
       [] did'.op = "append" -> IF own \/ sharesEnd(h) THEN held[g] \o held[arg] ELSE held[g]
       [] did'.op = "prepend" -> IF own THEN held[arg] \o held[g]
                                 ELSE IF sharesEnd(arg) THEN held[g] \o held[h] ELSE held[g]
       [] did'.op = "moveToNext" -> IF own THEN Tail(held[g]) ELSE held[g]
       [] did'.op = "removeElement" ->
            IF Index(held[h], arg) = 0 THEN held[g]
            ELSE LET first == FirstIn(held[h], arg)
                     out == Index(chain[g], chain[h][first])
                     pointsAt == IF first = 1 THEN 0 ELSE chain[h][first - 1]
                 IN IF out = 0 THEN held[g]
                    ELSE IF own \/ (out > 1 /\ chain[g][out - 1] = pointsAt)
                    THEN WithoutAt(held[g], out)
                    ELSE SubSeq(held[g], 1, out)
       [] did'.op = "setHead" -> IF here = 0 THEN held[g] ELSE [held[g] EXCEPT ![here] = arg]
       [] did'.op = "setTail" ->
            IF here = 0 THEN held[g] ELSE SubSeq(held[g], 1, here) \o held[arg]

(* Lists are sequences: as long as no chain runs in a circle, a call changes
   the list it is made on as the operation on sequences of its name does, the
   lists that share the nodes it changes accordingly, and no other, however
   the lists were appended to, taken apart and shared before (listfs.cpp). *)
ListsAreSequences ==
  [][\/ did'.op \in {"none", "getListFSValue"}
     \/ LET valid == {h \in Handles : list[h] # 0}
            chain == [h \in valid |-> Chain(heap, list[h])]
            held == [h \in valid |-> Elements(heap, list[h])]
            before == IF did'.op = "create"
                      THEN [h \in valid \cup {did'.on} |-> IF h \in valid THEN held[h] ELSE << >>]
                      ELSE held
            chains == IF did'.op = "create"
                      THEN [h \in valid \cup {did'.on} |-> IF h \in valid THEN chain[h] ELSE << >>]
                      ELSE chain
        IN (\A h \in valid : Ends(heap, list[h])) =>
           \A g \in valid \cup {did'.on} :
             Ends(heap', list'[g]) => Elements(heap', list'[g]) = Expected(g, chains, before)]_vars
============================================================================
