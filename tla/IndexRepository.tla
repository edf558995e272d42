--------------------------- MODULE IndexRepository ---------------------------
(***************************************************************************)
(* One lowlevel::IndexRepository: the indexes of one view of a CAS.        *)
(*                                                                         *)
(* An index id has one single index for each type below the type it is     *)
(* defined on, and one composite index for each of these types that has    *)
(* subtypes.  A single index holds the feature structures of exactly one   *)
(* type; a composite index holds a cache of what its single indexes held   *)
(* when the cache was filled.  iv_cacheDirtyFlags[t] lists, in spite of    *)
(* its name, the composite indexes that need no update on account of t.    *)
(*                                                                         *)
(* Covered: adding and removing through the public interface, iterators    *)
(* and the caches they fill, reset, what a serializer is given.  Not       *)
(* covered: key features that change while the structure is indexed (Key   *)
(* is constant), add and remove for one index id, which have no caller in  *)
(* the program.  The order of a cache, moveTo and filters are those of     *)
(* IndexIterators.                                                         *)
(***************************************************************************)
EXTENDS Integers, Sequences, FiniteSets, SequencesExt

CONSTANTS
    Types,        \* type codes
    Subsumed,     \* Subsumed[t]: getSubsumedTypes(t), t and its subtypes
    Indexes,      \* index ids
    IndexType,    \* the type an index is defined on
    Kind,         \* "ordered", "set" or "bag"
    FS,           \* feature structures: heap addresses
    TypeOf,       \* the type of a feature structure
    Key,          \* its rank under the comparators of the indexes
    MaxLen        \* bound: entries in one single index

ASSUME IndexAssumption ==
    /\ Subsumed \in [Types -> SUBSET Types]
    /\ \A t \in Types : t \in Subsumed[t]
    /\ \A t \in Types : \A u \in Subsumed[t] : Subsumed[u] \subseteq Subsumed[t]
    /\ IndexType \in [Indexes -> Types]
    /\ Kind \in [Indexes -> {"ordered", "set", "bag"}]
    /\ TypeOf \in [FS -> Types]
    /\ Key \in [FS -> Int]
    /\ MaxLen \in Nat

VARIABLES
    single,     \* contents of the single indexes: iv_tyStructures, iv_tyFIFO
    cache,      \* contents of iv_cache of the composite indexes
    upToDate,   \* iv_cacheDirtyFlags
    used,       \* iv_usedIndexes, and the types t with iv_isUsed[t]
    undefined,  \* iv_undefinedindex
    reader,     \* the index that one iterator of the program reads, or NoIndex
    dangling,   \* the container under that iterator has changed
    touched,    \* history: so has what its index holds, since it was created
    added       \* history: feature structures added since the last reset

readerVars == <<reader, dangling, touched>>
vars == <<single, cache, upToDate, used, undefined, readerVars, added>>

NoIndex == <<>>

\* <<id, type>> names the single index of that type and, when the type has subtypes,
\* the composite index that getLowlevelIndex() returns in its place.
Singles == {h \in Indexes \X Types : h[2] \in Subsumed[IndexType[h[1]]]}
Maximal(t) == Subsumed[t] = {t}
Composites == {h \in Singles : ~Maximal(h[2])}

SinglesOf(t) == {h \in Singles : h[2] = t}
Above(t) == {h \in Singles : t \in Subsumed[h[2]]}
Components(c) == UNION {ToSet(single[<<c[1], t>>]) : t \in Subsumed[c[2]]}

Init ==
    /\ single = [h \in Singles |-> <<>>]
    /\ cache = [c \in Composites |-> {}]
    /\ upToDate = [t \in Types |-> {}]
    /\ used = {} /\ undefined = {}
    /\ reader = NoIndex /\ dangling = FALSE /\ touched = FALSE
    /\ added = {}

-----------------------------------------------------------------------------
(* Single indexes.                                                         *)

\* std::lower_bound: the first position whose entry is not less than fs.
LowerBound(s, fs) ==
    CHOOSE i \in 1 .. Len(s) + 1 :
        /\ \A j \in 1 .. i - 1 : Key[s[j]] < Key[fs]
        /\ i <= Len(s) => Key[s[i]] >= Key[fs]

\* Seeded fault: the test whether fs belongs at the end is reversed.
OrderedAddReversed(s, fs) ==
    IF s # <<>> /\ Key[fs] > Key[s[Len(s)]] THEN InsertAt(s, LowerBound(s, fs), fs)
                                            ELSE Append(s, fs)

OrderedAdd(s, fs) ==
    IF s # <<>> /\ Key[fs] < Key[s[Len(s)]] THEN InsertAt(s, LowerBound(s, fs), fs)
                                            ELSE Append(s, fs)

\* What is removed is the entry at the lower bound, be it fs or not.
OrderedRemove(s, fs) ==
    IF LowerBound(s, fs) <= Len(s) THEN RemoveAt(s, LowerBound(s, fs)) ELSE s

\* std::set under the comparator: at most one entry of each rank.
HasKey(s, fs) == \E i \in 1 .. Len(s) : Key[s[i]] = Key[fs]

SetAdd(s, fs) == IF HasKey(s, fs) THEN s ELSE InsertAt(s, LowerBound(s, fs), fs)

SetRemove(s, fs) == IF HasKey(s, fs) THEN RemoveAt(s, LowerBound(s, fs)) ELSE s

BagRemove(s, fs) == RemoveFirst(s, fs)

IndexAdd(id, s, fs) ==
    CASE Kind[id] = "ordered" -> OrderedAdd(s, fs)
      [] Kind[id] = "set"     -> SetAdd(s, fs)
      [] Kind[id] = "bag"     -> Append(s, fs)

IndexRemove(id, s, fs) ==
    CASE Kind[id] = "ordered" -> OrderedRemove(s, fs)
      [] Kind[id] = "set"     -> SetRemove(s, fs)
      [] Kind[id] = "bag"     -> BagRemove(s, fs)

-----------------------------------------------------------------------------
(* The repository.                                                         *)

\* isDirtyForIndex()
IsDirty(c) == \E t \in Subsumed[c[2]] : c \notin upToDate[t]

\* A change of the entries of the given types.  An iterator of an index of a maximal
\* type reads the single index itself: it must not be used once that has changed.
Disturb(types) ==
    /\ touched' = (touched \/ reader \in UNION {Above(t) : t \in types})
    /\ dangling' = (dangling \/ reader \in {h \in Singles : Maximal(h[2]) /\ single'[h] # single[h]})
    /\ UNCHANGED reader

\* Seeded fault: the composite indexes are not told of a new feature structure.
AddKeepsCaches(fs) ==
    /\ \A h \in SinglesOf(TypeOf[fs]) : Len(single[h]) < MaxLen
    /\ IF SinglesOf(TypeOf[fs]) = {}
         THEN undefined' = undefined \cup {fs} /\ UNCHANGED used
         ELSE used' = used \cup {TypeOf[fs]} /\ UNCHANGED undefined
    /\ single' = [h \in Singles |->
           IF h[2] = TypeOf[fs] THEN IndexAdd(h[1], single[h], fs) ELSE single[h]]
    /\ Disturb({TypeOf[fs]})
    /\ added' = added \cup {fs}
    /\ UNCHANGED <<upToDate, cache>>

\* add(): a feature structure of a type that no index covers is kept aside.
AddFS(fs) ==
    /\ \A h \in SinglesOf(TypeOf[fs]) : Len(single[h]) < MaxLen
    /\ upToDate' = [upToDate EXCEPT ![TypeOf[fs]] = {}]
    /\ IF SinglesOf(TypeOf[fs]) = {}
         THEN undefined' = undefined \cup {fs} /\ UNCHANGED used
         ELSE used' = used \cup {TypeOf[fs]} /\ UNCHANGED undefined
    /\ single' = [h \in Singles |->
           IF h[2] = TypeOf[fs] THEN IndexAdd(h[1], single[h], fs) ELSE single[h]]
    /\ Disturb({TypeOf[fs]})
    /\ added' = added \cup {fs}
    /\ UNCHANGED cache

\* remove(): neither the caches nor iv_undefinedindex hear of it.
RemoveFS(fs) ==
    /\ single' = [h \in Singles |->
           IF h[2] = TypeOf[fs] THEN IndexRemove(h[1], single[h], fs) ELSE single[h]]
    /\ Disturb({TypeOf[fs]})
    /\ UNCHANGED <<cache, upToDate, used, undefined, added>>

\* clearDirtyFlagForIndex(): the cache of c is up to date for every type it covers.
ClearDirtyFlag(c) ==
    [t \in Types |-> IF t \in Subsumed[c[2]] THEN upToDate[t] \cup {c} ELSE upToDate[t]]

\* createIterator(), createTypeSetIterator().  A composite index that is dirty refills
\* the cache that its other iterators are reading.
CreateIterator(h) ==
    /\ IF h \in Composites /\ IsDirty(h)
         THEN /\ cache' = [cache EXCEPT ![h] = Components(h)]
              /\ upToDate' = ClearDirtyFlag(h)
              /\ dangling' = (dangling \/ reader = h)
         ELSE UNCHANGED <<cache, upToDate, dangling>>
    /\ \/ UNCHANGED <<reader, touched>>
       \/ reader = NoIndex /\ reader' = h /\ touched' = FALSE
    /\ UNCHANGED <<single, used, undefined, added>>

\* The followed iterator is deleted; another one may be followed.
DeleteIterator ==
    /\ reader # NoIndex
    /\ reader' = NoIndex /\ dangling' = FALSE /\ touched' = FALSE
    /\ UNCHANGED <<single, cache, upToDate, used, undefined, added>>

\* Seeded fault: the flags of the used types are kept.
ResetKeepsFlags ==
    /\ single' = [h \in Singles |-> IF h[2] \in used THEN <<>> ELSE single[h]]
    /\ used' = {} /\ undefined' = {}
    /\ Disturb(Types)
    /\ added' = {}
    /\ UNCHANGED <<upToDate, cache>>

\* reset(): clears what belongs to the used types, and no cache.
Reset ==
    /\ single' = [h \in Singles |-> IF h[2] \in used THEN <<>> ELSE single[h]]
    /\ upToDate' = [t \in Types |-> IF t \in used THEN {} ELSE upToDate[t]]
    /\ used' = {} /\ undefined' = {}
    /\ Disturb(Types)
    /\ added' = {}
    /\ UNCHANGED cache

Next ==
    \/ \E fs \in FS : AddFS(fs) \/ RemoveFS(fs)
    \/ \E h \in Singles : CreateIterator(h)
    \/ DeleteIterator \/ Reset

Spec == Init /\ [][Next]_vars

\* getIndexedFSs(): what the serializers write as the indexed feature structures.
GetIndexedFSs == undefined \cup UNION {ToSet(single[h]) : h \in {k \in Singles : k[2] \in used}}

-----------------------------------------------------------------------------
(* Properties.                                                             *)

TypeOK ==
    /\ single \in [Singles -> Seq(FS)]
    /\ cache \in [Composites -> SUBSET FS]
    /\ upToDate \in [Types -> SUBSET Composites]
    /\ used \subseteq Types
    /\ undefined \subseteq FS
    /\ reader \in Singles \cup {NoIndex}
    /\ dangling \in BOOLEAN /\ touched \in BOOLEAN
    /\ added \subseteq FS

\* The order that every lower_bound relies on: a single index with a comparator is
\* sorted, strictly if it is a set.
OrderKept ==
    \A h \in Singles : \A i, j \in 1 .. Len(single[h]) : i < j =>
        /\ Kind[h[1]] = "ordered" => Key[single[h][i]] <= Key[single[h][j]]
        /\ Kind[h[1]] = "set" => Key[single[h][i]] < Key[single[h][j]]

\* An iterator of a composite index misses no indexed feature structure of the types
\* below it: a cache that is not refilled still covers its components.
NoneMissed == \A c \in Composites : ~IsDirty(c) => Components(c) \subseteq cache[c]

\* A CAS that is used again shows nothing of the document before: after reset() neither
\* an index nor a cache that counts as up to date holds what was added before.
NothingOutlivesReset ==
    /\ \A h \in Singles : ToSet(single[h]) \subseteq added
    /\ undefined \subseteq added
    /\ \A c \in Composites : ~IsDirty(c) => cache[c] \subseteq added

\* Every feature structure in some index is handed to the serializers, which visit the
\* used types only.
SerializersSeeAll == \A h \in Singles : ToSet(single[h]) \subseteq GetIndexedFSs

\* Iterators may be nested: an iterator becomes dangling only after a feature structure
\* of a type below its index was added or removed, never because other iterators were
\* created.
IteratorsStay == dangling => touched

\* Whoever reads the indexes gets what is in them: iterators of a composite index, iterators
\* that are nested in others, and the serializers.
ReadersSeeAll == NoneMissed /\ IteratorsStay /\ SerializersSeeAll

\* "remove the feature structure crFS from all indexes appropriate for its type": the
\* indexes of a type that keep every feature structure agree on what they hold.
RemovedFromAll ==
    \A fs \in FS : \A g, h \in SinglesOf(TypeOf[fs]) :
        Kind[g[1]] # "set" /\ Kind[h[1]] # "set" =>
            (fs \in ToSet(single[g]) <=> fs \in ToSet(single[h]))

\* A cache that need not be refilled shows what the index holds.
CacheCurrent == \A c \in Composites : ~IsDirty(c) => cache[c] = Components(c)

-----------------------------------------------------------------------------
(* The inductive invariants behind the safety properties, proved in        *)
(* IndexRepository_proofs.                                                 *)

\* What reset() and getIndexedFSs() pass over is empty.
UsedInv == \A h \in Singles : h[2] \notin used => single[h] = <<>>

\* Up to date is a matter of each type by itself.
CoverInv ==
    \A c \in Composites : \A t \in Subsumed[c[2]] :
        c \in upToDate[t] => ToSet(single[<<c[1], t>>]) \subseteq cache[c]

\* A cache that is not empty was filled from a type that is still recorded as used.
FreshInv ==
    \A c \in Composites :
        ~IsDirty(c) /\ cache[c] # {} => Subsumed[c[2]] \cap used # {}

\* An iterator of an index nobody has touched reads a cache that is up to date.
OpenInv ==
    /\ reader = NoIndex => ~dangling
    /\ reader \in Composites /\ ~touched => ~IsDirty(reader)
=============================================================================
