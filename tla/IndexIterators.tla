--------------------------- MODULE IndexIterators ---------------------------
(***************************************************************************)
(* The indexes of a CAS from the side of those who read them:              *)
(* lowlevel_internal_indexes.cpp and .hpp, lowlevel_index.cpp, fsindex.cpp, *)
(* fsiterator.cpp, fsfilterbuilder.cpp.  A single index holds the feature  *)
(* structures of one type; a composite index has one single index for each *)
(* type below its own and gathers them in a cache, that of an ordered      *)
(* index by merging.  An iterator is a place in such a container; one      *)
(* restricted to types or by a filter skips what it must not show.         *)
(* IndexRepository is about what the indexes hold and when a cache is      *)
(* filled; here they hold what they hold, and their iterators move.        *)
(***************************************************************************)
EXTENDS Integers, Sequences, FiniteSets, SequencesExt, TLC

CONSTANTS
    FS,           \* feature structures: heap addresses
    Indexes,      \* indexes: the sequences of the types of their components
    Subsumed,     \* [type -> its subtypes, itself among them]
    FSType,       \* the type of a feature structure
    Key,          \* its rank under the comparator: the least comes first
    Number, Link, \* its features: a number, and a feature structure or 0
    HasLink,      \* the types that have the feature Link
    TypeSets,     \* the sets of types that iterators are restricted to
    Filters       \* the filters there are: what isFiltered() says of each feature structure

ASSUME IteratorAssumption ==
    /\ FS \subseteq Nat \ {0} /\ IsFiniteSet(FS)
    /\ FSType \in [FS -> DOMAIN Subsumed]
    /\ Key \in [FS -> Int] /\ Number \in [FS -> Int] /\ Link \in [FS -> FS \cup {0}]
    /\ Filters \subseteq [FS -> {"yes", "no", "throws"}]
    /\ \A ts \in Indexes : /\ ts \in Seq(DOMAIN Subsumed) /\ ts # << >>
                           /\ IsInjective(ts)        \* addComponent() once for each type

VARIABLES
    kind,     \* "ordered", "set" or "bag"
    types,    \* the types of the components of the index
    single,   \* what the single index of each of them holds, in its order
    seq,      \* the container under the iterator
    filtered, \* the iterator has a filter
    shown,    \* what it is to show: [fs -> "yes", "no" or "throws"]
    pos       \* its place: 0 before it is made, Len(seq) + 1 for end()

iteratorVars == <<kind, types, single, seq, filtered, shown, pos>>

Held == UNION {ToSet(single[t]) : t \in ToSet(types)}

----------------------------------------------------------------------------
(* Comparing *)

Compare(a, b) == IF Key[a] < Key[b] THEN 1 ELSE IF Key[a] > Key[b] THEN -1 ELSE 0
CompareWithoutEquality(a, b) ==
    IF Compare(a, b) # 0 THEN Compare(a, b) ELSE IF a < b THEN 1 ELSE IF a > b THEN -1 ELSE 0

\* A single index in the order of its kind; each structure is indexed once.
Contents(t, k) ==
    {s \in UNION {[1 .. n -> {f \in FS : FSType[f] = t}] : n \in 0 .. Cardinality(FS)} :
        \A i, j \in DOMAIN s : i < j =>
            /\ s[i] # s[j]
            /\ k = "ordered" => Compare(s[i], s[j]) >= 0
            /\ k = "set" => Compare(s[i], s[j]) > 0}

IteratorInit ==
    /\ kind \in {"ordered", "set", "bag"}
    /\ types \in Indexes
    /\ single \in {c \in [ToSet(types) -> UNION {Contents(t, kind) : t \in ToSet(types)}] :
                      \A t \in ToSet(types) : c[t] \in Contents(t, kind)}
    /\ seq = << >> /\ filtered = FALSE /\ shown = [fs \in FS |-> "yes"] /\ pos = 0

\* Iterators by what they are at; one at its end comes last.
IteratorBefore(p, q) ==
    /\ p # << >>
    /\ q # << >> => CompareWithoutEquality(Head(p), Head(q)) > 0

----------------------------------------------------------------------------
(* Caches of composite indexes *)

\* bubbleSortIterators(): none comes before one that stands in front of it.
Orders(its) ==
    {p \in Bijection(DOMAIN its, DOMAIN its) :
        \A i, j \in DOMAIN its : i < j => ~IteratorBefore(its[p[j]], its[p[i]])}
InOrder(its) ==
    LET order == CHOOSE p \in Orders(its) : TRUE
    IN [i \in DOMAIN its |-> its[order[i]]]

\* A mutant: the iterators are not put in order again.
InOrderOnce(its) == its
\* bubbleSortIterators() while the caches are merged.
InOrderAgain(its) == InOrder(its)

\* How many of the first iterator come before all of the second.
Run(its) ==
    LET better(n) == \A i \in 1 .. n : CompareWithoutEquality(its[1][i], Head(its[2])) > 0
    IN CHOOSE n \in 0 .. Len(its[1]) : better(n) /\ (n < Len(its[1]) => ~better(n + 1))

SingleIndexes == [i \in DOMAIN types |-> single[types[i]]]

GetSize ==
    LET size[n \in 0 .. Len(types)] == IF n = 0 THEN 0 ELSE size[n - 1] + Len(SingleIndexes[n])
    IN size[Len(types)]

\* The next n of the first iterator go into the cache.
Take(m, n) ==
    [its |-> [m.its EXCEPT ![1] = SubSeq(@, n + 1, Len(@))],
     cache |-> m.cache \o SubSeq(m.its[1], 1, n)]

\* OrderedCompositeIndex: each turn takes what it can from the first of the iterators.
Turn(m) ==
    IF Len(m.its) = 1 \/ m.its[2] = << >> THEN Take(m, Len(m.its[1]))
    ELSE LET taken == Take(m, Run(m.its)) IN [taken EXCEPT !.its = InOrderAgain(@)]

\* An iterator over nothing is last, like one at its end.
Merge ==
    LET after[n \in 0 .. GetSize] ==
            IF n = 0 THEN [its |-> InOrder(SingleIndexes), cache |-> << >>]
            ELSE IF Len(after[n - 1].cache) = GetSize THEN after[n - 1] ELSE Turn(after[n - 1])
    IN after[GetSize].cache

\* A set of addresses
Ascending(S) ==
    CHOOSE s \in [1 .. Cardinality(S) -> S] : \A i, j \in DOMAIN s : i < j => s[i] < s[j]

ClearAndFillCache ==
    CASE kind = "ordered" -> Merge
      [] kind = "set" -> Ascending(Held)
      [] kind = "bag" -> FlattenSeq(SingleIndexes)

\* A single index is read where it stands; the index of one type has no cache.
Container == IF Len(types) = 1 THEN single[types[1]] ELSE ClearAndFillCache

\* find(): a set and an ordered index by their comparator, a bag by the address.
FindIn(s, fs) ==
    LET hit(x) == IF kind = "bag" THEN x = fs ELSE Compare(fs, x) = 0
        at == {i \in DOMAIN s : hit(s[i])}
    IN IF at = {} THEN 0 ELSE s[CHOOSE i \in at : \A j \in at : i <= j]

Find(fs) ==
    LET found == {i \in DOMAIN SingleIndexes : FindIn(SingleIndexes[i], fs) # 0}
    IN IF found = {} THEN 0
       ELSE FindIn(SingleIndexes[CHOOSE i \in found : \A j \in found : i <= j], fs)

----------------------------------------------------------------------------
(* Filters: what isFiltered() says of each feature structure, "yes" to hide it *)

ShownIf(b) == IF b THEN "yes" ELSE "no"

TypeFilter(t, bUseSubsumption) ==
    [fs \in FS |-> ShownIf(IF bUseSubsumption THEN FSType[fs] \in Subsumed[t] ELSE FSType[fs] = t)]

\* createTypeSetIterator(): the index of one type has no other.
TypeSet(t) == [fs \in FS |-> ShownIf(Len(types) = 1 \/ FSType[fs] \in t)]

\* getPath(): following nothing, or a feature the type does not have, throws.
GetPath(fs, n) ==
    LET step[i \in 0 .. n] == IF i = 0 THEN fs
                              ELSE IF step[i - 1] \in FS /\ FSType[step[i - 1]] \in HasLink
                              THEN Link[step[i - 1]] ELSE -1
    IN step[n]

IntFeatureFilter(n, enOp, val) ==
    [fs \in FS |-> IF GetPath(fs, n) \notin FS THEN "throws"
                   ELSE LET v == Number[GetPath(fs, n)] IN
                        ShownIf(CASE enOp = "EQUALS" -> v = val
                                [] enOp = "GREATER" -> v > val
                                [] enOp = "LESS" -> v < val)]

Negated(v) == CASE v = "yes" -> "no" [] v = "no" -> "yes" [] OTHER -> v
NOTFilter(f) == [fs \in FS |-> Negated(f[fs])]
ANDFilter(f, g) == [fs \in FS |-> IF f[fs] = "yes" THEN g[fs] ELSE f[fs]]
ORFilter(f, g) == [fs \in FS |-> IF f[fs] = "no" THEN g[fs] ELSE f[fs]]
MatchFilter(n, f) == [fs \in FS |-> IF GetPath(fs, n) \in FS THEN f[GetPath(fs, n)] ELSE "throws"]

----------------------------------------------------------------------------
(* Iterators: STLSingleIndexIterator, and over it TypeSetIterator and
   FilterIndexIterator, which skip.  A filter that throws leaves them there. *)

End == Len(seq) + 1
IsValid == pos \in 1 .. Len(seq)

Shows(fs) == shown[fs] = "yes"
Stops(fs) == shown[fs] # "no"

\* A mutant: the last of the container is never looked at.
SkipForwardShort(p) ==
    IF \E q \in p .. Len(seq) - 1 : Stops(seq[q])
    THEN CHOOSE q \in p .. Len(seq) : Stops(seq[q]) /\ \A r \in p .. q - 1 : ~Stops(seq[r])
    ELSE End
SkipForward(p) ==
    IF \E q \in p .. Len(seq) : Stops(seq[q])
    THEN CHOOSE q \in p .. Len(seq) : Stops(seq[q]) /\ \A r \in p .. q - 1 : ~Stops(seq[r])
    ELSE End
SkipBackward(p) ==
    IF p # End /\ \E q \in 1 .. p : Stops(seq[q])
    THEN CHOOSE q \in 1 .. p : Stops(seq[q]) /\ \A r \in q + 1 .. p : ~Stops(seq[r])
    ELSE End

AtFirst == SkipForward(1)
AtLast == SkipBackward(IF seq = << >> THEN End ELSE Len(seq))
AtNext(p) == SkipForward(p + 1)
AtPrevious(p) == SkipBackward(IF p = 1 THEN End ELSE p - 1)

\* STLSingleIndexIterator::moveTo(): behind fs in a bag, else at fs or where it would stand.
LowerBound(fs) ==
    LET search[n \in 0 .. Len(seq)] ==
            IF n = 0 THEN [first |-> 1, len |-> Len(seq)]
            ELSE LET s == search[n - 1]
                     half == s.len \div 2
                 IN  IF s.len = 0 THEN s
                     ELSE IF Compare(seq[s.first + half], fs) > 0
                     THEN [first |-> s.first + half + 1, len |-> s.len - half - 1]
                     ELSE [s EXCEPT !.len = half]
    IN search[Len(seq)].first
PlaceOf(fs) ==
    IF fs \in ToSet(seq)
    THEN (CHOOSE i \in DOMAIN seq : seq[i] = fs /\ \A j \in 1 .. i - 1 : seq[j] # fs)
         + IF kind = "bag" THEN 1 ELSE 0
    ELSE IF kind = "bag" THEN End ELSE LowerBound(fs)

Constant == UNCHANGED <<kind, types, single>>

\* FSIndex::iterator(), typeSetIterator(), filteredIterator(): at its first.
CreateIterator(f, byFilter) ==
    /\ pos = 0
    /\ seq' = Container
    /\ shown' = f /\ filtered' = byFilter
    /\ LET at == {i \in DOMAIN seq' : f[seq'[i]] # "no"} IN
       pos' = IF at = {} THEN Len(seq') + 1 ELSE CHOOSE i \in at : \A j \in at : i <= j
    /\ Constant

TypeSetIterator(t) == CreateIterator(TypeSet(t), FALSE)
FilteredIterator(f) == CreateIterator([fs \in FS |-> Negated(f[fs])], TRUE)

Moves(p) == /\ pos' = p /\ Constant /\ UNCHANGED <<seq, filtered, shown>>

MoveToFirst == pos # 0 /\ Moves(AtFirst)
MoveToLast == pos # 0 /\ Moves(AtLast)
MoveToNext == IsValid /\ Moves(AtNext(pos))
MoveToPrevious == IsValid /\ Moves(AtPrevious(pos))

\* A filter is not asked of the place; where nothing is found, nothing moves.
MoveTo(fs) ==
    /\ pos # 0
    /\ Moves(IF PlaceOf(fs) = End THEN pos
             ELSE IF filtered THEN PlaceOf(fs) ELSE SkipForward(PlaceOf(fs)))

PeekNext ==
    /\ IsValid
    /\ LET p == AtNext(pos) IN
       Moves(IF p = End THEN AtLast ELSE AtPrevious(p))
PeekPrevious ==
    /\ IsValid
    /\ LET p == AtPrevious(pos) IN
       Moves(IF p = End THEN AtFirst ELSE AtNext(p))

IteratorNext ==
    \/ CreateIterator([fs \in FS |-> "yes"], FALSE)
    \/ \E t \in TypeSets : TypeSetIterator(t)
    \/ \E f \in Filters : FilteredIterator(f)
    \/ MoveToFirst \/ MoveToLast \/ MoveToNext \/ MoveToPrevious \/ PeekNext \/ PeekPrevious
    \/ \E fs \in FS : MoveTo(fs)

----------------------------------------------------------------------------
(* What they are for *)

\* The places the iterator is to show, and whether its filter throws somewhere.
Visible == {i \in DOMAIN seq : Shows(seq[i])}
Throwing == \E i \in DOMAIN seq : shown[seq[i]] = "throws"
Least(s) == IF s = {} THEN End ELSE CHOOSE i \in s : \A j \in s : i <= j
Greatest(s) == IF s = {} THEN End ELSE CHOOSE i \in s : \A j \in s : j <= i

(* However many types and whatever order the structures came in: the cache of
   an index has each structure of its single indexes once, that of an ordered
   index (clearAndFillCache) by the comparator; what it has it finds. *)
IndexesReadAlike ==
    pos # 0 =>
    /\ ToSet(seq) = Held /\ Len(seq) = GetSize
    /\ kind = "ordered" => \A i, j \in DOMAIN seq : i < j => Compare(seq[i], seq[j]) >= 0
    /\ \A fs \in FS : Find(fs) # 0 <=>
          \E x \in Held : IF kind = "bag" THEN x = fs ELSE Compare(fs, x) = 0

(* As long as no filter throws, an iterator walks over what it is to show as
   over a sequence, and looking at its neighbours (fsiterator.hpp, "without
   moving it") leaves it where it is. *)
WalksShown ==
    ~Throwing =>
         /\ MoveToFirst => pos' = Least(Visible)
         /\ MoveToLast => pos' = Greatest(Visible)
         /\ MoveToNext => pos' = Least({i \in Visible : i > pos})
         /\ MoveToPrevious => pos' = Greatest({i \in Visible : i < pos})
         /\ PeekNext \/ PeekPrevious => pos' = pos \/ pos \notin Visible
         /\ \A fs \in FS : MoveTo(fs) /\ kind = "ordered" =>
              \A i \in Visible : IF i < pos' THEN Compare(seq[i], fs) >= 0
                                 ELSE pos' = pos \/ Compare(fs, seq[i]) >= 0

----------------------------------------------------------------------------
(***************************************************************************)
(* Iterators over an annotation index, cas.cpp: over the annotations under *)
(* another one (SubIterator), over those that do not overlap               *)
(* (UnambiguousIterator), and over both (UnAmbiguousSubIterator); and the  *)
(* search for a covering annotation.  Each walks with an iterator of       *)
(* IndexIterators over the whole index, whose order is that of             *)
(* annotations: by their begin, the longest first, those of one span by    *)
(* the priority of their types.                                            *)
(***************************************************************************)

CONSTANTS BeginPosition, EndPosition      \* of an annotation

ASSUME SpanAssumption ==
    /\ BeginPosition \in [FS -> Nat] /\ EndPosition \in [FS -> Nat]
    /\ \A a, b \in FS :
          (\/ BeginPosition[a] < BeginPosition[b]
           \/ BeginPosition[a] = BeginPosition[b] /\ EndPosition[a] > EndPosition[b])
          => Key[a] < Key[b]

VARIABLES
    walk,     \* "plain", or what the iterator is: "sub", "unambiguousSub", "unambiguous"
    under     \* the annotation a subiterator was made for

subVars == <<walk, under>>

SubInit == walk = "plain" /\ under = 0

\* The subiterators end with the span of their annotation, the other one with the index.
SubValid(p) ==
    /\ p \in 1 .. Len(seq)
    /\ walk # "unambiguous" =>
         BeginPosition[seq[p]] >= BeginPosition[under] /\ BeginPosition[seq[p]] < EndPosition[under]

\* The annotation itself is not one of those under it.
PastAnchor(p, beyond) == IF SubValid(p) /\ seq[p] = under THEN beyond ELSE p

\* moveTo() of the iterator below: where nothing is found, nothing moves.
MovedTo(fs, p) == IF PlaceOf(fs) = End THEN p ELSE PlaceOf(fs)

SubFirst(p) == IF walk = "unambiguous" THEN AtFirst ELSE PastAnchor(MovedTo(under, p), AtNext(MovedTo(under, p)))

\* Where this annotation has ended.
BehindThis(p) ==
    LET after(q) == ~SubValid(q) \/ BeginPosition[seq[q]] >= EndPosition[seq[p]]
    IN CHOOSE q \in p + 1 .. End : after(q) /\ \A r \in p + 1 .. q - 1 : ~after(r)

SubNext(p) == IF walk = "sub" THEN PastAnchor(AtNext(p), AtNext(AtNext(p))) ELSE BehindThis(p)

\* moveToLast() walks to the end and comes back to what it saw last.
SubLast(p) ==
    LET last[n \in 0 .. Len(seq)] ==
            IF n = 0 THEN SubFirst(p)
            ELSE LET q == last[n - 1] IN IF SubValid(SubNext(q)) THEN SubNext(q) ELSE q
        place == MovedTo(seq[last[Len(seq)]], p)
    IN IF ~SubValid(SubFirst(p)) THEN SubFirst(p) ELSE PastAnchor(place, AtPrevious(place))

\* ANIndex::subIterator(), unambiguousIterator(): the iterator below is made at its end, and
\* the constructor of FSIterator moves to the first.
CreateSubIterator(an, kindOfWalk) ==
    /\ pos = 0 /\ kind = "ordered"
    /\ walk' = kindOfWalk /\ under' = an
    /\ seq' = Container
    /\ UNCHANGED <<kind, types, single, filtered, shown>>
    /\ pos' = SubFirst(End)'

Walking == walk # "plain" /\ UNCHANGED subVars

SubMoveToFirst == Walking /\ Moves(SubFirst(pos))
SubMoveToNext == Walking /\ SubValid(pos) /\ Moves(SubNext(pos))
SubMoveTo(fs) == Walking /\ Moves(MovedTo(fs, pos))

\* The unambiguous iterator throws NotYetImplementedException instead.
SubMoveToLast == Walking /\ walk # "unambiguous" /\ Moves(SubLast(pos))
SubMoveToPrevious ==
    /\ Walking /\ walk # "unambiguous"
    /\ SubValid(pos) /\ Moves(PastAnchor(AtPrevious(pos), AtPrevious(AtPrevious(pos))))

SubIteratorNext ==
    \/ \E an \in FS, w \in {"sub", "unambiguousSub", "unambiguous"} : CreateSubIterator(an, w)
    \/ SubMoveToFirst \/ SubMoveToNext \/ SubMoveToLast \/ SubMoveToPrevious
    \/ \E fs \in FS : SubMoveTo(fs)

Covers(a, b) == BeginPosition[a] <= BeginPosition[b] /\ EndPosition[a] >= EndPosition[b]

\* getFirstCoveringAnnotation(): the last of another type that covers the annotation, among
\* those before the first that begins behind it.
FirstCoveringAnnotation(s, an) ==
    LET behind == {i \in DOMAIN s : BeginPosition[s[i]] > BeginPosition[an]}
        covering == {i \in DOMAIN s : /\ Covers(s[i], an) /\ FSType[s[i]] # FSType[an]
                                      /\ \A j \in behind : i < j}
    IN IF covering = {} THEN 0 ELSE s[CHOOSE i \in covering : \A j \in covering : j <= i]

PlainNext == walk = "plain" /\ UNCHANGED subVars /\ IteratorNext

IteratorSpec == IteratorInit /\ SubInit /\ [][PlainNext \/ SubIteratorNext]_<<iteratorVars, subVars>>

-----------------------------------------------------------------------------
(* Properties *)

\* The places behind an annotation that begin in its span, and where the index says it is, or
\* would be.
Anchor == IF walk = "unambiguous" THEN 0
          ELSE IF under \in ToSet(seq) THEN PlaceOf(under) ELSE PlaceOf(under) - 1
Below == {i \in Anchor + 1 .. Len(seq) :
             walk # "unambiguous" => BeginPosition[seq[i]] < EndPosition[under]}
Clear(i, j) == walk # "sub" => BeginPosition[seq[j]] >= EndPosition[seq[i]]

\* moveTo() put it on a longer one of the same begin, and nothing is at or behind its annotation.
StaysAbove == walk # "unambiguous" /\ PlaceOf(under) = End /\ SubValid(pos)

\* Under an annotation (cas.cpp, SubIterator and its subclasses): the walk from the first to the end
\* shows each annotation that comes behind it and begins within it and never itself, an unambiguous
\* walk those of them that do not begin within the one before, and moveToLast() stops where that
\* walk does.  So it does from its creation, and from wherever it is when moveToFirst() is called,
\* unless there is nothing to move to: it then stays above the annotation if moveTo() put it there.
WalksBelow ==
    walk' # "plain" =>
        LET ends(p, s) == IF s = {} THEN ~SubValid(p) ELSE p = Least(s)
        IN  /\ pos = 0 => ends(pos, Below)'
            /\ SubMoveToFirst => IF StaysAbove THEN pos' = pos ELSE ends(pos, Below)'
            /\ SubMoveToNext /\ pos \in Below => ends(pos', {i \in Below : i > pos /\ Clear(pos, i)})
            /\ SubMoveToLast /\ Below # {} =>
                  pos' \in Below /\ \A i \in Below : i > pos' => ~Clear(pos', i)

\* A covering annotation that is found covers, and none of another type begins nearer
\* (cas.hpp, getFirstCoveringAnnotation()); it is not found only when there is none.
CoveringIsNearest ==
    kind = "ordered" => \A an \in FS :
        LET found == FirstCoveringAnnotation(seq, an)
            others == {x \in ToSet(seq) : FSType[x] # FSType[an] /\ Covers(x, an)}
        IN IF found = 0 THEN others = {}
           ELSE found \in others /\ \A x \in others : BeginPosition[x] <= BeginPosition[found]

\* An index gives its readers each of its feature structures, in order, and finds those that are
\* there and the nearest annotation of a type that covers one (lowlevel_internal_indexes.cpp, cas.cpp).
IndexesRead == IndexesReadAlike /\ CoveringIsNearest

\* Iterators of all kinds come by what they are to show, one after the other: all of an index, what a
\* filter lets through, and what is under an annotation (lowlevel_internal_indexes.cpp, cas.cpp).
IteratorsWalk == [][WalksShown /\ WalksBelow]_<<iteratorVars, subVars>>

\* What cas.hpp says besides and the code does not do: of covering annotations with one begin the
\* longest is found.
LongestIsFound ==
    kind = "ordered" => \A an \in FS, x \in ToSet(seq) :
        LET found == FirstCoveringAnnotation(seq, an)
        IN found # 0 /\ Covers(x, an) /\ FSType[x] # FSType[an]
             /\ BeginPosition[x] = BeginPosition[found] => EndPosition[x] <= EndPosition[found]
=============================================================================
