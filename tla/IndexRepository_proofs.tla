------------------------ MODULE IndexRepository_proofs ------------------------
(***************************************************************************)
(* The safety properties of IndexRepository, for every type hierarchy, set *)
(* of indexes and number of feature structures.                            *)
(*                                                                         *)
(* First what the operations of the single indexes do to a sequence, then  *)
(* one invariant after the other, each by one step per action.             *)
(***************************************************************************)
EXTENDS IndexRepository, SequenceTheorems, WellFoundedInduction, TLAPS

-----------------------------------------------------------------------------
(* Sequences.                                                              *)

\* A set of numbers that is not empty has a least element.
LEMMA LeastExists ==
    ASSUME NEW T \in SUBSET Nat, T # {}
    PROVE  \E x \in T : \A y \in T : x <= y
<1>1. PICK x \in T : \A y \in T : ~(<<y, x>> \in OpToRel(<, Nat))
    BY WFMin, NatLessThanWellFounded
<1>2. \A y \in T : ~(y < x)
    <2>1. TAKE y \in T
    <2>2. <<y, x>> \in Nat \X Nat
        OBVIOUS
    <2> QED  BY <1>1, <2>2 DEF OpToRel
<1> QED  BY <1>2

\* SequencesExt!InsertAt keeps the entries before i and moves the others up by one.
LEMMA InsertAtProperties ==
    ASSUME NEW S, NEW s \in Seq(S), NEW i \in 1 .. Len(s) + 1, NEW e \in S
    PROVE  /\ InsertAt(s, i, e) \in Seq(S)
           /\ Len(InsertAt(s, i, e)) = Len(s) + 1
           /\ \A j \in 1 .. Len(s) + 1 :
                InsertAt(s, i, e)[j] = IF j < i THEN s[j] ELSE IF j = i THEN e ELSE s[j - 1]
<1> DEFINE a == SubSeq(s, 1, i - 1)
           m == a \o <<e>>
           b == SubSeq(s, i, Len(s))
<1>0. Len(s) \in Nat /\ i \in Nat
    BY LenProperties
<1>1. a \in Seq(S) /\ Len(a) = i - 1 /\ \A j \in 1 .. i - 1 : a[j] = s[j]
    <2>1. \A j \in 1 .. i - 1 : s[j] \in S
        BY <1>0, ElementOfSeq
    <2> QED  BY <1>0, <2>1, SubSeqProperties
<1>2. b \in Seq(S) /\ Len(b) = Len(s) - i + 1 /\ \A j \in 1 .. Len(s) - i + 1 : b[j] = s[i + j - 1]
    <2>1. \A j \in i .. Len(s) : s[j] \in S
        BY <1>0, ElementOfSeq
    <2> QED  BY <1>0, <2>1, SubSeqProperties
<1>3. <<e>> \in Seq(S) /\ Len(<<e>>) = 1 /\ <<e>>[1] = e
    OBVIOUS
<1> HIDE DEF a, b
<1>4. m \in Seq(S) /\ Len(m) = i /\ \A j \in 1 .. i : m[j] = IF j <= i - 1 THEN a[j] ELSE <<e>>[j - (i - 1)]
    <2>1. /\ m \in Seq(S) /\ Len(m) = Len(a) + Len(<<e>>)
          /\ \A j \in 1 .. Len(a) + Len(<<e>>) : m[j] = IF j <= Len(a) THEN a[j] ELSE <<e>>[j - Len(a)]
        BY <1>1, <1>3, ConcatProperties
    <2>2. Len(a) = i - 1 /\ Len(a) + Len(<<e>>) = i
        BY <1>0, <1>1, <1>3
    <2> QED  BY <2>1, <2>2
<1>5. \A j \in 1 .. i : m[j] = IF j < i THEN s[j] ELSE e
    BY <1>0, <1>1, <1>3, <1>4
<1> HIDE DEF m
<1>6. /\ m \o b \in Seq(S) /\ Len(m \o b) = Len(s) + 1
      /\ \A j \in 1 .. Len(s) + 1 : (m \o b)[j] = IF j <= i THEN m[j] ELSE b[j - i]
    <2>1. /\ m \o b \in Seq(S) /\ Len(m \o b) = Len(m) + Len(b)
          /\ \A j \in 1 .. Len(m) + Len(b) : (m \o b)[j] = IF j <= Len(m) THEN m[j] ELSE b[j - Len(m)]
        BY <1>2, <1>4, ConcatProperties
    <2>2. Len(m) = i /\ Len(m) + Len(b) = Len(s) + 1
        BY <1>0, <1>2, <1>4
    <2> QED  BY <2>1, <2>2
<1>7. InsertAt(s, i, e) = m \o b
    BY DEF InsertAt, m, a, b
<1> QED  BY <1>0, <1>2, <1>5, <1>6, <1>7

\* SequencesExt!RemoveAt keeps the entries before i and moves the others down by one.
LEMMA RemoveAtProperties ==
    ASSUME NEW S, NEW s \in Seq(S), NEW i \in 1 .. Len(s)
    PROVE  /\ RemoveAt(s, i) \in Seq(S)
           /\ Len(RemoveAt(s, i)) = Len(s) - 1
           /\ \A j \in 1 .. Len(s) - 1 :
                RemoveAt(s, i)[j] = IF j < i THEN s[j] ELSE s[j + 1]
<1> DEFINE a == SubSeq(s, 1, i - 1)
           b == SubSeq(s, i + 1, Len(s))
<1>0. Len(s) \in Nat /\ i \in Nat
    BY LenProperties
<1>1. a \in Seq(S) /\ Len(a) = i - 1 /\ \A j \in 1 .. i - 1 : a[j] = s[j]
    <2>1. \A j \in 1 .. i - 1 : s[j] \in S
        BY <1>0, ElementOfSeq
    <2> QED  BY <1>0, <2>1, SubSeqProperties
<1>2. b \in Seq(S) /\ Len(b) = Len(s) - i /\ \A j \in 1 .. Len(s) - i : b[j] = s[i + j]
    <2>1. \A j \in i + 1 .. Len(s) : s[j] \in S
        BY <1>0, ElementOfSeq
    <2> QED  BY <1>0, <2>1, SubSeqProperties
<1> HIDE DEF a, b
<1>3. /\ a \o b \in Seq(S) /\ Len(a \o b) = Len(s) - 1
      /\ \A j \in 1 .. Len(s) - 1 : (a \o b)[j] = IF j <= i - 1 THEN a[j] ELSE b[j - (i - 1)]
    <2>1. /\ a \o b \in Seq(S) /\ Len(a \o b) = Len(a) + Len(b)
          /\ \A j \in 1 .. Len(a) + Len(b) : (a \o b)[j] = IF j <= Len(a) THEN a[j] ELSE b[j - Len(a)]
        BY <1>1, <1>2, ConcatProperties
    <2>2. Len(a) = i - 1 /\ Len(a) + Len(b) = Len(s) - 1
        BY <1>0, <1>1, <1>2
    <2> QED  BY <2>1, <2>2
<1>4. RemoveAt(s, i) = a \o b
    BY DEF RemoveAt, a, b
<1>5. ASSUME NEW j \in 1 .. Len(s) - 1
      PROVE  (a \o b)[j] = IF j < i THEN s[j] ELSE s[j + 1]
    <2>1. CASE j < i
        BY <1>0, <1>1, <1>3, <2>1
    <2>2. CASE ~(j < i)
        <3>1. ~(j <= i - 1) /\ j - (i - 1) \in 1 .. Len(s) - i
            BY <1>0, <2>2
        <3>2. (a \o b)[j] = b[j - (i - 1)]
            BY <1>3, <3>1
        <3>3. i + (j - (i - 1)) = j + 1
            BY <1>0
        <3> QED  BY <1>2, <2>2, <3>1, <3>2, <3>3
    <2> QED  BY <2>1, <2>2
<1> QED  BY <1>3, <1>4, <1>5

\* What a sequence holds.
LEMMA ToSetProperties ==
    ASSUME NEW S, NEW s \in Seq(S)
    PROVE  /\ ToSet(s) = {s[i] : i \in 1 .. Len(s)}
           /\ ToSet(s) \subseteq S
           /\ s # <<>> <=> ToSet(s) # {}
<1>1. DOMAIN s = 1 .. Len(s) /\ Len(s) \in Nat
    BY LenProperties
<1>2. ToSet(s) = {s[i] : i \in 1 .. Len(s)}
    BY <1>1 DEF ToSet
<1>3. ToSet(s) \subseteq S
    BY <1>2, ElementOfSeq
<1>4. s # <<>> <=> Len(s) # 0
    BY EmptySeq
<1> QED  BY <1>1, <1>2, <1>3, <1>4

-----------------------------------------------------------------------------
(* The single indexes.                                                     *)

\* std::lower_bound finds a position, on every sequence.
LEMMA LowerBoundProperties ==
    ASSUME NEW s \in Seq(FS), NEW fs \in FS
    PROVE  /\ LowerBound(s, fs) \in 1 .. Len(s) + 1
           /\ \A j \in 1 .. LowerBound(s, fs) - 1 : Key[s[j]] < Key[fs]
           /\ LowerBound(s, fs) <= Len(s) => Key[s[LowerBound(s, fs)]] >= Key[fs]
<1> DEFINE T == {i \in 1 .. Len(s) + 1 : i <= Len(s) => Key[s[i]] >= Key[fs]}
<1>0. Len(s) \in Nat
    BY LenProperties
<1>1. T \in SUBSET Nat /\ Len(s) + 1 \in T
    BY <1>0
<1>2. PICK i \in T : \A y \in T : i <= y
    BY <1>1, LeastExists
<1>3. i \in 1 .. Len(s) + 1 /\ i \in Nat /\ (i <= Len(s) => Key[s[i]] >= Key[fs])
    BY <1>2
<1>4. ASSUME NEW j \in 1 .. i - 1 PROVE Key[s[j]] < Key[fs]
    <2>1. j \in 1 .. Len(s) /\ j \notin T
        BY <1>0, <1>2, <1>3
    <2>2. s[j] \in FS
        BY <2>1, ElementOfSeq
    <2>3. Key[s[j]] \in Int /\ Key[fs] \in Int
        BY <2>2, IndexAssumption
    <2> QED  BY <1>0, <2>1, <2>3
<1>5. \E k \in 1 .. Len(s) + 1 :
        /\ \A j \in 1 .. k - 1 : Key[s[j]] < Key[fs]
        /\ k <= Len(s) => Key[s[k]] >= Key[fs]
    BY <1>3, <1>4
<1> QED  BY <1>5 DEF LowerBound

\* std::set finds what it looks for at its lower bound.
LEMMA SetHasPosition ==
    ASSUME NEW s \in Seq(FS), NEW fs \in FS, HasKey(s, fs)
    PROVE  LowerBound(s, fs) \in 1 .. Len(s)
<1>0. Len(s) \in Nat
    BY LenProperties
<1>1. SUFFICES ASSUME LowerBound(s, fs) = Len(s) + 1 PROVE FALSE
    BY <1>0, LowerBoundProperties
<1>2. PICK i \in 1 .. Len(s) : Key[s[i]] = Key[fs]
    BY DEF HasKey
<1>3. i \in 1 .. LowerBound(s, fs) - 1
    BY <1>0, <1>1
<1>4. Key[s[i]] < Key[fs]
    BY <1>3, LowerBoundProperties
<1>5. Key[fs] \in Int
    BY IndexAssumption
<1> QED  BY <1>2, <1>4, <1>5

\* Adding keeps what an index holds and adds at most fs to it.
LEMMA IndexAddHolds ==
    ASSUME NEW id \in Indexes, NEW s \in Seq(FS), NEW fs \in FS
    PROVE  /\ IndexAdd(id, s, fs) \in Seq(FS)
           /\ ToSet(IndexAdd(id, s, fs)) \subseteq ToSet(s) \cup {fs}
<1> DEFINE k == LowerBound(s, fs)
           Holds(u) == u \in Seq(FS) /\ ToSet(u) \subseteq ToSet(s) \cup {fs}
<1>1. k \in 1 .. Len(s) + 1
    BY LowerBoundProperties
<1> HIDE DEF k
<1>2. Holds(InsertAt(s, k, fs))
    <2>1. /\ InsertAt(s, k, fs) \in Seq(FS) /\ Len(InsertAt(s, k, fs)) = Len(s) + 1
          /\ \A j \in 1 .. Len(s) + 1 :
                InsertAt(s, k, fs)[j] = IF j < k THEN s[j] ELSE IF j = k THEN fs ELSE s[j - 1]
        BY <1>1, InsertAtProperties
    <2>2. ASSUME NEW j \in 1 .. Len(s) + 1 PROVE InsertAt(s, k, fs)[j] \in ToSet(s) \cup {fs}
        <3>1. Len(s) \in Nat
            BY LenProperties
        <3>2. j < k => j \in 1 .. Len(s)
            BY <1>1, <3>1
        <3>3. j > k => j - 1 \in 1 .. Len(s)
            BY <1>1, <3>1
        <3>4. ToSet(s) = {s[i] : i \in 1 .. Len(s)}
            BY ToSetProperties
        <3> QED  BY <1>1, <2>1, <3>1, <3>2, <3>3, <3>4
    <2>3. ToSet(InsertAt(s, k, fs)) = {InsertAt(s, k, fs)[j] : j \in 1 .. Len(s) + 1}
        BY <2>1, ToSetProperties
    <2> QED  BY <2>1, <2>2, <2>3
<1>3. Holds(Append(s, fs))
    <2>1. /\ Append(s, fs) \in Seq(FS) /\ Len(Append(s, fs)) = Len(s) + 1
          /\ \A i \in 1 .. Len(s) : Append(s, fs)[i] = s[i]
          /\ Append(s, fs)[Len(s) + 1] = fs
        BY AppendProperties
    <2>2. Len(s) \in Nat /\ ToSet(s) = {s[i] : i \in 1 .. Len(s)}
        BY LenProperties, ToSetProperties
    <2> DEFINE u == Append(s, fs)
    <2>3. u \in Seq(FS) /\ Len(u) = Len(s) + 1
        BY <2>1
    <2> HIDE DEF u
    <2>4. ToSet(u) = {u[j] : j \in 1 .. Len(u)}
        BY <2>3, ToSetProperties
    <2> QED  BY <2>1, <2>2, <2>3, <2>4 DEF u
<1>4. Holds(s)
    OBVIOUS
<1>5. Kind[id] \in {"ordered", "set", "bag"}
    BY IndexAssumption
<1>6. CASE Kind[id] = "ordered"
    BY <1>2, <1>3, <1>6 DEF IndexAdd, OrderedAdd, k
<1>7. CASE Kind[id] = "set"
    BY <1>2, <1>4, <1>7 DEF IndexAdd, SetAdd, k
<1>8. CASE Kind[id] = "bag"
    BY <1>3, <1>8 DEF IndexAdd
<1> QED  BY <1>5, <1>6, <1>7, <1>8

\* Removing adds nothing to an index, whatever entry it takes out.
LEMMA IndexRemoveHolds ==
    ASSUME NEW id \in Indexes, NEW s \in Seq(FS), NEW fs \in FS
    PROVE  /\ IndexRemove(id, s, fs) \in Seq(FS)
           /\ ToSet(IndexRemove(id, s, fs)) \subseteq ToSet(s)
<1> DEFINE Holds(u) == u \in Seq(FS) /\ ToSet(u) \subseteq ToSet(s)
           k == LowerBound(s, fs)
<1>0. Len(s) \in Nat /\ ToSet(s) = {s[i] : i \in 1 .. Len(s)}
    BY LenProperties, ToSetProperties
<1>1. ASSUME NEW p \in 1 .. Len(s) PROVE Holds(RemoveAt(s, p))
    <2>1. /\ RemoveAt(s, p) \in Seq(FS) /\ Len(RemoveAt(s, p)) = Len(s) - 1
          /\ \A j \in 1 .. Len(s) - 1 : RemoveAt(s, p)[j] = IF j < p THEN s[j] ELSE s[j + 1]
        BY RemoveAtProperties
    <2>2. ToSet(RemoveAt(s, p)) = {RemoveAt(s, p)[j] : j \in 1 .. Len(s) - 1}
        BY <2>1, ToSetProperties
    <2>3. ASSUME NEW j \in 1 .. Len(s) - 1 PROVE RemoveAt(s, p)[j] \in ToSet(s)
        <3>1. j \in 1 .. Len(s) /\ j + 1 \in 1 .. Len(s)
            BY <1>0
        <3> QED  BY <1>0, <2>1, <3>1
    <2> QED  BY <2>1, <2>2, <2>3
<1>2. Holds(s)
    OBVIOUS
<1>3. k \in 1 .. Len(s) + 1
    BY LowerBoundProperties
<1>4. (\E i \in 1 .. Len(s) : s[i] = fs) => SelectInSeq(s, LAMBDA v : v = fs) \in 1 .. Len(s)
    <2> DEFINE I == {i \in 1 .. Len(s) : s[i] = fs}
    <2>1. SUFFICES ASSUME I # {} PROVE Min(I) \in 1 .. Len(s)
        BY DEF SelectInSeq
    <2>2. I \in SUBSET Nat
        BY <1>0
    <2>3. \E x \in I : \A y \in I : x <= y
        BY <2>1, <2>2, LeastExists
    <2>4. Min(I) \in I
        BY <2>3 DEF Min
    <2> QED  BY <2>4
<1>5. Kind[id] \in {"ordered", "set", "bag"}
    BY IndexAssumption
<1> HIDE DEF k
<1>6. CASE Kind[id] = "ordered"
    <2>1. k <= Len(s) => k \in 1 .. Len(s)
        BY <1>0, <1>3
    <2> QED  BY <1>1, <1>2, <1>6, <2>1 DEF IndexRemove, OrderedRemove, k
<1>7. CASE Kind[id] = "set"
    <2>1. HasKey(s, fs) => k \in 1 .. Len(s)
        BY SetHasPosition DEF k
    <2> QED  BY <1>1, <1>2, <1>7, <2>1 DEF IndexRemove, SetRemove, k
<1>8. CASE Kind[id] = "bag"
    BY <1>1, <1>2, <1>4, <1>8 DEF IndexRemove, BagRemove, RemoveFirst
<1> QED  BY <1>5, <1>6, <1>7, <1>8

\* The order of an index with a comparator, as OrderKept states it of every single index.
Sorted(id, s) ==
    \A i, j \in 1 .. Len(s) : i < j =>
        /\ Kind[id] = "ordered" => Key[s[i]] <= Key[s[j]]
        /\ Kind[id] = "set" => Key[s[i]] < Key[s[j]]

\* An entry goes where the order wants it.
LEMMA IndexAddSorted ==
    ASSUME NEW id \in Indexes, NEW s \in Seq(FS), NEW fs \in FS, Sorted(id, s)
    PROVE  Sorted(id, IndexAdd(id, s, fs))
<1> DEFINE k == LowerBound(s, fs)
           n == Len(s)
<1>0. n \in Nat
    BY LenProperties
<1>1. k \in 1 .. n + 1
    BY LowerBoundProperties
<1>2. \A j \in 1 .. n : s[j] \in FS /\ Key[s[j]] \in Int
    BY ElementOfSeq, IndexAssumption
<1>3. Key[fs] \in Int
    BY IndexAssumption
<1>4. \A j \in 1 .. n : j < k => Key[s[j]] < Key[fs]
    BY <1>0, <1>1, LowerBoundProperties
<1>5. k <= n => Key[s[k]] >= Key[fs]
    BY LowerBoundProperties
<1>6. /\ Len(InsertAt(s, k, fs)) = n + 1
      /\ \A j \in 1 .. n + 1 :
            InsertAt(s, k, fs)[j] = IF j < k THEN s[j] ELSE IF j = k THEN fs ELSE s[j - 1]
    BY <1>1, InsertAtProperties
<1> HIDE DEF k, n
<1>7. CASE Kind[id] = "ordered"
    <2>1. \A i, j \in 1 .. n : i < j => Key[s[i]] <= Key[s[j]]
        BY <1>7 DEF Sorted, n
    <2>2. CASE s # <<>> /\ Key[fs] < Key[s[n]]
        <3>1. \A j \in 1 .. n : j >= k => Key[s[j]] >= Key[fs]
            <4>1. TAKE j \in 1 .. n
            <4>2. HAVE j >= k
            <4>3. k \in 1 .. n
                BY <1>0, <1>1, <4>2
            <4>4. Key[s[k]] <= Key[s[j]]
                BY <1>2, <2>1, <4>2, <4>3
            <4> QED  BY <1>2, <1>3, <1>5, <4>3, <4>4
        <3>2. \A i, j \in 1 .. n + 1 : i < j =>
                  Key[InsertAt(s, k, fs)[i]] <= Key[InsertAt(s, k, fs)[j]]
            <4>1. TAKE i, j \in 1 .. n + 1
            <4>2. HAVE i < j
            <4>3. CASE j < k
                BY <1>0, <1>1, <1>6, <2>1, <4>2, <4>3
            <4>4. CASE j = k
                BY <1>0, <1>1, <1>2, <1>3, <1>4, <1>6, <4>2, <4>4
            <4>5. CASE j > k
                <5>1. j - 1 \in 1 .. n /\ j - 1 >= k /\ InsertAt(s, k, fs)[j] = s[j - 1]
                    BY <1>0, <1>1, <1>6, <4>5
                <5>2. CASE i < k
                    <6>1. i \in 1 .. n /\ i < j - 1 /\ InsertAt(s, k, fs)[i] = s[i]
                        BY <1>0, <1>1, <1>6, <5>1, <5>2
                    <6> QED  BY <2>1, <5>1, <6>1
                <5>3. CASE i = k
                    BY <1>2, <1>3, <1>6, <3>1, <5>1, <5>3
                <5>4. CASE i > k
                    <6>1. i - 1 \in 1 .. n /\ i - 1 < j - 1 /\ InsertAt(s, k, fs)[i] = s[i - 1]
                        BY <1>0, <1>1, <1>6, <4>2, <5>4
                    <6> QED  BY <2>1, <5>1, <6>1
                <5> QED  BY <1>1, <5>2, <5>3, <5>4
            <4> QED  BY <1>1, <4>3, <4>4, <4>5
        <3> QED  BY <1>6, <1>7, <2>2, <3>2 DEF Sorted, IndexAdd, OrderedAdd, k, n
    <2>3. CASE ~(s # <<>> /\ Key[fs] < Key[s[n]])
        <3> DEFINE u == Append(s, fs)
        <3>1. Len(u) = n + 1 /\ u[n + 1] = fs /\ \A i \in 1 .. n : u[i] = s[i]
            BY AppendProperties DEF n
        <3> HIDE DEF u
        <3>2. \A i \in 1 .. n : Key[s[i]] <= Key[fs]
            <4>1. TAKE i \in 1 .. n
            <4>2. n \in 1 .. n /\ s # <<>>
                BY <1>0, EmptySeq DEF n
            <4>3. Key[s[n]] <= Key[fs]
                BY <1>2, <1>3, <2>3, <4>2
            <4>4. Key[s[i]] <= Key[s[n]]
                BY <1>0, <1>2, <2>1, <4>2
            <4> QED  BY <1>2, <1>3, <4>2, <4>3, <4>4
        <3>3. \A i, j \in 1 .. n + 1 : i < j => Key[u[i]] <= Key[u[j]]
            BY <1>0, <2>1, <3>1, <3>2
        <3> QED  BY <1>7, <2>3, <3>1, <3>3 DEF Sorted, IndexAdd, OrderedAdd, n, u
    <2> QED  BY <2>2, <2>3
<1>8. CASE Kind[id] = "set"
    <2>1. \A i, j \in 1 .. n : i < j => Key[s[i]] < Key[s[j]]
        BY <1>8 DEF Sorted, n
    <2>2. CASE HasKey(s, fs)
        BY <1>8, <2>2 DEF Sorted, IndexAdd, SetAdd
    <2>3. CASE ~HasKey(s, fs)
        <3>1. \A j \in 1 .. n : j >= k => Key[s[j]] > Key[fs]
            <4>1. TAKE j \in 1 .. n
            <4>2. HAVE j >= k
            <4>3. k \in 1 .. n
                BY <1>0, <1>1, <4>2
            <4>4. Key[s[k]] <= Key[s[j]]
                BY <1>2, <2>1, <4>2, <4>3
            <4>5. Key[s[k]] # Key[fs]
                BY <2>3, <4>3 DEF HasKey, n
            <4> QED  BY <1>2, <1>3, <1>5, <4>3, <4>4, <4>5
        <3>2. \A i, j \in 1 .. n + 1 : i < j =>
                  Key[InsertAt(s, k, fs)[i]] < Key[InsertAt(s, k, fs)[j]]
            <4>1. TAKE i, j \in 1 .. n + 1
            <4>2. HAVE i < j
            <4>3. CASE j < k
                BY <1>0, <1>1, <1>6, <2>1, <4>2, <4>3
            <4>4. CASE j = k
                BY <1>0, <1>1, <1>2, <1>3, <1>4, <1>6, <4>2, <4>4
            <4>5. CASE j > k
                <5>1. j - 1 \in 1 .. n /\ j - 1 >= k /\ InsertAt(s, k, fs)[j] = s[j - 1]
                    BY <1>0, <1>1, <1>6, <4>5
                <5>2. CASE i < k
                    <6>1. i \in 1 .. n /\ i < j - 1 /\ InsertAt(s, k, fs)[i] = s[i]
                        BY <1>0, <1>1, <1>6, <5>1, <5>2
                    <6> QED  BY <2>1, <5>1, <6>1
                <5>3. CASE i = k
                    BY <1>2, <1>3, <1>6, <3>1, <5>1, <5>3
                <5>4. CASE i > k
                    <6>1. i - 1 \in 1 .. n /\ i - 1 < j - 1 /\ InsertAt(s, k, fs)[i] = s[i - 1]
                        BY <1>0, <1>1, <1>6, <4>2, <5>4
                    <6> QED  BY <2>1, <5>1, <6>1
                <5> QED  BY <1>1, <5>2, <5>3, <5>4
            <4> QED  BY <1>1, <4>3, <4>4, <4>5
        <3> QED  BY <1>6, <1>8, <2>3, <3>2 DEF Sorted, IndexAdd, SetAdd, k, n
    <2> QED  BY <2>2, <2>3
<1>9. CASE Kind[id] = "bag"
    BY <1>9 DEF Sorted
<1>10. Kind[id] \in {"ordered", "set", "bag"}
    BY IndexAssumption
<1> QED  BY <1>7, <1>8, <1>9, <1>10

\* Taking an entry out, even the wrong one, leaves the order as it is.
LEMMA IndexRemoveSorted ==
    ASSUME NEW id \in Indexes, NEW s \in Seq(FS), NEW fs \in FS, Sorted(id, s)
    PROVE  Sorted(id, IndexRemove(id, s, fs))
<1> DEFINE k == LowerBound(s, fs)
<1>0. Len(s) \in Nat
    BY LenProperties
<1>1. ASSUME NEW p \in 1 .. Len(s) PROVE Sorted(id, RemoveAt(s, p))
    <2>1. /\ Len(RemoveAt(s, p)) = Len(s) - 1
          /\ \A j \in 1 .. Len(s) - 1 : RemoveAt(s, p)[j] = IF j < p THEN s[j] ELSE s[j + 1]
        BY RemoveAtProperties
    <2>2. SUFFICES ASSUME NEW i \in 1 .. Len(s) - 1, NEW j \in 1 .. Len(s) - 1, i < j
                   PROVE  /\ Kind[id] = "ordered" => Key[RemoveAt(s, p)[i]] <= Key[RemoveAt(s, p)[j]]
                          /\ Kind[id] = "set" => Key[RemoveAt(s, p)[i]] < Key[RemoveAt(s, p)[j]]
        BY <2>1 DEF Sorted
    <2>3. PICK a \in 1 .. Len(s) : a = (IF i < p THEN i ELSE i + 1) /\ RemoveAt(s, p)[i] = s[a]
        BY <1>0, <2>1
    <2>4. PICK b \in 1 .. Len(s) : b = (IF j < p THEN j ELSE j + 1) /\ RemoveAt(s, p)[j] = s[b]
        BY <1>0, <2>1
    <2>5. a < b
        BY <1>0, <2>2, <2>3, <2>4
    <2> QED  BY <2>3, <2>4, <2>5 DEF Sorted
<1>2. k \in 1 .. Len(s) + 1
    BY LowerBoundProperties
<1> HIDE DEF k
<1>3. CASE Kind[id] = "ordered"
    <2>1. k <= Len(s) => k \in 1 .. Len(s)
        BY <1>0, <1>2
    <2> QED  BY <1>1, <1>3, <2>1 DEF IndexRemove, OrderedRemove, k
<1>4. CASE Kind[id] = "set"
    <2>1. HasKey(s, fs) => k \in 1 .. Len(s)
        BY SetHasPosition DEF k
    <2> QED  BY <1>1, <1>4, <2>1 DEF IndexRemove, SetRemove, k
<1>5. CASE Kind[id] = "bag"
    BY <1>5 DEF Sorted
<1>6. Kind[id] \in {"ordered", "set", "bag"}
    BY IndexAssumption
<1> QED  BY <1>3, <1>4, <1>5, <1>6

-----------------------------------------------------------------------------
(* The type hierarchy.                                                     *)

\* A composite index and its components.
LEMMA Hierarchy ==
    /\ NoIndex \notin Singles
    /\ Composites \subseteq Singles
    /\ \A h \in Singles : h = <<h[1], h[2]>> /\ h[1] \in Indexes /\ h[2] \in Types
    /\ \A h \in Singles : Subsumed[h[2]] \subseteq Types /\ h[2] \in Subsumed[h[2]]
    /\ \A h \in Singles : \A t \in Subsumed[h[2]] : <<h[1], t>> \in Singles
<1>1. NoIndex \notin Singles
    BY DEF NoIndex, Singles
<1>2. Composites \subseteq Singles
    BY DEF Composites
<1>3. \A h \in Singles : h = <<h[1], h[2]>> /\ h[1] \in Indexes /\ h[2] \in Types
    BY DEF Singles
<1>4. \A h \in Singles : Subsumed[h[2]] \subseteq Types /\ h[2] \in Subsumed[h[2]]
    BY <1>3, IndexAssumption
<1>5. ASSUME NEW h \in Singles, NEW t \in Subsumed[h[2]] PROVE <<h[1], t>> \in Singles
    <2>1. h[1] \in Indexes /\ h[2] \in Subsumed[IndexType[h[1]]] /\ IndexType[h[1]] \in Types
        BY <1>3, IndexAssumption DEF Singles
    <2>2. t \in Types /\ t \in Subsumed[IndexType[h[1]]]
        BY <1>4, <2>1, IndexAssumption
    <2> QED  BY <2>1, <2>2 DEF Singles
<1> QED  BY <1>1, <1>2, <1>3, <1>4, <1>5

-----------------------------------------------------------------------------
(* Types.                                                                  *)

\* What one operation makes of the single indexes.
LEMMA SingleTyped ==
    ASSUME TypeOK, NEW fs \in FS
    PROVE  /\ [h \in Singles |-> IF h[2] = TypeOf[fs] THEN IndexAdd(h[1], single[h], fs)
                                                    ELSE single[h]] \in [Singles -> Seq(FS)]
           /\ [h \in Singles |-> IF h[2] = TypeOf[fs] THEN IndexRemove(h[1], single[h], fs)
                                                    ELSE single[h]] \in [Singles -> Seq(FS)]
<1>1. ASSUME NEW h \in Singles
      PROVE  single[h] \in Seq(FS) /\ h[1] \in Indexes
    BY Hierarchy DEF TypeOK
<1>2. ASSUME NEW h \in Singles
      PROVE  /\ IndexAdd(h[1], single[h], fs) \in Seq(FS)
             /\ IndexRemove(h[1], single[h], fs) \in Seq(FS)
    BY <1>1, IndexAddHolds, IndexRemoveHolds
<1> QED  BY <1>1, <1>2

\* A cache is filled with feature structures.
LEMMA ComponentsTyped ==
    ASSUME TypeOK, NEW c \in Singles
    PROVE  Components(c) \subseteq FS
<1>1. ASSUME NEW t \in Subsumed[c[2]] PROVE ToSet(single[<<c[1], t>>]) \subseteq FS
    <2>1. single[<<c[1], t>>] \in Seq(FS)
        BY Hierarchy DEF TypeOK
    <2> QED  BY <2>1, ToSetProperties
<1> QED  BY <1>1 DEF Components

LEMMA TypeStep == TypeOK /\ [Next]_vars => TypeOK'
<1> SUFFICES ASSUME TypeOK, [Next]_vars PROVE TypeOK'
    OBVIOUS
<1>1. ASSUME NEW fs \in FS, AddFS(fs) PROVE TypeOK'
    <2>1. TypeOf[fs] \in Types
        BY IndexAssumption
    <2>2. single' \in [Singles -> Seq(FS)]
        BY <1>1, SingleTyped DEF AddFS
    <2>3. used' \subseteq Types /\ undefined' \subseteq FS /\ added' \subseteq FS
        BY <1>1, <2>1 DEF AddFS, TypeOK
    <2>4. upToDate' \in [Types -> SUBSET Composites] /\ cache' \in [Composites -> SUBSET FS]
        BY <1>1, <2>1 DEF AddFS, TypeOK
    <2>5. reader' \in Singles \cup {NoIndex} /\ dangling' \in BOOLEAN /\ touched' \in BOOLEAN
        BY <1>1 DEF AddFS, Disturb, TypeOK
    <2> QED  BY <2>2, <2>3, <2>4, <2>5 DEF TypeOK
<1>2. ASSUME NEW fs \in FS, RemoveFS(fs) PROVE TypeOK'
    <2>1. single' \in [Singles -> Seq(FS)]
        BY <1>2, SingleTyped DEF RemoveFS
    <2>2. reader' \in Singles \cup {NoIndex} /\ dangling' \in BOOLEAN /\ touched' \in BOOLEAN
        BY <1>2 DEF RemoveFS, Disturb, TypeOK
    <2> QED  BY <1>2, <2>1, <2>2 DEF RemoveFS, TypeOK
<1>3. ASSUME NEW h \in Singles, CreateIterator(h) PROVE TypeOK'
    <2>1. Components(h) \subseteq FS
        BY ComponentsTyped
    <2>2. h \in Composites => ClearDirtyFlag(h) \in [Types -> SUBSET Composites]
        BY DEF ClearDirtyFlag, TypeOK
    <2>3. cache' \in [Composites -> SUBSET FS] /\ upToDate' \in [Types -> SUBSET Composites]
        BY <1>3, <2>1, <2>2 DEF CreateIterator, TypeOK
    <2>4. reader' \in Singles \cup {NoIndex} /\ dangling' \in BOOLEAN /\ touched' \in BOOLEAN
        BY <1>3 DEF CreateIterator, TypeOK
    <2> QED  BY <1>3, <2>3, <2>4 DEF CreateIterator, TypeOK
<1>4. CASE DeleteIterator
    BY <1>4 DEF DeleteIterator, TypeOK
<1>5. CASE Reset
    <2>1. single' \in [Singles -> Seq(FS)]
        BY <1>5 DEF Reset, TypeOK
    <2>2. upToDate' \in [Types -> SUBSET Composites]
        BY <1>5 DEF Reset, TypeOK
    <2>3. reader' \in Singles \cup {NoIndex} /\ dangling' \in BOOLEAN /\ touched' \in BOOLEAN
        BY <1>5 DEF Reset, Disturb, TypeOK
    <2> QED  BY <1>5, <2>1, <2>2, <2>3 DEF Reset, TypeOK
<1>6. CASE UNCHANGED vars
    BY <1>6 DEF vars, readerVars, TypeOK
<1> QED  BY <1>1, <1>2, <1>3, <1>4, <1>5, <1>6 DEF Next

\* Every variable keeps its type: in particular no operation takes a sequence apart at a
\* position it does not have.
THEOREM TypeCorrect == Spec => []TypeOK
<1>1. Init => TypeOK
    <2>1. [h \in Singles |-> <<>>] \in [Singles -> Seq(FS)]
        BY EmptySeq
    <2> QED  BY <2>1 DEF Init, TypeOK
<1> QED  BY <1>1, TypeStep, PTL DEF Spec

-----------------------------------------------------------------------------
(* The order of the single indexes.                                        *)

LEMMA OrderStep == TypeOK /\ OrderKept /\ [Next]_vars => OrderKept'
<1> SUFFICES ASSUME TypeOK, OrderKept, [Next]_vars PROVE OrderKept'
    OBVIOUS
<1>0. /\ OrderKept <=> \A h \in Singles : Sorted(h[1], single[h])
      /\ OrderKept' <=> \A h \in Singles : Sorted(h[1], single'[h])
    BY DEF OrderKept, Sorted
<1>1. ASSUME NEW h \in Singles PROVE h[1] \in Indexes /\ single[h] \in Seq(FS) /\ Sorted(h[1], single[h])
    BY <1>0, Hierarchy DEF TypeOK
<1>2. ASSUME NEW fs \in FS, AddFS(fs), NEW h \in Singles PROVE Sorted(h[1], single'[h])
    BY <1>1, <1>2, IndexAddSorted DEF AddFS
<1>3. ASSUME NEW fs \in FS, RemoveFS(fs), NEW h \in Singles PROVE Sorted(h[1], single'[h])
    BY <1>1, <1>3, IndexRemoveSorted DEF RemoveFS
<1>4. ASSUME NEW g \in Singles, CreateIterator(g), NEW h \in Singles PROVE Sorted(h[1], single'[h])
    BY <1>1, <1>4 DEF CreateIterator
<1>5. ASSUME DeleteIterator, NEW h \in Singles PROVE Sorted(h[1], single'[h])
    BY <1>1, <1>5 DEF DeleteIterator
<1>6. ASSUME Reset, NEW h \in Singles PROVE Sorted(h[1], single'[h])
    <2>1. Sorted(h[1], <<>>)
        BY DEF Sorted
    <2> QED  BY <1>1, <1>6, <2>1 DEF Reset
<1>7. ASSUME UNCHANGED vars, NEW h \in Singles PROVE Sorted(h[1], single'[h])
    BY <1>1, <1>7 DEF vars
<1> QED  BY <1>0, <1>2, <1>3, <1>4, <1>5, <1>6, <1>7 DEF Next

\* The precondition of every lower_bound holds whenever one is called: adding puts an
\* entry where the order wants it, and removing may take the wrong entry but keeps the
\* order.
THEOREM OrderIsKept == Spec => []OrderKept
<1>1. Init => OrderKept
    BY DEF Init, OrderKept
<1> QED  BY <1>1, TypeCorrect, OrderStep, PTL DEF Spec

-----------------------------------------------------------------------------
(* The types recorded as used.                                             *)

LEMMA UsedStep == TypeOK /\ UsedInv /\ [Next]_vars => UsedInv'
<1> SUFFICES ASSUME TypeOK, UsedInv, [Next]_vars, NEW h \in Singles, h[2] \notin used'
             PROVE  single'[h] = <<>>
    BY DEF UsedInv
<1>0. h[2] \notin used => single[h] = <<>>
    BY DEF UsedInv
<1>1. ASSUME NEW fs \in FS, AddFS(fs) PROVE single'[h] = <<>>
    <2>1. h[2] \notin used
        BY <1>1 DEF AddFS
    <2>2. h[2] # TypeOf[fs]
        BY <1>1 DEF AddFS, SinglesOf
    <2> QED  BY <1>0, <1>1, <2>1, <2>2 DEF AddFS
<1>2. ASSUME NEW fs \in FS, RemoveFS(fs) PROVE single'[h] = <<>>
    <2>1. single[h] = <<>> /\ single[h] \in Seq(FS) /\ h[1] \in Indexes
        BY <1>0, <1>2, Hierarchy DEF RemoveFS, TypeOK
    <2> DEFINE u == IndexRemove(h[1], single[h], fs)
    <2>2. u \in Seq(FS) /\ ToSet(u) \subseteq ToSet(single[h])
        BY <2>1, IndexRemoveHolds
    <2>3. ToSet(single[h]) = {}
        BY <2>1, ToSetProperties
    <2> HIDE DEF u
    <2>4. u = <<>>
        BY <2>2, <2>3, ToSetProperties
    <2> QED  BY <1>2, <2>1, <2>4 DEF RemoveFS, u
<1>3. ASSUME NEW g \in Singles, CreateIterator(g) PROVE single'[h] = <<>>
    BY <1>0, <1>3 DEF CreateIterator
<1>4. CASE DeleteIterator
    BY <1>0, <1>4 DEF DeleteIterator
<1>5. CASE Reset
    BY <1>0, <1>5 DEF Reset
<1>6. CASE UNCHANGED vars
    BY <1>0, <1>6 DEF vars
<1> QED  BY <1>1, <1>2, <1>3, <1>4, <1>5, <1>6 DEF Next

\* A type that is not recorded as used has nothing indexed, so that reset() and
\* getIndexedFSs() may pass it over.
THEOREM UnusedIsEmpty == Spec => []UsedInv
<1>1. Init => UsedInv
    BY DEF Init, UsedInv
<1> QED  BY <1>1, TypeCorrect, UsedStep, PTL DEF Spec

\* The serializers are given every feature structure that some index holds.
THEOREM SerializersAreComplete == Spec => []SerializersSeeAll
<1>1. TypeOK /\ UsedInv => SerializersSeeAll
    <2> SUFFICES ASSUME TypeOK, UsedInv, NEW h \in Singles
                 PROVE  ToSet(single[h]) \subseteq GetIndexedFSs
        BY DEF SerializersSeeAll
    <2>1. CASE h[2] \in used
        BY <2>1 DEF GetIndexedFSs
    <2>2. CASE h[2] \notin used
        BY <2>2, ToSetProperties, EmptySeq DEF UsedInv, ToSet
    <2> QED  BY <2>1, <2>2
<1> QED  BY <1>1, TypeCorrect, UnusedIsEmpty, PTL

-----------------------------------------------------------------------------
(* The caches of the composite indexes.                                    *)

LEMMA CoverStep == TypeOK /\ CoverInv /\ [Next]_vars => CoverInv'
<1> SUFFICES ASSUME TypeOK, CoverInv, [Next]_vars,
                    NEW c \in Composites, NEW t \in Subsumed[c[2]], c \in upToDate'[t]
             PROVE  ToSet(single'[<<c[1], t>>]) \subseteq cache'[c]
    BY DEF CoverInv
<1> DEFINE h == <<c[1], t>>
<1>0. /\ h \in Singles /\ h[2] = t /\ h[1] \in Indexes /\ t \in Types
      /\ c \in Singles /\ single[h] \in Seq(FS)
      /\ c \in upToDate[t] => ToSet(single[h]) \subseteq cache[c]
    BY Hierarchy DEF CoverInv, TypeOK
<1> HIDE DEF h
<1>1. ASSUME NEW fs \in FS, AddFS(fs) PROVE ToSet(single'[h]) \subseteq cache'[c]
    <2>1. t # TypeOf[fs] /\ c \in upToDate[t]
        BY <1>0, <1>1 DEF AddFS, TypeOK
    <2> QED  BY <1>0, <1>1, <2>1 DEF AddFS
<1>2. ASSUME NEW fs \in FS, RemoveFS(fs) PROVE ToSet(single'[h]) \subseteq cache'[c]
    <2>1. ToSet(IndexRemove(h[1], single[h], fs)) \subseteq ToSet(single[h])
        BY <1>0, IndexRemoveHolds
    <2> QED  BY <1>0, <1>2, <2>1 DEF RemoveFS
<1>3. ASSUME NEW g \in Singles, CreateIterator(g) PROVE ToSet(single'[h]) \subseteq cache'[c]
    <2>1. CASE g = c /\ IsDirty(g)
        <3>1. cache'[c] = Components(c)
            BY <1>3, <2>1 DEF CreateIterator, TypeOK
        <3> QED  BY <1>3, <3>1 DEF CreateIterator, Components, h
    <2>2. CASE ~(g = c /\ IsDirty(g))
        <3>1. c \in upToDate[t] /\ cache'[c] = cache[c]
            BY <1>0, <1>3, <2>2 DEF CreateIterator, ClearDirtyFlag, TypeOK
        <3> QED  BY <1>0, <1>3, <3>1 DEF CreateIterator
    <2> QED  BY <2>1, <2>2
<1>4. ASSUME DeleteIterator PROVE ToSet(single'[h]) \subseteq cache'[c]
    BY <1>0, <1>4 DEF DeleteIterator
<1>5. ASSUME Reset PROVE ToSet(single'[h]) \subseteq cache'[c]
    BY <1>0, <1>5 DEF Reset
<1>6. ASSUME UNCHANGED vars PROVE ToSet(single'[h]) \subseteq cache'[c]
    BY <1>0, <1>6 DEF vars
<1> QED  BY <1>1, <1>2, <1>3, <1>4, <1>5, <1>6 DEF Next, h

THEOREM CachesCover == Spec => []CoverInv
<1>1. Init => CoverInv
    BY Hierarchy, IndexAssumption DEF Init, CoverInv
<1> QED  BY <1>1, TypeCorrect, CoverStep, PTL DEF Spec

\* An iterator of a composite index never misses an indexed feature structure, although
\* each type keeps its flags by itself and reset() clears those of the used types only.
THEOREM NoneIsMissed == Spec => []NoneMissed
<1>1. CoverInv => NoneMissed
    BY DEF CoverInv, NoneMissed, IsDirty, Components
<1> QED  BY <1>1, CachesCover, PTL

-----------------------------------------------------------------------------
(* What is left after reset().                                             *)

LEMMA FreshStep == TypeOK /\ UsedInv /\ FreshInv /\ [Next]_vars => FreshInv'
<1> SUFFICES ASSUME TypeOK, UsedInv, FreshInv, [Next]_vars,
                    NEW c \in Composites, ~IsDirty(c)', cache'[c] # {}
             PROVE  Subsumed[c[2]] \cap used' # {}
    BY DEF FreshInv
<1>0. /\ ~IsDirty(c) /\ cache[c] # {} => Subsumed[c[2]] \cap used # {}
      /\ Subsumed[c[2]] \subseteq Types
    BY Hierarchy DEF FreshInv
<1>1. ASSUME NEW fs \in FS, AddFS(fs) PROVE Subsumed[c[2]] \cap used' # {}
    <2>1. ~IsDirty(c)
        BY <1>0, <1>1 DEF AddFS, IsDirty, TypeOK
    <2>2. used \subseteq used' /\ cache' = cache
        BY <1>1 DEF AddFS
    <2> QED  BY <1>0, <2>1, <2>2
<1>2. ASSUME NEW fs \in FS, RemoveFS(fs) PROVE Subsumed[c[2]] \cap used' # {}
    BY <1>0, <1>2 DEF RemoveFS, IsDirty
<1>3. ASSUME NEW g \in Singles, CreateIterator(g) PROVE Subsumed[c[2]] \cap used' # {}
    <2>1. CASE g = c /\ IsDirty(g)
        <3>1. cache'[c] = Components(c)
            BY <1>3, <2>1 DEF CreateIterator, TypeOK
        <3>2. PICK t \in Subsumed[c[2]] : ToSet(single[<<c[1], t>>]) # {}
            BY <3>1 DEF Components
        <3>3. <<c[1], t>> \in Singles /\ <<c[1], t>>[2] = t /\ single[<<c[1], t>>] \in Seq(FS)
            BY Hierarchy DEF TypeOK
        <3>4. t \in used
            BY <3>2, <3>3, ToSetProperties DEF UsedInv
        <3> QED  BY <1>3, <3>4 DEF CreateIterator
    <2>2. CASE ~(g = c /\ IsDirty(g))
        <3>1. ~IsDirty(c) /\ cache'[c] = cache[c]
            BY <1>0, <1>3, <2>2 DEF CreateIterator, ClearDirtyFlag, IsDirty, TypeOK
        <3> QED  BY <1>0, <1>3, <3>1 DEF CreateIterator
    <2> QED  BY <2>1, <2>2
<1>4. CASE DeleteIterator
    BY <1>0, <1>4 DEF DeleteIterator, IsDirty
<1>5. CASE Reset
    <2>1. ~IsDirty(c) /\ \A t \in Subsumed[c[2]] : t \notin used
        BY <1>0, <1>5 DEF Reset, IsDirty, TypeOK
    <2> QED  BY <1>0, <1>5, <2>1 DEF Reset
<1>6. CASE UNCHANGED vars
    BY <1>0, <1>6 DEF vars, IsDirty
<1> QED  BY <1>1, <1>2, <1>3, <1>4, <1>5, <1>6 DEF Next

\* A cache that counts as up to date and is not empty has a type below it that the next
\* reset() will find used.
THEOREM CachesAreReset == Spec => []FreshInv
<1>1. Init => FreshInv
    BY DEF Init, FreshInv
<1> QED  BY <1>1, TypeCorrect, UnusedIsEmpty, FreshStep, PTL DEF Spec

LEMMA ResetStep ==
    TypeOK /\ UsedInv /\ FreshInv /\ NothingOutlivesReset /\ [Next]_vars => NothingOutlivesReset'
<1> SUFFICES ASSUME TypeOK, UsedInv, FreshInv, NothingOutlivesReset, [Next]_vars
             PROVE  NothingOutlivesReset'
    OBVIOUS
<1>0. \A h \in Singles : single[h] \in Seq(FS) /\ h[1] \in Indexes
    BY Hierarchy DEF TypeOK
<1>1. ASSUME NEW fs \in FS, AddFS(fs) PROVE NothingOutlivesReset'
    <2>1. ASSUME NEW h \in Singles PROVE ToSet(single'[h]) \subseteq added'
        <3>1. ToSet(IndexAdd(h[1], single[h], fs)) \subseteq ToSet(single[h]) \cup {fs}
            BY <1>0, IndexAddHolds
        <3> QED  BY <1>1, <3>1 DEF AddFS, NothingOutlivesReset
    <2>2. undefined' \subseteq added'
        BY <1>1 DEF AddFS, NothingOutlivesReset
    <2>3. ASSUME NEW c \in Composites, ~IsDirty(c)' PROVE cache'[c] \subseteq added'
        <3>1. ~IsDirty(c)
            BY <1>1, <2>3, Hierarchy DEF AddFS, IsDirty, TypeOK
        <3> QED  BY <1>1, <3>1 DEF AddFS, NothingOutlivesReset
    <2> QED  BY <2>1, <2>2, <2>3 DEF NothingOutlivesReset
<1>2. ASSUME NEW fs \in FS, RemoveFS(fs) PROVE NothingOutlivesReset'
    <2>1. ASSUME NEW h \in Singles PROVE ToSet(single'[h]) \subseteq added'
        <3>1. ToSet(IndexRemove(h[1], single[h], fs)) \subseteq ToSet(single[h])
            BY <1>0, IndexRemoveHolds
        <3> QED  BY <1>2, <3>1 DEF RemoveFS, NothingOutlivesReset
    <2> QED  BY <1>2, <2>1 DEF RemoveFS, NothingOutlivesReset, IsDirty
<1>3. ASSUME NEW g \in Singles, CreateIterator(g) PROVE NothingOutlivesReset'
    <2>1. ASSUME NEW c \in Composites, ~IsDirty(c)' PROVE cache'[c] \subseteq added'
        <3>1. CASE g = c /\ IsDirty(g)
            <4>1. cache'[c] = Components(c)
                BY <1>3, <3>1 DEF CreateIterator, TypeOK
            <4>2. \A t \in Subsumed[c[2]] : <<c[1], t>> \in Singles
                BY Hierarchy
            <4>3. Components(c) \subseteq added
                BY <4>2 DEF Components, NothingOutlivesReset
            <4> QED  BY <1>3, <4>1, <4>3 DEF CreateIterator
        <3>2. CASE ~(g = c /\ IsDirty(g))
            <4>1. Subsumed[c[2]] \subseteq Types
                BY Hierarchy
            <4>2. cache'[c] = cache[c]
                BY <1>3, <3>2 DEF CreateIterator, TypeOK
            <4>3. \A t \in Subsumed[c[2]] : c \in upToDate'[t] => c \in upToDate[t]
                BY <1>3, <3>2, <4>1 DEF CreateIterator, ClearDirtyFlag, TypeOK
            <4>4. ~IsDirty(c)
                BY <2>1, <4>3 DEF IsDirty
            <4> QED  BY <1>3, <4>2, <4>4 DEF CreateIterator, NothingOutlivesReset
        <3> QED  BY <3>1, <3>2
    <2> QED  BY <1>3, <2>1 DEF CreateIterator, NothingOutlivesReset
<1>4. CASE DeleteIterator
    BY <1>4 DEF DeleteIterator, NothingOutlivesReset, IsDirty
<1>5. CASE Reset
    <2>1. ASSUME NEW h \in Singles PROVE ToSet(single'[h]) \subseteq added'
        <3>1. single'[h] = <<>>
            BY <1>5 DEF Reset, UsedInv
        <3> QED  BY <3>1 DEF ToSet
    <2>2. ASSUME NEW c \in Composites, ~IsDirty(c)' PROVE cache'[c] \subseteq added'
        <3>1. ~IsDirty(c) /\ \A t \in Subsumed[c[2]] : t \notin used
            BY <1>5, <2>2, Hierarchy DEF Reset, IsDirty, TypeOK
        <3>2. cache[c] = {}
            BY <3>1 DEF FreshInv
        <3> QED  BY <1>5, <3>2 DEF Reset
    <2> QED  BY <1>5, <2>1, <2>2 DEF Reset, NothingOutlivesReset
<1>6. CASE UNCHANGED vars
    BY <1>6 DEF vars, NothingOutlivesReset, IsDirty
<1> QED  BY <1>1, <1>2, <1>3, <1>4, <1>5, <1>6 DEF Next

\* Although reset() clears no cache and passes over the types that are not recorded as
\* used, nothing of the document before can be reached after it.
THEOREM ResetIsComplete == Spec => []NothingOutlivesReset
<1>1. Init => NothingOutlivesReset
    BY DEF Init, NothingOutlivesReset, ToSet
<1> QED  BY <1>1, TypeCorrect, UnusedIsEmpty, CachesAreReset, ResetStep, PTL DEF Spec

-----------------------------------------------------------------------------
(* Iterators.                                                              *)

\* An operation on the entries of some types is one that every index above them notices.
LEMMA DisturbStep ==
    ASSUME TypeOK, IteratorsStay, OpenInv, NEW types \in SUBSET Types, Disturb(types),
           \A h \in Singles : single'[h] # single[h] => h[2] \in types,
           \A t \in Types : t \notin types => upToDate'[t] = upToDate[t]
    PROVE  IteratorsStay' /\ OpenInv'
<1>1. \A h \in Singles : h[2] \in types => h \in UNION {Above(t) : t \in types}
    BY Hierarchy DEF Above
<1>2. IteratorsStay'
    BY <1>1 DEF Disturb, IteratorsStay
<1>3. reader' = NoIndex => ~dangling'
    BY Hierarchy DEF Disturb, OpenInv
<1>4. ASSUME reader' \in Composites, ~touched' PROVE ~IsDirty(reader)'
    <2>1. reader \in Composites /\ ~touched /\ reader' = reader /\ reader \in Singles
        BY <1>4, Hierarchy DEF Disturb
    <2>2. ASSUME NEW t \in Subsumed[reader[2]] PROVE t \notin types
        <3>1. t \in types => reader \in Above(t)
            BY <2>1 DEF Above
        <3> QED  BY <1>4, <3>1 DEF Disturb
    <2>3. ~IsDirty(reader)
        BY <2>1 DEF OpenInv
    <2>4. Subsumed[reader[2]] \subseteq Types
        BY <2>1, Hierarchy
    <2> QED  BY <2>1, <2>2, <2>3, <2>4 DEF IsDirty
<1> QED  BY <1>2, <1>3, <1>4 DEF OpenInv

LEMMA OpenStep == TypeOK /\ IteratorsStay /\ OpenInv /\ [Next]_vars => IteratorsStay' /\ OpenInv'
<1> SUFFICES ASSUME TypeOK, IteratorsStay, OpenInv, [Next]_vars PROVE IteratorsStay' /\ OpenInv'
    OBVIOUS
<1>1. ASSUME NEW fs \in FS, AddFS(fs) PROVE IteratorsStay' /\ OpenInv'
    <2>1. {TypeOf[fs]} \in SUBSET Types /\ Disturb({TypeOf[fs]})
        BY <1>1, IndexAssumption DEF AddFS
    <2>2. \A h \in Singles : single'[h] # single[h] => h[2] \in {TypeOf[fs]}
        BY <1>1 DEF AddFS
    <2>3. \A t \in Types : t \notin {TypeOf[fs]} => upToDate'[t] = upToDate[t]
        BY <1>1 DEF AddFS, TypeOK
    <2> QED  BY <2>1, <2>2, <2>3, DisturbStep
<1>2. ASSUME NEW fs \in FS, RemoveFS(fs) PROVE IteratorsStay' /\ OpenInv'
    <2>1. {TypeOf[fs]} \in SUBSET Types /\ Disturb({TypeOf[fs]})
        BY <1>2, IndexAssumption DEF RemoveFS
    <2>2. \A h \in Singles : single'[h] # single[h] => h[2] \in {TypeOf[fs]}
        BY <1>2 DEF RemoveFS
    <2>3. \A t \in Types : t \notin {TypeOf[fs]} => upToDate'[t] = upToDate[t]
        BY <1>2 DEF RemoveFS
    <2> QED  BY <2>1, <2>2, <2>3, DisturbStep
<1>3. ASSUME NEW h \in Singles, CreateIterator(h) PROVE IteratorsStay' /\ OpenInv'
    <2>1. IteratorsStay'
        <3>1. ASSUME dangling' PROVE touched
            BY <1>3, <3>1 DEF CreateIterator, IteratorsStay, OpenInv
        <3>2. dangling' => reader # NoIndex
            BY <1>3, Hierarchy DEF CreateIterator, OpenInv
        <3>3. touched' = touched \/ reader = NoIndex
            BY <1>3 DEF CreateIterator
        <3> QED  BY <3>1, <3>2, <3>3 DEF IteratorsStay
    <2>2. reader' = NoIndex => ~dangling'
        BY <1>3, Hierarchy DEF CreateIterator, OpenInv
    <2>3. \A c \in Composites : ~IsDirty(c) => ~IsDirty(c)'
        BY <1>3, Hierarchy DEF CreateIterator, ClearDirtyFlag, IsDirty, TypeOK
    <2>4. h \in Composites => ~IsDirty(h)'
        BY <1>3, Hierarchy DEF CreateIterator, ClearDirtyFlag, IsDirty, TypeOK
    <2>5. ASSUME reader' \in Composites, ~touched' PROVE ~IsDirty(reader)'
        <3>1. CASE reader' = h
            BY <2>4, <2>5, <3>1 DEF IsDirty
        <3>2. CASE reader' = reader /\ touched' = touched
            BY <2>3, <2>5, <3>2 DEF OpenInv, IsDirty
        <3> QED  BY <1>3, <3>1, <3>2 DEF CreateIterator
    <2> QED  BY <2>1, <2>2, <2>5 DEF OpenInv
<1>4. CASE DeleteIterator
    BY <1>4, Hierarchy DEF DeleteIterator, IteratorsStay, OpenInv
<1>5. CASE Reset
    <2>1. Types \in SUBSET Types /\ Disturb(Types)
        BY <1>5 DEF Reset
    <2>2. \A h \in Singles : single'[h] # single[h] => h[2] \in Types
        BY Hierarchy
    <2> QED  BY <2>1, <2>2, DisturbStep
<1>6. CASE UNCHANGED vars
    BY <1>6 DEF vars, readerVars, IteratorsStay, OpenInv, IsDirty
<1> QED  BY <1>1, <1>2, <1>3, <1>4, <1>5, <1>6 DEF Next

\* Iterators may be nested: creating one never takes the cache away under another,
\* because the first one left the cache up to date and only adding sets a flag back.
THEOREM IteratorsAreStable == Spec => []IteratorsStay
<1>1. Init => IteratorsStay /\ OpenInv
    BY Hierarchy DEF Init, IteratorsStay, OpenInv
<1>2. Spec => [](IteratorsStay /\ OpenInv)
    BY <1>1, TypeCorrect, OpenStep, PTL DEF Spec
<1> QED  BY <1>2, PTL

\* Iterators of composite indexes, nested iterators and the serializers get what add() put
\* into the indexes, for every hierarchy, index definition and content.
THEOREM ReadersAreServed == Spec => []ReadersSeeAll
<1>1. NoneMissed /\ IteratorsStay /\ SerializersSeeAll => ReadersSeeAll
    BY DEF ReadersSeeAll
<1> QED  BY <1>1, NoneIsMissed, IteratorsAreStable, SerializersAreComplete, PTL
=============================================================================
