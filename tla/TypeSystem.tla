------------------------------- MODULE TypeSystem -------------------------------
(***************************************************************************)
(* How the type system and the index definitions of a CAS are made from a  *)
(* descriptor, committed, and sent to another process: as the tables of a  *)
(* SerializedCAS or as the XML of a type hierarchy.  A type or feature is  *)
(* the number under which it was created, in the source an index of the    *)
(* vectors of lowlevel::TypeSystem.                                        *)
(***************************************************************************)
EXTENDS Integers, Sequences, FiniteSets, SequencesExt, TLC

CONSTANTS
    Builtin,      \* the built-in types in the order they are made, each [name, super]
    StringType,   \* the number of the built-in type of strings
    Final,        \* numbers of the built-in types that have neither subtypes nor features of their own
    Inputs        \* the descriptors, each with
                  \* types: a sequence of [name, super, allowed, features], features of [name, range, multi]
                  \* priorities: a sequence of chains of type names
                  \* indexes: a sequence of [label, kind, type, keys], keys of [feature, reverse]

VARIABLES
    input,        \* the descriptor
    stage,        \* what is done next, or "failed"
    ts,           \* the type system
    indexes,      \* the index definitions: label :> [kind, type, keys]
    order,        \* the type priorities that commit() computes
    copy          \* the type system of the receiver

typeVars == <<input, stage, ts, indexes, order, copy>>

None == "none"
Invalid == 0
Top == 1

Types(t) == DOMAIN t.names
FeatureNumbers(t) == DOMAIN t.feats

\* reset(): the built-in types; their features are left out.
PredefinedTypes ==
    [names |-> [i \in DOMAIN Builtin |-> Builtin[i].name],
     parents |-> [i \in DOMAIN Builtin |->
                    CHOOSE p \in DOMAIN Builtin : Builtin[p].name = Builtin[i].super],
     feats |-> <<>>, strings |-> <<>>, pairs |-> {}, custom |-> FALSE, error |-> None]

Refused(t, why) == [t EXCEPT !.error = why]

\* getTypeByName()
TypeByName(t, name) ==
    IF name \in Range(t.names) THEN CHOOSE i \in Types(t) : t.names[i] = name ELSE Invalid

\* subsumes(): the supertypes of a type, itself included.  Parents are made before their children.
Supertypes(t, type) ==
    LET above[i \in Types(t)] == {i} \cup (IF i = Top THEN {} ELSE above[t.parents[i]])
    IN  above[type]

\* Features that are introduced, in their order.
Introduced(t, type) == SelectSeq([f \in FeatureNumbers(t) |-> f], LAMBDA f : t.feats[f].intro = type)

\* getFeatureByBaseName(): from the type upwards, Top excluded.
FeatureByName(t, type, name) ==
    LET named == {f \in FeatureNumbers(t) : t.feats[f].base = name /\ t.feats[f].intro \in Supertypes(t, type) \ {Top}}
        nearest == {f \in named : \A g \in named : t.feats[g].intro <= t.feats[f].intro}
    IN  IF named = {} THEN Invalid ELSE Min(nearest)

\* createTypeNoChecks()
WithType(t, parent, name) ==
    IF name \in Range(t.names) THEN Refused(t, "type exists")
    ELSE [t EXCEPT !.names = Append(@, name), !.parents = Append(@, parent)]

\* createStringSubtype()
WithStringSubtype(t, name, allowed) ==
    [WithType(t, StringType, name) EXCEPT !.strings = ((Len(t.names) + 1) :> allowed) @@ @]

\* createType()
CreateType(t, parent, name) ==
    IF parent \in Final THEN Refused(t, "final type") ELSE WithType(t, parent, name)

\* createFeature()
CreateFeature(t, intro, range, multi, name) ==
    CASE intro \in Final \cup {Top} -> Refused(t, "final type")
      [] FeatureByName(t, intro, name) # Invalid -> Refused(t, "feature exists")
      [] OTHER -> [t EXCEPT !.feats = Append(@, [intro |-> intro, base |-> name, range |-> range, multi |-> multi])]

-----------------------------------------------------------------------------
(* Merging a descriptor *)

Description(types, name) == types[CHOOSE i \in DOMAIN types : types[i].name = name]
Described(types, name) == \E i \in DOMAIN types : types[i].name = name

\* The check that two lists have the same strings: it looks for one that is different from each.
SameStrings(known, allowed) ==
    /\ Len(known) = Len(allowed)
    /\ \A i \in DOMAIN known : \E j \in DOMAIN allowed : known[i] # allowed[j]

\* mergeType() for a type whose supertype has been merged.
MergeOne(t, types, name) ==
    LET type == TypeByName(t, name)
        d == Description(types, name)
        parent == TypeByName(t, d.super)
    IN  CASE t.error # None -> t
          [] ~Described(types, name) -> IF type = Invalid THEN Refused(t, "unknown type") ELSE t
          [] parent = StringType /\ type = Invalid -> WithStringSubtype(t, name, d.allowed)
          [] parent = StringType /\ type # Invalid ->
                IF SameStrings(t.strings[type], d.allowed) THEN t ELSE Refused(t, "other strings")
          [] parent # StringType /\ type = Invalid -> CreateType(t, parent, name)
          [] OTHER -> IF t.parents[type] = parent THEN t ELSE Refused(t, "other parent")

\* The type and the described types above it, the topmost first.
Hierarchy(types, name) ==
    LET up[k \in 0 .. Len(types)] ==
            IF k = 0 THEN <<name>>
            ELSE LET s == up[k - 1]
                 IN  IF Described(types, Head(s)) THEN <<Description(types, Head(s)).super>> \o s ELSE s
    IN  up[Len(types)]

MergeType(t, types, name) == FoldLeft(LAMBDA u, n : MergeOne(u, types, n), t, Hierarchy(types, name))

\* The features of a type.
MergeFeature(t, intro, f) ==
    LET range == TypeByName(t, f.range)
        known == FeatureByName(t, intro, f.name)
    IN  CASE t.error # None -> t
          [] range = Invalid -> Refused(t, "unknown range type")
          [] known # Invalid -> IF t.feats[known].range = range THEN t ELSE Refused(t, "other range type")
          [] OTHER -> CreateFeature(t, intro, range, f.multi, f.name)

\* mergeTypeSystem(): all types, then the features of each.
MergedTypes(t, types) == FoldLeft(LAMBDA u, d : MergeType(u, types, d.name), t, types)
MergedFeatures(t, types) ==
    FoldLeft(LAMBDA u, d : FoldLeft(LAMBDA w, f : MergeFeature(w, TypeByName(w, d.name), f), u, d.features), t, types)

-----------------------------------------------------------------------------
(* Type priorities *)

\* topologicalSort(): the first type none of whose predecessors is left comes next.
TopologicalSort(n, pairs) ==
    LET upTo[k \in 0 .. n] ==
            IF k = 0 THEN <<>>
            ELSE LET s == upTo[k - 1]
                     free == {i \in (1 .. n) \ Range(s) : \A p \in pairs : p[2] = i => p[1] \in Range(s)}
                 IN  IF free = {} THEN s ELSE Append(s, Min(free))
    IN  upTo[n]
HasCycle(n, pairs) == Len(TopologicalSort(n, pairs)) < n

\* addTypePriority(): that there are any is remembered also when this one is refused.
AddTypePriority(t, p) ==
    IF HasCycle(Len(t.names), t.pairs \cup {p}) THEN Refused([t EXCEPT !.custom = TRUE], "priority conflict")
    ELSE [t EXCEPT !.custom = TRUE, !.pairs = @ \cup {p}]

ConsecutivePairs(s) == [i \in 1 .. Len(s) - 1 |-> <<s[i], s[i + 1]>>]

\* CASDefinition::addTypePriorities()
AddTypePriorities(t, chains) ==
    FoldLeft(LAMBDA u, p :
                LET p1 == TypeByName(u, p[1])
                    p2 == TypeByName(u, p[2])
                IN  CASE u.error # None -> u
                      [] Invalid \in {p1, p2} -> Refused(u, "unknown type")
                      [] OTHER -> AddTypePriority(u, <<p1, p2>>),
             t, FlattenSeq([i \in DOMAIN chains |-> ConsecutivePairs(chains[i])]))

\* computePreOrder() of the tree with siblings in the order of "sorted".
PreOrder(t, sorted) ==
    LET under[i \in Types(t)] ==
            <<i>> \o FlattenSeq([k \in DOMAIN sorted |->
                        IF t.parents[sorted[k]] = i /\ sorted[k] # Top THEN under[sorted[k]] ELSE <<>>])
    IN  under[Top]

\* A mutant: the order of the tree is added although it contradicts what the descriptor says.
PriorityClosureForced(t) ==
    LET n == Len(t.names)
    IN  IF t.custom THEN PreOrder(t, TopologicalSort(n, t.pairs)) ELSE TopologicalSort(n, t.pairs)
\* computeTypePriorityClosure(): custom priorities are completed by the order of the tree when it
\* contradicts none of them.
PriorityClosure(t) ==
    LET n == Len(t.names)
        tree == Range(ConsecutivePairs(PreOrder(t, TopologicalSort(n, t.pairs))))
        all == IF t.custom /\ ~HasCycle(n, t.pairs \cup tree) THEN t.pairs \cup tree ELSE t.pairs
    IN  TopologicalSort(n, all)

-----------------------------------------------------------------------------
(* Offsets *)

\* computeApprop()
FeatureNumber(t, type) ==
    LET number[i \in Types(t)] ==
            IF i = Top THEN 0 ELSE number[t.parents[i]] + Len(Introduced(t, i))
    IN  number[type]

Appropriate(t, type) == {f \in FeatureNumbers(t) : t.feats[f].intro \in Supertypes(t, type) \ {Top}}
FeatureOffset(t, f) ==
    LET type == t.feats[f].intro
        own == Introduced(t, type)
    IN  FeatureNumber(t, t.parents[type]) + CHOOSE i \in DOMAIN own : own[i] = f

-----------------------------------------------------------------------------
(* Index definitions and comparators *)

\* createIndexesFromSpecifier() and defineIndex(): a key without a feature is the type priority and
\* not reversed; a label that is there must be defined in the same way.
DefineIndex(t, defined, d) ==
    LET type == TypeByName(t, d.type)
        keys == [i \in DOMAIN d.keys |->
                    IF d.keys[i].feature = None THEN [feature |-> Invalid, reverse |-> FALSE]
                    ELSE [feature |-> FeatureByName(t, type, d.keys[i].feature), reverse |-> d.keys[i].reverse]]
        new == [kind |-> d.kind, type |-> type, keys |-> keys]
        old == defined.defs[d.label]
        known == d.label \in DOMAIN defined.defs
        unknownKey == \E i \in DOMAIN keys : d.keys[i].feature # None /\ keys[i].feature = Invalid
    IN  CASE defined.error # None -> defined
          [] type = Invalid -> [defined EXCEPT !.error = "unknown type"]
          [] type # Invalid /\ unknownKey -> [defined EXCEPT !.error = "unknown feature"]
          [] type # Invalid /\ ~unknownKey /\ ~known -> [defined EXCEPT !.defs = (d.label :> new) @@ @]
          \* the comparator of a bag is not kept and not compared
          [] OTHER -> IF old.kind = new.kind /\ old.type = new.type /\ (old.kind = "bag" \/ old.keys = new.keys)
                      THEN defined ELSE [defined EXCEPT !.error = "other definition"]

Position(s, x) == CHOOSE i \in DOMAIN s : s[i] = x

\* What one key says of two feature structures: 1 when the first is less, -1 when it is greater.
Sign(a, b) == CASE a < b -> 1 [] a = b -> 0 [] a > b -> -1
CompareKey(t, prio, key, a, b) ==
    LET natural == IF key.feature = Invalid THEN Sign(Position(prio, a.type), Position(prio, b.type))
                   ELSE Sign(a.val[FeatureOffset(t, key.feature)], b.val[FeatureOffset(t, key.feature)])
    IN  IF key.reverse THEN -natural ELSE natural

\* IndexComparator::compare(): the first key that decides.
Compare(t, prio, keys, a, b) ==
    LET c == [i \in DOMAIN keys |-> CompareKey(t, prio, keys[i], a, b)]
        deciding == {i \in DOMAIN keys : c[i] # 0}
    IN  IF deciding = {} THEN 0 ELSE c[Min(deciding)]

-----------------------------------------------------------------------------
(* The type system in a SerializedCAS *)

\* serializeTypeSystem() and serializeIndexDefinition(); a bag is sent without keys.
Tables(t, prio, defs) ==
    [inheritance |-> t.parents, typeNames |-> t.names,
     features |-> [f \in FeatureNumbers(t) |-> <<t.feats[f].intro, t.feats[f].range, t.feats[f].multi>>],
     featureNames |-> [f \in FeatureNumbers(t) |-> t.feats[f].base],
     offsets |-> [f \in FeatureNumbers(t) |-> FeatureOffset(t, f)],
     priorities |-> prio, strings |-> t.strings,
     indexes |-> [l \in DOMAIN defs |-> IF defs[l].kind = "bag" THEN [defs[l] EXCEPT !.keys = <<>>] ELSE defs[l]]]

\* createNewTypesAndFeatures()
CreatedTypes(tables) ==
    FoldLeft(LAMBDA u, i : IF tables.inheritance[i] = StringType
                           THEN WithStringSubtype(u, tables.typeNames[i], tables.strings[i])
                           ELSE WithType(u, tables.inheritance[i], tables.typeNames[i]),
             PredefinedTypes,
             [k \in 1 .. Len(tables.typeNames) - Len(Builtin) |-> Len(Builtin) + k])
CreatedFeatures(t, tables) ==
    FoldLeft(LAMBDA u, f : LET d == tables.features[f]
                           IN  CreateFeature(u, d[1], d[2], d[3], tables.featureNames[f]),
             t, [f \in DOMAIN tables.features |-> f])

\* deserializeTypeSystem(): the whole order becomes custom priorities.
ReceivedTypes(tables) ==
    LET t == CreatedFeatures(CreatedTypes(tables), tables)
    IN  FoldLeft(AddTypePriority, t, ConsecutivePairs(tables.priorities))

-----------------------------------------------------------------------------
(* The type hierarchy in XML *)

\* XMLTypeSystemWriter: a tree of types, each with the features it introduces; neither the strings
\* of a string subtype nor whether a feature allows multiple references are written.
XmlTree(t) ==
    LET preOrder == PreOrder(t, [i \in Types(t) |-> i])
    IN  [k \in DOMAIN preOrder |->
            LET i == preOrder[k]
                own == Introduced(t, i)
            IN  [name |-> t.names[i], super |-> t.names[t.parents[i]],
                 features |-> [j \in DOMAIN own |->
                                [name |-> t.feats[own[j]].base, range |-> t.names[t.feats[own[j]].range]]]]]

\* createType(): a type that is there must have the same parent.
XmlType(t, d) ==
    LET type == TypeByName(t, d.name)
        parent == TypeByName(t, d.super)
    IN  CASE t.error # None \/ d.name = t.names[Top] -> t
          [] type = Invalid -> CreateType(t, parent, d.name)
          [] OTHER -> IF t.parents[type] = parent THEN t ELSE Refused(t, "wrong parent type")

\* createFeatures(): a feature that is there must be introduced by the same type.
XmlFeature(t, intro, f) ==
    LET known == FeatureByName(t, intro, f.name)
        range == TypeByName(t, f.range)
    IN  CASE t.error # None -> t
          [] known = Invalid -> CreateFeature(t, intro, range, FALSE, f.name)
          [] OTHER -> IF t.feats[known].intro = intro /\ t.feats[known].range = range THEN t
                      ELSE Refused(t, "wrong feature")

\* XMLTypeSystemReader::read() into a type system that is fresh.
XmlRead(tree) ==
    LET withTypes == FoldLeft(XmlType, PredefinedTypes, tree)
    IN  FoldLeft(LAMBDA u, d : FoldLeft(LAMBDA w, f : XmlFeature(w, TypeByName(w, d.name), f), u, d.features),
                 withTypes, tree)

-----------------------------------------------------------------------------
(* The steps of CASDefinition::createCASDefinition() and of a transfer *)

Continue(t, next) == /\ ts' = t
                     /\ stage' = IF t.error = None THEN next ELSE "failed"

MergeTypes ==
    /\ stage = "types"
    /\ Continue(MergedTypes(ts, input.types), "features")
    /\ UNCHANGED <<input, indexes, order, copy>>
MergeFeatures ==
    /\ stage = "features"
    /\ Continue(MergedFeatures(ts, input.types), "priorities")
    /\ UNCHANGED <<input, indexes, order, copy>>
MergePriorities ==
    /\ stage = "priorities"
    /\ Continue(AddTypePriorities(ts, input.priorities), "commit")
    /\ UNCHANGED <<input, indexes, order, copy>>
Commit ==
    /\ stage = "commit"
    /\ order' = PriorityClosure(ts)
    /\ stage' = "indexes"
    /\ UNCHANGED <<input, ts, indexes, copy>>
CreateIndexes ==
    /\ stage = "indexes"
    /\ LET made == FoldLeft(LAMBDA u, d : DefineIndex(ts, u, d), [defs |-> indexes, error |-> None], input.indexes)
       IN  /\ indexes' = made.defs
           /\ stage' = IF made.error = None THEN "made" ELSE "failed"
    /\ UNCHANGED <<input, ts, order, copy>>
SendTables ==
    /\ stage = "made"
    /\ copy' = ReceivedTypes(Tables(ts, order, indexes))
    /\ stage' = "sent"
    /\ UNCHANGED <<input, ts, indexes, order>>
SendXml ==
    /\ stage = "made"
    /\ copy' = XmlRead(XmlTree(ts))
    /\ stage' = "written"
    /\ UNCHANGED <<input, ts, indexes, order>>

Init ==
    /\ input \in Inputs
    /\ stage = "types"
    /\ ts = PredefinedTypes /\ copy = PredefinedTypes
    /\ indexes = <<>> /\ order = <<>>

Next == MergeTypes \/ MergeFeatures \/ MergePriorities \/ Commit \/ CreateIndexes \/ SendTables \/ SendXml

Spec == Init /\ [][Next]_typeVars

-----------------------------------------------------------------------------
(* Properties *)

\* A feature of a type that is described after a subtype with a feature of the same name is made
\* although the subtype has one: its name then stands for the one of the subtype.
Hidden(t, f) ==
    \E g \in FeatureNumbers(t) : /\ g # f /\ t.feats[g].base = t.feats[f].base
                           /\ t.feats[f].intro \in Supertypes(t, t.feats[g].intro)

\* What a descriptor says holds of the type system, whatever the order it says it in: a type has
\* the parent of its description, a feature can be found by its name and has its range.
TypesAreAsDescribed ==
    stage \notin {"types", "features", "failed"} =>
        \A d \in Range(input.types) :
            LET type == TypeByName(ts, d.name)
            IN  /\ type # Invalid /\ ts.names[ts.parents[type]] = d.super
                /\ ts.parents[type] = StringType => ts.strings[type] = d.allowed
                /\ \A f \in Range(d.features) :
                      LET found == FeatureByName(ts, type, f.name)
                      IN  found # Invalid /\ ts.names[ts.feats[found].range] = f.range

\* The features that are appropriate for a type have the slots from 1 to their number, each its own,
\* so that a feature structure of the type has room for all of them; also for two of the same name.
SlotsAreExact ==
    stage = "indexes" =>
        \A type \in Types(ts) :
            /\ {FeatureOffset(ts, f) : f \in Appropriate(ts, type)} = 1 .. FeatureNumber(ts, type)
            /\ Cardinality(Appropriate(ts, type)) = FeatureNumber(ts, type)

\* The priorities are an order of all types that keeps every chain of the descriptor; a descriptor is
\* refused for a conflict only when its chains contradict each other.
PrioritiesKeepChains ==
    LET said == UNION {Range(ConsecutivePairs(c)) : c \in Range(input.priorities)}
    IN  /\ stage = "indexes" =>
              /\ Range(order) = Types(ts) /\ Len(order) = Len(ts.names)
              /\ \A p \in said : Position(order, TypeByName(ts, p[1])) < Position(order, TypeByName(ts, p[2]))
        /\ ts.error = "priority conflict" =>
              HasCycle(Len(ts.names), {<<TypeByName(ts, p[1]), TypeByName(ts, p[2])>> : p \in said})

\* The feature structures a property looks at: all that have 1 or 2 in every slot.
Samples(t, type) ==
    UNION {[type : {i}, val : [1 .. FeatureNumber(t, i) -> {1, 2}]] :
           i \in {j \in Types(t) : type \in Supertypes(t, j)}}

\* The comparator of an index orders the feature structures of its type and all subtypes: one way
\* round is the opposite of the other, and what comes before is passed on.
CompareIsAnOrder ==
    stage = "made" =>
        \A l \in DOMAIN indexes :
            LET all == Samples(ts, indexes[l].type)
                C(a, b) == Compare(ts, order, indexes[l].keys, a, b)
            IN  \A a, b \in all :
                    /\ C(a, b) = -C(b, a)
                    /\ \A c \in all : C(a, b) >= 0 /\ C(b, c) >= 0 => C(a, c) >= 0

\* The receiver of the tables gives every type, feature and offset the number the sender has for it,
\* which the heap it is sent relies on, and computes the same priorities.
TablesKeepNumbers ==
    stage = "sent" =>
        /\ copy.error = None
        /\ copy.names = ts.names /\ copy.parents = ts.parents /\ copy.feats = ts.feats
        /\ copy.strings = ts.strings
        /\ PriorityClosure(copy) = order

\* What the writer of type hierarchies wrote is read back: by name the same types, and for each the
\* same features in the same slots.  It is refused when there is a string subtype, which the reader
\* makes like any other type, or a feature that hides another.
XmlReadsBack ==
    stage = "written" =>
        IF DOMAIN ts.strings # {} \/ \E f \in FeatureNumbers(ts) : Hidden(ts, f) THEN copy.error # None
        ELSE /\ copy.error = None
             /\ Range(copy.names) = Range(ts.names)
             /\ \A i \in Types(ts) : LET j == TypeByName(copy, ts.names[i])
                    IN  /\ copy.names[copy.parents[j]] = ts.names[ts.parents[i]]
                        /\ \A f \in Appropriate(ts, i) : LET g == FeatureByName(copy, j, ts.feats[f].base)
                               IN  g # Invalid /\ FeatureOffset(copy, g) = FeatureOffset(ts, f)

\* "check that string occurs in the allowed values": a string subtype that is merged again with the
\* strings it has is not refused.
EqualStringsAreAccepted == ts.error # "other strings"
=============================================================================
