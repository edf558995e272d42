--------------------------- MODULE AnnotatorContext ---------------------------
(***************************************************************************)
(* The contexts of an engine and its delegates: one AnnotatorContext per   *)
(* component, built over the component's description.  A context maps its  *)
(* sofa names, reads and writes configuration parameters through its       *)
(* ancestors, and serves CASes of a pool (annotator_context.cpp,           *)
(* caspool.cpp).                                                           *)
(*                                                                         *)
(* A context is the path of delegate keys that leads to it.  The           *)
(* descriptions outlive the contexts: an engine made from a description    *)
(* writes into it, and the next engine made from it starts from there.     *)
(***************************************************************************)
EXTENDS Configuration, SequencesExt

CONSTANTS
    PathOrder,       \* the components, parents before delegates, keys ascending
    Descriptions,    \* [meta, mappings] per component, and the CASes the engine's annotator asks for
    DefaultTextSofa, \* CAS::NAME_DEFAULT_TEXT_SOFA
    LocalNames,      \* sofa names an annotator asks for
    Groups, Pairs,   \* what an annotator assigns
    MaxBuilds, MaxAssigns

ASSUME PathOrderAssumption ==
    /\ PathOrder \in Seq(Seq(STRING))
    /\ PathOrder # <<>> /\ PathOrder[1] = <<>>
    /\ \A i \in 2 .. Len(PathOrder) :
           \E j \in 1 .. i - 1 : PathOrder[j] = Front(PathOrder[i])

Contexts == Range(PathOrder)

\* Each component has its metadata, and a pool has a number of CASes.
ASSUME DescriptionsAssumption ==
    \A d \in Descriptions :
        /\ d.pool \in Nat
        /\ d.meta = [c \in Contexts |-> d.meta[c]]
        /\ \A c \in Contexts : IsMetaData(d.meta[c])

\* The names of groups are sequences of parts.
ASSUME GroupsAssumption == Groups \cup {WhenNoGroups} \subseteq Seq(STRING)

Root == <<>>
Parent(c) == Front(c)
Key(c) == IF c = Root THEN NoKey ELSE Last(c)
Ancestors(c) == {SubSeq(c, 1, n) : n \in 0 .. Len(c) - 1}
NoGroup == <<"no group">>

VARIABLES
    meta,      \* AnalysisEngineMetaData of each description
    mappings,  \* iv_SofaMappings of each description
    sofaMap,   \* iv_mapSofaMappings of each live context
    live,      \* there is an engine over the descriptions
    free,      \* CASPool::iv_vecFreeInstances
    filled,    \* CASes holding something
    size,      \* CASPool's numInstances, getCasInstancesRequired()
    builds, assigns,
    described, \* history: the sofa mappings as they were described
    last       \* history: the last assignment, if any

contextVars == <<meta, mappings, sofaMap, live, free, filled, size, builds, assigns, described, last>>

ContextInit ==
    /\ \E d \in Descriptions : meta = d.meta /\ mappings = d.mappings /\ described = d.mappings /\ size = d.pool
    /\ sofaMap = [c \in Contexts |-> <<>>]
    /\ live = FALSE
    /\ free = <<>> /\ filled = {}
    /\ builds = 0 /\ assigns = 0
    /\ last = <<>>

-----------------------------------------------------------------------------
(* Construction *)

WithDefaultName(m) == IF m.component = NoKey THEN [m EXCEPT !.component = DefaultTextSofa] ELSE m

\* The parent's name takes the place of the aggregate's in the mappings of its
\* delegates: one replacement after the other, in the order of the parent's mappings.
Rename(own, m) ==
    [i \in DOMAIN own |->
        IF own[i].aggregate = m.component THEN [own[i] EXCEPT !.aggregate = m.aggregate] ELSE own[i]]

\* One context is made: the parent's mappings for its key become its own map,
\* and its description's mappings are rewritten by them.
AdoptMappings(made, c) ==
    IF c = Root THEN made
    ELSE LET given == [i \in DOMAIN made.mappings[Parent(c)] |->
                          IF made.mappings[Parent(c)][i].key = Key(c)
                          THEN WithDefaultName(made.mappings[Parent(c)][i])
                          ELSE made.mappings[Parent(c)][i]]
             mine == SelectSeq(given, LAMBDA m : m.key = Key(c))
         IN  [mappings |-> [made.mappings EXCEPT ![Parent(c)] = given,
                                                 ![c] = FoldLeft(Rename, @, mine)],
              sofaMap |-> [made.sofaMap EXCEPT
                              ![c] = FoldLeft(LAMBDA f, m : Put(f, m.component, m.aggregate), <<>>, mine)]]

\* AnnotatorContext(taeSpec), buildDelegateAnCs(), and defineCASPool() when the
\* engine's annotator asks for CASes.
Build ==
    /\ ~live /\ builds < MaxBuilds
    /\ LET made == FoldLeft(AdoptMappings,
                            [mappings |-> mappings, sofaMap |-> [c \in Contexts |-> <<>>]], PathOrder)
       IN  /\ mappings' = made.mappings
           /\ sofaMap' = made.sofaMap
    /\ live' = TRUE
    /\ builds' = builds + 1
    /\ free' = [i \in 1 .. size |-> i]
    /\ filled' = {}
    /\ UNCHANGED <<meta, size, assigns, described, last>>

\* ~AnnotatorContext(): the contexts, their maps and the pool go, the description stays.
Destroy ==
    /\ live
    /\ live' = FALSE
    /\ sofaMap' = [c \in Contexts |-> <<>>]
    /\ free' = <<>> /\ filled' = {}
    /\ last' = <<>>
    /\ UNCHANGED <<meta, mappings, size, builds, assigns, described>>

\* mapToSofaID() remembers that an unmapped name maps to itself.
MappedSofa(c, name) == IF name \in DOMAIN sofaMap[c] THEN sofaMap[c][name] ELSE name

MapToSofaID(c, name) ==
    /\ live
    /\ sofaMap' = [sofaMap EXCEPT ![c] = Put(@, name, MappedSofa(c, name))]
    /\ UNCHANGED <<meta, mappings, live, free, filled, size, builds, assigns, described, last>>

-----------------------------------------------------------------------------
(* Configuration parameters *)

SetLocally(c, group, pair) ==
    IF group = NoGroup THEN SetNameValuePair(meta[c], pair) ELSE SetNameValuePairIn(meta[c], group, pair)

\* setNameValuePair(): the topmost description that takes the pair keeps it.
Takers(c, group, pair) ==
    {a \in Ancestors(c) \cup {c} : SetLocally(a, group, pair).error = "none"}

Topmost(paths) == CHOOSE a \in paths : \A b \in paths : Len(a) <= Len(b)

Assign(c, group, pair) ==
    /\ live /\ assigns < MaxAssigns
    /\ assigns' = assigns + 1
    /\ LET takers == Takers(c, group, pair)
           keeper == IF takers = {} THEN c ELSE Topmost(takers)
           result == SetLocally(keeper, group, pair)
       IN  /\ meta' = [meta EXCEPT ![keeper] = result.md]
           /\ last' = <<[context |-> c, group |-> group, pair |-> pair, error |-> result.error]>>
    /\ UNCHANGED <<mappings, sofaMap, live, free, filled, size, builds, described>>

\* assignValue() makes a pair of the type and multiplicity of what it is given.
AssignValue(c, pair) == Assign(c, NoGroup, pair)
AssignValueIn(c, group, pair) == Assign(c, group, pair)

FindLocally(c, group, name, strategy, ancKey) ==
    IF group = NoGroup THEN GetNameValuePair(meta[c], name, ancKey)
    ELSE GetNameValuePairIn(meta[c], group, name, strategy, ancKey)

\* What the component n levels below the root knows when c asks: by the strategy of c,
\* and with the key of the child the question comes from.
LookUp(c, n, group, name) ==
    FindLocally(SubSeq(c, 1, n), group, name, meta[c].strategy, IF n = Len(c) THEN NoKey ELSE c[n + 1])

\* mutant: what is found locally wins.
FindNameValuePairLocally(c, group, name) ==
    LET local == FindLocally(c, group, name, meta[c].strategy, NoKey)
    IN  IF local.kind # "missing" \/ c = Root THEN local
        ELSE FindLocally(Parent(c), group, name, meta[c].strategy, Key(c))

\* findNameValuePair(): the local lookup comes first and may throw; what the parent
\* throws is caught, what it finds wins.
FindNameValuePair(c, group, name) ==
    LET find[n \in 0 .. Len(c)] ==
            LET parent == IF n = 0 THEN Missing ELSE find[n - 1]
            IN  IF LookUp(c, n, group, name).kind = "throws" \/ parent.kind # "found"
                THEN LookUp(c, n, group, name)
                ELSE parent
    IN  find[Len(c)]

ValueOf(found, type, multi) ==
    IF found.kind # "found" THEN [kind |-> found.kind, value |-> NoValue]
    ELSE Extract(found.pair, type, multi)

ExtractValue(c, name, type, multi) ==
    ValueOf(FindNameValuePair(c, NoGroup, name), type, multi)

ExtractValueIn(c, group, name, type, multi) ==
    ValueOf(FindNameValuePair(c, group, name), type, multi)

IsParameterDefinedIn(c, group, name) == IsParameterDefined(meta[c], group, name, NoKey)

\* getGroupNamesForParameter() adds up what the ancestors declare, as far as there are groups.
GroupNames(c, name) ==
    LET names[n \in 0 .. Len(c)] ==
            GroupNamesForParameter(meta[SubSeq(c, 1, n)], name)
            \cup (IF n > 0 /\ meta[SubSeq(c, 1, n)].hasGroups THEN names[n - 1] ELSE {})
    IN  names[Len(c)]

-----------------------------------------------------------------------------
(* CASPool: a caller gives back what it was given. *)

GetEmptyCAS ==
    /\ live /\ free # <<>>
    /\ free' = Tail(free)
    /\ UNCHANGED <<meta, mappings, sofaMap, live, filled, size, builds, assigns, described, last>>

FillCAS ==
    /\ live
    /\ \E cas \in 1 .. size \ Range(free) : filled' = filled \cup {cas}
    /\ UNCHANGED <<meta, mappings, sofaMap, live, free, size, builds, assigns, described, last>>

\* mutant: the CAS goes back without a reset.
ReleaseCASAsItIs ==
    /\ live
    /\ \E cas \in 1 .. size \ Range(free) : free' = Append(free, cas)
    /\ UNCHANGED <<meta, mappings, sofaMap, live, filled, size, builds, assigns, described, last>>

ReleaseCAS ==
    /\ live
    /\ \E cas \in 1 .. size \ Range(free) :
           /\ filled' = filled \ {cas}
           /\ free' = Append(free, cas)
    /\ UNCHANGED <<meta, mappings, sofaMap, live, size, builds, assigns, described, last>>

-----------------------------------------------------------------------------
ContextNext ==
    \/ Build
    \/ Destroy
    \/ \E c \in Contexts, n \in LocalNames : MapToSofaID(c, n)
    \/ \E c \in Contexts, p \in Pairs : AssignValue(c, p)
    \/ \E c \in Contexts, g \in Groups, p \in Pairs : AssignValueIn(c, g, p)
    \/ GetEmptyCAS \/ FillCAS \/ ReleaseCAS

ContextSpec == ContextInit /\ [][ContextNext]_contextVars

-----------------------------------------------------------------------------
(* Properties *)

\* The sofa a name of a component stands for, followed upwards through the
\* descriptions as they were written.
DescribedNames(c) == {WithDefaultName(m) : m \in {m \in Range(described[Parent(c)]) : m.key = Key(c)}}

SofaOf(c, name) ==
    LET of[n \in 0 .. Len(c)] ==
            [x \in {name} \cup UNION {{m.aggregate : m \in Range(described[a])} : a \in Contexts} |->
                LET up == {m \in DescribedNames(SubSeq(c, 1, n)) : m.component = x}
                IN  IF n = 0 \/ up = {} THEN x
                    ELSE of[n - 1][(CHOOSE m \in up : TRUE).aggregate]]
    IN  of[Len(c)][name]

\* No name that stands for another sofa of the aggregate's surroundings is itself
\* a name of the aggregate that is mapped.
NamesAreApart(c) ==
    \A m, n \in DescribedNames(c) : m.component # n.component => m.aggregate # n.component

SofaNameComposes(c) ==
    \A name \in DOMAIN sofaMap[c] :
        (c # Root /\ \E m \in DescribedNames(c) : m.component = name) => sofaMap[c][name] = SofaOf(c, name)

\* The sofa an annotator gets for a mapped name is the one its aggregates' mappings
\* lead to, level by level, also for the second engine made from one description
\* (the constructor rewrites the description), as long as names are kept apart.
SofaNamesCompose ==
    \A c \in Contexts :
        (\A a \in Ancestors(c) : a # Root => NamesAreApart(a)) => SofaNameComposes(c)

\* The comment of the constructor: the aggregate sofa name of a delegate's mapping
\* that is a component sofa name is updated to what the parent maps it to.
MappingsAreUpdated == \A c \in Contexts : SofaNameComposes(c)

\* No component between the asking one and the keeper refuses the lookup with an exception,
\* and no one above the keeper has a value of its own, be it in a group it falls back to.
IsVisible(c, group, pair, keeper) ==
    /\ \A n \in 0 .. Len(keeper) - 1 : LookUp(c, n, group, pair.name).kind # "found"
    /\ \A n \in Len(keeper) .. Len(c) : LookUp(c, n, group, pair.name).kind # "throws"

ReadsBack(a) ==
    LET read == IF a.group = NoGroup
                THEN ExtractValue(a.context, a.pair.name, a.pair.type, a.pair.multi)
                ELSE ExtractValueIn(a.context, a.group, a.pair.name, a.pair.type, a.pair.multi)
    IN  read.kind = "value" /\ read.value = a.pair.value

\* A value that assignValue() accepted, kept by whichever ancestor takes it first, is what
\* extractValue() of the same context returns next, unless a component on the way throws
\* or one above the keeper overrides it.
AssignmentIsRead ==
    \A a \in Range(last) :
        (a.error = "none" /\ IsVisible(a.context, a.group, a.pair, Topmost(Takers(a.context, a.group, a.pair))))
        => ReadsBack(a)

\* The same without the premise: an accepted assignment is read by the context that made it.
AcceptedIsRead == \A a \in Range(last) : a.error = "none" => ReadsBack(a)

\* annotator_context.hpp: calls to extractValue for each of the returned groups will succeed.
GroupNamesServe ==
    live => \A c \in Contexts, p \in Pairs : \A g \in GroupNames(c, p.name) :
                FindNameValuePair(c, g, p.name).kind # "throws"

\* A value is refused or kept, and what was refused changes no description: neither
\* the asking component's nor that of an ancestor that was tried before.
RefusalChangesNothing ==
    [][(last' # last /\ \E a \in Range(last') : a.error # "none") => meta' = meta]_contextVars

\* A CAS of the pool is free or with one user, and a free one holds nothing.
PoolIsExact ==
    /\ IsInjective(free)
    /\ filled \cap Range(free) = {}
    /\ live => Range(free) \subseteq 1 .. size
=============================================================================
