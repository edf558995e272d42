----------------------------- MODULE Capabilities -----------------------------
(***************************************************************************)
(* CapabilityContainer: which types and features an engine has as input    *)
(* and as output for a language.  It is made from the capabilities of the  *)
(* engine's description and asked by the annotator manager before every    *)
(* call: an engine without a wanted output for the document's language is  *)
(* passed over.                                                            *)
(*                                                                         *)
(* A language is <<language, territory>>, the territory "" when there is   *)
(* none; <<"", "">> is the unspecified language.  A capability is          *)
(* [languages, inputs, outputs], all sets: a type or feature given twice   *)
(* is there once, and the order of the container's maps is not seen.       *)
(***************************************************************************)
EXTENDS Naturals, FiniteSets

CONSTANTS
    CapabilityLists,   \* the capabilities of a description
    Tofs,              \* types and features of the type system
    Languages,         \* languages a document may have
    ValidLanguages     \* the codes that are languages

VARIABLES
    kCapabilities,  \* vecCap
    kState,         \* "new", "ready", "failed"
    kInputs,        \* iv_mapLang2InputTypesOrFeatures and what it was before the closure
    kOutputs        \* the same of the outputs

kVars == <<kCapabilities, kState, kInputs, kOutputs>>

NoLanguage == <<"", "">>
TheWord == <<"x-unspecified", "">>
HasTerritory(l) == l[2] # ""
WithoutTerritory(l) == <<l[1], "">>

\* A language is spelled with two letters, or it is unspecified and has no territory.
ASSUME LanguagesAssumption ==
    /\ Languages \cup ValidLanguages \subseteq STRING \X STRING
    /\ \A l \in ValidLanguages : l[1] = "" => l = NoLanguage

EmptyMap == [l \in {} |-> {}]
NewTables == [all |-> EmptyMap, noTerritory |-> EmptyMap]

----------------------------------------------------------------------------
(* From the description *)

AsLanguage(code) == IF code = TheWord THEN NoLanguage ELSE code

\* initTypeOrFeatures(): every language of the capability has an entry, be it empty.
InitTypeOrFeatures(side) ==
    LET declared == UNION {{<<AsLanguage(c), k[side]>> : c \in k.languages} : k \in kCapabilities}
    IN  [l \in {d[1] : d \in declared} |-> UNION {d[2] : d \in {d \in declared : d[1] = l}}]

\* An unknown code throws, and so does an unknown name if there is a language at all.
CapabilityRefused ==
    \E k \in kCapabilities : \E c \in k.languages :
        AsLanguage(c) \notin ValidLanguages \/ ~(k.inputs \cup k.outputs \subseteq Tofs)

\* copyEntriesForUnspecifedLanguage(): what holds for every language is put to the
\* entries that have something, the outputs only when there is such an input, too.
WithUnspecified(map) ==
    [l \in DOMAIN map |-> IF map[l] = {} THEN {} ELSE map[l] \cup map[NoLanguage]]

IsCopied(inputs) == NoLanguage \in DOMAIN inputs /\ inputs[NoLanguage] # {}

CopyEntries(inputs, map) == IF IsCopied(inputs) THEN WithUnspecified(map) ELSE map

Entry(map, l) == IF l \in DOMAIN map THEN map[l] ELSE {}
TerritoriesOf(map, l) == {t \in DOMAIN map : HasTerritory(t) /\ WithoutTerritory(t) = l}

\* A mutant: what a territory adds to its language is seen by its other territories.
UpBeforeDown(map) ==
    LET langs == DOMAIN map \cup {WithoutTerritory(l) : l \in DOMAIN map}
        up == [l \in langs |-> Entry(map, l) \cup UNION {map[t] : t \in TerritoriesOf(map, l)}]
    IN  [l \in langs |-> up[l] \cup up[WithoutTerritory(l)]]

\* computeClosure(): a territory has what its language has, then the language what
\* its territories have.
ComputeClosure(map) ==
    LET langs == DOMAIN map \cup {WithoutTerritory(l) : l \in DOMAIN map}
        down == [l \in langs |-> Entry(map, l) \cup Entry(map, WithoutTerritory(l))]
    IN  [l \in langs |-> down[l] \cup UNION {down[t] : t \in TerritoriesOf(map, l)}]

\* The languages as they were before the closure.
NoTerritoryMap(map) == [l \in {l \in DOMAIN map : ~HasTerritory(l)} |-> map[l]]

Tables(map) == [all |-> ComputeClosure(map), noTerritory |-> NoTerritoryMap(map)]

InitContainer ==
    /\ kState = "new"
    /\ LET inputs == InitTypeOrFeatures("inputs")
           outputs == InitTypeOrFeatures("outputs")
       IN  IF CapabilityRefused
           THEN kState' = "failed" /\ UNCHANGED <<kInputs, kOutputs>>
           ELSE /\ kState' = "ready"
                /\ kInputs' = Tables(CopyEntries(inputs, inputs))
                /\ kOutputs' = Tables(CopyEntries(inputs, outputs))
    /\ UNCHANGED kCapabilities

----------------------------------------------------------------------------
(* The questions.  A pointer to a set is {} when it is null, {S} when it is to S. *)

\* findTOFs(): the language itself, otherwise its language part without what its
\* territories added.  No caller asks for the strict match only.
FindTofs(tables, l) ==
    IF l \in DOMAIN tables.all THEN {tables.all[l]}
    ELSE {tables.noTerritory[m] : m \in {m \in DOMAIN tables.noTerritory : m = WithoutTerritory(l)}}

OrUnspecified(tables, l) ==
    IF FindTofs(tables, l) # {} THEN FindTofs(tables, l)
    ELSE {tables.all[m] : m \in {m \in DOMAIN tables.all : m = NoLanguage}}

FindInputTofs(l) == OrUnspecified(kInputs, l)
FindOutputTofs(l) == OrUnspecified(kOutputs, l)

GetInputTypeOrFeatures(l) == UNION FindInputTofs(l)
GetOutputTypeOrFeatures(l) == UNION FindOutputTofs(l)

HasInputTypeOrFeature(tof, l) == tof \in GetInputTypeOrFeatures(l)
HasOutputTypeOrFeature(tof, l) == tof \in GetOutputTypeOrFeatures(l)

\* No entry at all is not an empty one.
HasEmptyOutputTypeOrFeatures(l) == FindOutputTofs(l) = {{}}

IsCalled(wanted, l) ==
    HasEmptyOutputTypeOrFeatures(l) \/ \E tof \in wanted : HasOutputTypeOrFeature(tof, l)

----------------------------------------------------------------------------
KInit ==
    /\ kCapabilities \in CapabilityLists
    /\ kState = "new"
    /\ kInputs = NewTables /\ kOutputs = NewTables

KNext == InitContainer

KSpec == KInit /\ [][KNext]_kVars

----------------------------------------------------------------------------
(* Properties *)

Declares(k, l) == \E c \in k.languages : AsLanguage(c) = l
Declared(side, l) == UNION {k[side] : k \in {k \in kCapabilities : Declares(k, l)}}
IsDeclared(l) == \E k \in kCapabilities : Declares(k, l)

\* Languages whose capabilities may count for a document in l: itself, its language
\* without the territory, every language, and the territories of a bare language.
Related(l) == {l, WithoutTerritory(l), NoLanguage}
              \cup (IF HasTerritory(l) THEN {} ELSE {t \in ValidLanguages : WithoutTerritory(t) = l})

\* The capabilities are those that were declared: nothing of another language, or of
\* another territory of the same language, gets into the answer for a document's
\* language, whatever the copies for the unspecified language and the closure over
\* territories did; and what was declared for the document's own language, or for this
\* without its territory, is in it.  An engine is called only for a language it was
\* declared for, and is called whenever a wanted output was declared for that language.
CapabilitiesServe ==
    kState = "ready" =>
        \A l \in Languages :
            /\ GetInputTypeOrFeatures(l) \subseteq UNION {Declared("inputs", m) : m \in Related(l)}
            /\ GetOutputTypeOrFeatures(l) \subseteq UNION {Declared("outputs", m) : m \in Related(l)}
            /\ Declared("inputs", l) \subseteq GetInputTypeOrFeatures(l)
            /\ Declared("outputs", l) \subseteq GetOutputTypeOrFeatures(l)
            /\ Declared("outputs", WithoutTerritory(l)) \subseteq GetOutputTypeOrFeatures(l)
            /\ ~IsDeclared(NoLanguage) =>
                   \A wanted \in SUBSET Tofs :
                       IsCalled(wanted, l) => \E m \in Related(l) : IsDeclared(m)

\* "we need for each normal language the set-union with **" (comment at
\* copyEntriesForUnspecifedLanguage()): an output of every language is one of each
\* language that declares outputs.
UnspecifiedServesAll ==
    kState = "ready" =>
        \A l \in Languages :
            Declared("outputs", l) # {} =>
                Declared("outputs", NoLanguage) \subseteq GetOutputTypeOrFeatures(l)
=============================================================================
