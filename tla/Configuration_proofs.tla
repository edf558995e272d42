------------------------ MODULE Configuration_proofs ------------------------
(***************************************************************************)
(* What configures an engine, for every description: the capability        *)
(* container, the pool of CASes, what a refused parameter leaves and who   *)
(* reads an accepted one.                                                  *)
(*                                                                         *)
(* First what the container's tables say of a language: what was declared, *)
(* what the copies for the unspecified language and the closure over       *)
(* territories add.  Then one invariant of the contexts after the other.   *)
(***************************************************************************)
EXTENDS AnnotatorContext, Capabilities, SequenceTheorems, WellFoundedInduction, TLAPS

-----------------------------------------------------------------------------
(* Capabilities *)


\* What the container is made from: each declared language with all that was declared
\* for it, and perhaps what was declared for every language.
HasDeclared(map, side) ==
    /\ \A l : l \in DOMAIN map <=> IsDeclared(l)
    /\ \A l \in DOMAIN map :
           /\ Declared(side, l) \subseteq map[l]
           /\ map[l] \subseteq Declared(side, l) \cup Declared(side, NoLanguage)

LEMMA DeclaredTable ==
    ASSUME NEW side
    PROVE  LET map == InitTypeOrFeatures(side) IN
               /\ \A l : l \in DOMAIN map <=> IsDeclared(l)
               /\ \A l \in DOMAIN map : map[l] = Declared(side, l)
<1> DEFINE declared == UNION {{<<AsLanguage(c), k[side]>> : c \in k.languages} : k \in kCapabilities}
           map == InitTypeOrFeatures(side)
<1>1. map = [l \in {d[1] : d \in declared} |-> UNION {d[2] : d \in {d \in declared : d[1] = l}}]
    BY DEF InitTypeOrFeatures
<1>2. \A d : d \in declared <=> \E k \in kCapabilities : \E c \in k.languages : d = <<AsLanguage(c), k[side]>>
    OBVIOUS
<1> HIDE DEF declared
<1>3. ASSUME NEW l PROVE l \in DOMAIN map <=> IsDeclared(l)
    <2>1. ASSUME l \in DOMAIN map PROVE IsDeclared(l)
        <3>1. PICK d \in declared : d[1] = l
            BY <2>1, <1>1
        <3>2. PICK k \in kCapabilities : \E c \in k.languages : d = <<AsLanguage(c), k[side]>>
            BY <1>2
        <3> QED  BY <3>1, <3>2 DEF IsDeclared, Declares
    <2>2. ASSUME IsDeclared(l) PROVE l \in DOMAIN map
        <3>1. PICK k \in kCapabilities : \E c \in k.languages : AsLanguage(c) = l
            BY <2>2 DEF IsDeclared, Declares
        <3>2. <<l, k[side]>> \in declared
            BY <3>1, <1>2
        <3> QED  BY <3>2, <1>1
    <2> QED  BY <2>1, <2>2
<1>4. ASSUME NEW l \in DOMAIN map PROVE map[l] = Declared(side, l)
    <2>1. map[l] = UNION {d[2] : d \in {d \in declared : d[1] = l}}
        BY <1>1
    <2>2. ASSUME NEW x \in map[l] PROVE x \in Declared(side, l)
        <3>1. PICK d \in declared : d[1] = l /\ x \in d[2]
            BY <2>1, <2>2
        <3>2. PICK k \in kCapabilities : \E c \in k.languages : d = <<AsLanguage(c), k[side]>>
            BY <1>2
        <3>3. Declares(k, l) /\ x \in k[side]
            BY <3>1, <3>2 DEF Declares
        <3> QED  BY <3>3 DEF Declared
    <2>3. ASSUME NEW x \in Declared(side, l) PROVE x \in map[l]
        <3>1. PICK k \in kCapabilities : Declares(k, l) /\ x \in k[side]
            BY <2>3 DEF Declared
        <3>2. PICK c \in k.languages : AsLanguage(c) = l
            BY <3>1 DEF Declares
        <3>3. <<l, k[side]>> \in declared
            BY <3>2, <1>2
        <3> QED  BY <3>1, <3>3, <2>1
    <2> QED  BY <2>2, <2>3
<1> QED  BY <1>3, <1>4

LEMMA CopiedTable ==
    ASSUME NEW side
    PROVE  HasDeclared(CopyEntries(InitTypeOrFeatures("inputs"), InitTypeOrFeatures(side)), side)
<1> DEFINE inputs == InitTypeOrFeatures("inputs")
           map == InitTypeOrFeatures(side)
<1>1. /\ \A l : l \in DOMAIN map <=> IsDeclared(l)
      /\ \A l \in DOMAIN map : map[l] = Declared(side, l)
    BY DeclaredTable
<1>2. \A l : l \in DOMAIN inputs <=> IsDeclared(l)
    BY DeclaredTable
<1> HIDE DEF inputs, map
<1>3. CASE ~IsCopied(inputs)
    <2>1. CopyEntries(inputs, map) = map
        BY <1>3 DEF CopyEntries
    <2> QED  BY <2>1, <1>1 DEF HasDeclared, inputs, map
<1>4. CASE IsCopied(inputs)
    <2> DEFINE copy == [l \in DOMAIN map |-> IF map[l] = {} THEN {} ELSE map[l] \cup map[NoLanguage]]
    <2>1. CopyEntries(inputs, map) = copy
        BY <1>4 DEF CopyEntries, WithUnspecified
    <2>2. map[NoLanguage] = Declared(side, NoLanguage)
        BY <1>1, <1>2, <1>4 DEF IsCopied
    <2>3. HasDeclared(copy, side)
        BY <2>2, <1>1 DEF HasDeclared
    <2> QED  BY <2>1, <2>3 DEF inputs, map
<1> QED  BY <1>3, <1>4

\* The closure over territories: an entry of a language keeps what it had, and has of other
\* languages only what its own language without the territory or its territories had.
LEMMA ClosureIsRelated ==
    ASSUME NEW map, NEW side, HasDeclared(map, side), ~CapabilityRefused,
           NEW l \in DOMAIN ComputeClosure(map)
    PROVE  /\ Entry(map, l) \cup Entry(map, WithoutTerritory(l)) \subseteq ComputeClosure(map)[l]
           /\ ComputeClosure(map)[l] \subseteq UNION {Declared(side, m) : m \in Related(l)}
           /\ \E m \in Related(l) : IsDeclared(m)
           /\ l = NoLanguage => IsDeclared(NoLanguage)
<1> DEFINE langs == DOMAIN map \cup {WithoutTerritory(t) : t \in DOMAIN map}
           down == [k \in langs |-> Entry(map, k) \cup Entry(map, WithoutTerritory(k))]
           related == UNION {Declared(side, m) : m \in Related(l)}
<1>1. ComputeClosure(map) = [k \in langs |-> down[k] \cup UNION {down[t] : t \in TerritoriesOf(map, k)}]
    BY DEF ComputeClosure
<1>2. l \in langs
    BY <1>1
<1>3. ASSUME NEW t \in DOMAIN map
      PROVE  t \in ValidLanguages /\ t \in STRING \X STRING /\ IsDeclared(t)
    BY <1>3, LanguagesAssumption DEF HasDeclared, IsDeclared, Declares, CapabilityRefused
<1>5. ASSUME NEW m \in Related(l) PROVE Entry(map, m) \subseteq related
    BY <1>5 DEF HasDeclared, Entry, Related
<1>6. ASSUME NEW t \in TerritoriesOf(map, l)
      PROVE  /\ t \in DOMAIN map /\ t \in Related(l) /\ WithoutTerritory(t) = l
             /\ down[t] = Entry(map, t) \cup Entry(map, l)
    <2>1. t \in DOMAIN map /\ WithoutTerritory(t) = l
        BY <1>6 DEF TerritoriesOf
    <2>2. ~HasTerritory(l)
        BY <2>1 DEF HasTerritory, WithoutTerritory
    <2>3. t \in ValidLanguages
        BY <2>1, <1>3
    <2> QED  BY <2>1, <2>2, <2>3 DEF Related
<1>7. WithoutTerritory(l) \in Related(l) /\ l \in Related(l)
    BY DEF Related
<1>8. down[l] \subseteq related
    BY <1>2, <1>5, <1>7
<1>9. \A t \in TerritoriesOf(map, l) : down[t] \subseteq related
    BY <1>5, <1>6, <1>7
<1>10. ComputeClosure(map)[l] = down[l] \cup UNION {down[t] : t \in TerritoriesOf(map, l)}
    BY <1>1, <1>2
<1>11. (\E m \in Related(l) : IsDeclared(m)) /\ (l = NoLanguage => IsDeclared(NoLanguage))
    <2>1. CASE l \in DOMAIN map
        BY <2>1, <1>3, <1>7
    <2>2. CASE l \notin DOMAIN map
        <3>1. PICK t \in DOMAIN map : l = WithoutTerritory(t)
            BY <1>2, <2>2
        <3>2. ~HasTerritory(l)
            BY <3>1 DEF HasTerritory, WithoutTerritory
        <3>3. t \in Related(l) /\ IsDeclared(t)
            BY <3>1, <3>2, <1>3 DEF Related
        <3>4. l = NoLanguage => t = NoLanguage
            BY <3>1, <1>3, LanguagesAssumption DEF WithoutTerritory, NoLanguage
        <3> QED  BY <3>3, <3>4
    <2> QED  BY <2>1, <2>2
<1>12. Entry(map, l) \cup Entry(map, WithoutTerritory(l)) \subseteq ComputeClosure(map)[l]
    BY <1>10, <1>2
<1>13. ComputeClosure(map)[l] \subseteq related
    BY <1>8, <1>9, <1>10
<1> QED  BY <1>11, <1>12, <1>13

\* Only what was declared for every language gets into the entry of the unspecified one:
\* no language is a territory of it.
LEMMA NothingAboveUnspecified ==
    ASSUME NEW map, NEW side, HasDeclared(map, side), ~CapabilityRefused,
           NoLanguage \in DOMAIN ComputeClosure(map)
    PROVE  ComputeClosure(map)[NoLanguage] \subseteq Declared(side, NoLanguage)
<1> DEFINE langs == DOMAIN map \cup {WithoutTerritory(t) : t \in DOMAIN map}
           down == [k \in langs |-> Entry(map, k) \cup Entry(map, WithoutTerritory(k))]
<1>1. ComputeClosure(map) = [k \in langs |-> down[k] \cup UNION {down[t] : t \in TerritoriesOf(map, k)}]
    BY DEF ComputeClosure
<1>2. NoLanguage \in langs /\ WithoutTerritory(NoLanguage) = NoLanguage
    BY <1>1 DEF WithoutTerritory, NoLanguage
<1>3. TerritoriesOf(map, NoLanguage) = {}
    <2>1. SUFFICES ASSUME NEW t \in TerritoriesOf(map, NoLanguage) PROVE FALSE
        OBVIOUS
    <2>2. t \in DOMAIN map /\ HasTerritory(t) /\ t[1] = ""
        BY DEF TerritoriesOf, WithoutTerritory, NoLanguage
    <2>3. t \in ValidLanguages
        BY <2>2 DEF HasDeclared, IsDeclared, Declares, CapabilityRefused
    <2>4. t = NoLanguage
        BY <2>2, <2>3, LanguagesAssumption
    <2> QED  BY <2>2, <2>4 DEF HasTerritory, NoLanguage
<1>4. ComputeClosure(map)[NoLanguage] = Entry(map, NoLanguage)
    BY <1>1, <1>2, <1>3
<1>5. Entry(map, NoLanguage) \subseteq Declared(side, NoLanguage)
    BY DEF Entry, HasDeclared
<1> QED  BY <1>4, <1>5

\* What findTOFs() answers for a language of a document, with what it falls back to.
LEMMA AnswerIsRelated ==
    ASSUME NEW map, NEW side, HasDeclared(map, side), ~CapabilityRefused, NEW l \in Languages
    PROVE  /\ UNION OrUnspecified(Tables(map), l) \subseteq UNION {Declared(side, m) : m \in Related(l)}
           /\ Declared(side, l) \subseteq UNION OrUnspecified(Tables(map), l)
           /\ Declared(side, WithoutTerritory(l)) \subseteq UNION OrUnspecified(Tables(map), l)
           /\ OrUnspecified(Tables(map), l) # {} =>
                  IsDeclared(NoLanguage) \/ \E m \in Related(l) : IsDeclared(m)
<1> DEFINE tables == Tables(map)
           all == ComputeClosure(map)
           bare == WithoutTerritory(l)
           related == UNION {Declared(side, m) : m \in Related(l)}
           answer == OrUnspecified(tables, l)
<1>1. tables.all = all /\ tables.noTerritory = NoTerritoryMap(map)
    BY DEF Tables
<1>2. DOMAIN all = DOMAIN map \cup {WithoutTerritory(t) : t \in DOMAIN map}
    BY DEF ComputeClosure
<1>3. bare \in Related(l) /\ l \in Related(l) /\ NoLanguage \in Related(l) /\ ~HasTerritory(bare)
    BY DEF Related, HasTerritory, WithoutTerritory
<1>4. ASSUME NEW m \in {l, bare}, m \notin DOMAIN map PROVE Declared(side, m) = {}
    BY <1>4 DEF HasDeclared, IsDeclared, Declared
<1>5. ASSUME NEW m \in Related(l) PROVE Declared(side, m) \subseteq related
    OBVIOUS
<1>6. CASE l \in DOMAIN all
    <2>1. answer = {all[l]}
        BY <1>1, <1>6 DEF OrUnspecified, FindTofs
    <2>2. /\ Entry(map, l) \cup Entry(map, bare) \subseteq all[l]
          /\ all[l] \subseteq related
          /\ \E m \in Related(l) : IsDeclared(m)
        BY <1>6, ClosureIsRelated
    <2>3. Declared(side, l) \subseteq Entry(map, l) /\ Declared(side, bare) \subseteq Entry(map, bare)
        BY <1>4 DEF HasDeclared, Entry
    <2> QED  BY <2>1, <2>2, <2>3
<1>7. CASE l \notin DOMAIN all /\ bare \in DOMAIN map
    <2>1. NoTerritoryMap(map) = [m \in {m \in DOMAIN map : ~HasTerritory(m)} |-> map[m]]
        BY DEF NoTerritoryMap
    <2>2. bare \in DOMAIN NoTerritoryMap(map) /\ NoTerritoryMap(map)[bare] = map[bare]
        BY <2>1, <1>3, <1>7
    <2>3. FindTofs(tables, l) = {map[bare]}
        BY <2>2, <1>1, <1>7 DEF FindTofs
    <2>4. answer = {map[bare]}
        BY <2>3 DEF OrUnspecified
    <2>5. /\ Declared(side, bare) \subseteq map[bare]
          /\ map[bare] \subseteq Declared(side, bare) \cup Declared(side, NoLanguage)
          /\ IsDeclared(bare)
        BY <1>7 DEF HasDeclared
    <2>6. Declared(side, l) = {}
        BY <1>2, <1>4, <1>7
    <2> QED  BY <2>4, <2>5, <2>6, <1>3, <1>5
<1>8. CASE l \notin DOMAIN all /\ bare \notin DOMAIN map
    <2>1. DOMAIN NoTerritoryMap(map) \subseteq DOMAIN map
        BY DEF NoTerritoryMap
    <2>2. FindTofs(tables, l) = {}
        BY <2>1, <1>1, <1>8 DEF FindTofs
    <2>3. answer = {all[m] : m \in {m \in DOMAIN all : m = NoLanguage}}
        BY <2>2, <1>1 DEF OrUnspecified
    <2>4. Declared(side, l) = {} /\ Declared(side, bare) = {}
        BY <1>2, <1>4, <1>8
    <2>5. CASE NoLanguage \notin DOMAIN all
        <3>1. answer = {}
            BY <2>3, <2>5
        <3> QED  BY <3>1, <2>4
    <2>6. CASE NoLanguage \in DOMAIN all
        <3>1. answer = {all[NoLanguage]}
            BY <2>3, <2>6
        <3>2. IsDeclared(NoLanguage)
            BY <2>6, ClosureIsRelated
        <3>3. all[NoLanguage] \subseteq Declared(side, NoLanguage)
            BY <2>6, NothingAboveUnspecified
        <3> QED  BY <3>1, <3>2, <3>3, <2>4, <1>3, <1>5
    <2> QED  BY <2>5, <2>6
<1> QED  BY <1>6, <1>7, <1>8

\* A container that is ready was made of the capabilities, and these were accepted.
TablesAreMade ==
    kState = "ready" =>
        LET inputs == InitTypeOrFeatures("inputs") IN
        /\ ~CapabilityRefused
        /\ kInputs = Tables(CopyEntries(inputs, inputs))
        /\ kOutputs = Tables(CopyEntries(inputs, InitTypeOrFeatures("outputs")))

LEMMA TablesAreMadeInit == KInit => TablesAreMade
    BY DEF KInit, TablesAreMade

LEMMA TablesAreMadeStep == TablesAreMade /\ [KNext]_kVars => TablesAreMade'
<1> SUFFICES ASSUME TablesAreMade, [KNext]_kVars PROVE TablesAreMade'
    OBVIOUS
<1>1. kCapabilities' = kCapabilities
    BY DEF KNext, kVars, InitContainer
<1>2. /\ CapabilityRefused' <=> CapabilityRefused
      /\ InitTypeOrFeatures("inputs")' = InitTypeOrFeatures("inputs")
      /\ InitTypeOrFeatures("outputs")' = InitTypeOrFeatures("outputs")
    BY <1>1 DEF CapabilityRefused, InitTypeOrFeatures
<1>3. CASE UNCHANGED kVars
    BY <1>2, <1>3 DEF kVars, TablesAreMade
<1>4. CASE InitContainer
    BY <1>2, <1>4 DEF InitContainer, TablesAreMade
<1> QED  BY <1>3, <1>4 DEF KNext

LEMMA TablesServe == TablesAreMade => CapabilitiesServe
<1> SUFFICES ASSUME TablesAreMade, kState = "ready", NEW l \in Languages
             PROVE  /\ GetInputTypeOrFeatures(l) \subseteq UNION {Declared("inputs", m) : m \in Related(l)}
                    /\ GetOutputTypeOrFeatures(l) \subseteq UNION {Declared("outputs", m) : m \in Related(l)}
                    /\ Declared("inputs", l) \subseteq GetInputTypeOrFeatures(l)
                    /\ Declared("outputs", l) \subseteq GetOutputTypeOrFeatures(l)
                    /\ Declared("outputs", WithoutTerritory(l)) \subseteq GetOutputTypeOrFeatures(l)
                    /\ ~IsDeclared(NoLanguage) =>
                           \A wanted \in SUBSET Tofs :
                               IsCalled(wanted, l) => \E m \in Related(l) : IsDeclared(m)
    BY DEF CapabilitiesServe
<1>1. PICK inputs, outputs :
          /\ kInputs = Tables(inputs) /\ HasDeclared(inputs, "inputs")
          /\ kOutputs = Tables(outputs) /\ HasDeclared(outputs, "outputs")
    BY CopiedTable DEF TablesAreMade
<1>2. ~CapabilityRefused
    BY DEF TablesAreMade
<1>3. /\ GetInputTypeOrFeatures(l) \subseteq UNION {Declared("inputs", m) : m \in Related(l)}
      /\ Declared("inputs", l) \subseteq GetInputTypeOrFeatures(l)
    BY <1>1, <1>2, AnswerIsRelated DEF GetInputTypeOrFeatures, FindInputTofs
<1>4. /\ GetOutputTypeOrFeatures(l) \subseteq UNION {Declared("outputs", m) : m \in Related(l)}
      /\ Declared("outputs", l) \subseteq GetOutputTypeOrFeatures(l)
      /\ Declared("outputs", WithoutTerritory(l)) \subseteq GetOutputTypeOrFeatures(l)
      /\ FindOutputTofs(l) # {} => IsDeclared(NoLanguage) \/ \E m \in Related(l) : IsDeclared(m)
    BY <1>1, <1>2, AnswerIsRelated DEF GetOutputTypeOrFeatures, FindOutputTofs
<1>5. ASSUME NEW wanted, IsCalled(wanted, l) PROVE FindOutputTofs(l) # {}
    BY <1>5 DEF IsCalled, HasEmptyOutputTypeOrFeatures, HasOutputTypeOrFeature, GetOutputTypeOrFeatures
<1> QED  BY <1>3, <1>4, <1>5

\* Whatever an engine declares, for whichever languages, the container answers for a document's
\* language with what was declared for it or for a related one, and with nothing less
\* (CapabilityContainer in internal_capability_container.cpp).
THEOREM CapabilitiesAlwaysServe == KSpec => []CapabilitiesServe
<1>1. KSpec => []TablesAreMade
    BY TablesAreMadeInit, TablesAreMadeStep, PTL DEF KSpec
<1> QED  BY <1>1, TablesServe, PTL

-----------------------------------------------------------------------------
(* Contexts *)


\* A CAS is in the pool's list once, and nothing else is.
PoolFits ==
    /\ size \in Nat
    /\ free \in Seq(1 .. size)
    /\ \A i, j \in 1 .. Len(free) : free[i] = free[j] => i = j
    /\ \A i \in 1 .. Len(free) : free[i] \notin filled

LEMMA PoolFitsInit == ContextInit => PoolFits
<1> SUFFICES ASSUME ContextInit PROVE PoolFits
    OBVIOUS
<1>1. size \in Nat
    BY DescriptionsAssumption DEF ContextInit
<1>2. free = <<>> /\ Len(<<>>) = 0 /\ <<>> \in Seq(1 .. size)
    BY DEF ContextInit
<1> QED  BY <1>1, <1>2 DEF PoolFits

LEMMA PoolFitsStep == PoolFits /\ [ContextNext]_contextVars => PoolFits'
<1> SUFFICES ASSUME PoolFits, [ContextNext]_contextVars PROVE PoolFits'
    OBVIOUS
<1>l. Len(free) \in Nat /\ Range(free) = {free[i] : i \in 1 .. Len(free)}
    BY DEF PoolFits, Range
<1>0. CASE UNCHANGED <<free, filled, size>>
    BY <1>0 DEF PoolFits
<1>1. CASE Build
    <2>1. size' = size /\ free' = [i \in 1 .. size |-> i] /\ filled' = {}
        BY <1>1 DEF Build
    <2>2. free' \in Seq(1 .. size') /\ Len(free') = size
        BY <2>1 DEF PoolFits
    <2> QED  BY <2>1, <2>2 DEF PoolFits
<1>2. CASE Destroy
    <2>1. size' = size /\ free' = <<>> /\ filled' = {}
        BY <1>2 DEF Destroy
    <2> QED  BY <2>1 DEF PoolFits
<1>3. CASE GetEmptyCAS
    <2>1. free # <<>> /\ free' = Tail(free) /\ size' = size /\ filled' = filled
        BY <1>3 DEF GetEmptyCAS
    <2>2. /\ free' \in Seq(1 .. size)
          /\ Len(free') = Len(free) - 1
          /\ \A i \in 1 .. Len(free') : free'[i] = free[i + 1]
        BY <2>1, HeadTailProperties DEF PoolFits
    <2> QED  BY <2>1, <2>2, <1>l DEF PoolFits
<1>4. CASE FillCAS
    <2>1. PICK cas \in (1 .. size) \ Range(free) : filled' = filled \cup {cas}
        BY <1>4 DEF FillCAS
    <2>2. free' = free /\ size' = size
        BY <1>4 DEF FillCAS
    <2> QED  BY <2>1, <2>2, <1>l DEF PoolFits
<1>5. CASE ReleaseCAS
    <2>1. PICK cas \in (1 .. size) \ Range(free) : filled' = filled \ {cas} /\ free' = Append(free, cas)
        BY <1>5 DEF ReleaseCAS
    <2>2. size' = size
        BY <1>5 DEF ReleaseCAS
    <2>3. /\ free' \in Seq(1 .. size)
          /\ Len(free') = Len(free) + 1
          /\ \A i \in 1 .. Len(free) : free'[i] = free[i]
          /\ free'[Len(free) + 1] = cas
        BY <2>1 DEF PoolFits
    <2>4. \A i \in 1 .. Len(free') : i \in 1 .. Len(free) \/ i = Len(free) + 1
        BY <2>3, <1>l
    <2>5. \A i \in 1 .. Len(free) : free[i] # cas
        BY <2>1, <1>l
    <2>6. \A i, j \in 1 .. Len(free') : free'[i] = free'[j] => i = j
        BY <2>3, <2>4, <2>5 DEF PoolFits
    <2>7. \A i \in 1 .. Len(free') : free'[i] \notin filled'
        BY <2>1, <2>3, <2>4 DEF PoolFits
    <2> QED  BY <2>2, <2>3, <2>6, <2>7 DEF PoolFits
<1>6. ASSUME NEW c, NEW n, MapToSofaID(c, n) PROVE UNCHANGED <<free, filled, size>>
    BY <1>6 DEF MapToSofaID
<1>7. ASSUME NEW c, NEW g, NEW p, Assign(c, g, p) PROVE UNCHANGED <<free, filled, size>>
    BY <1>7 DEF Assign
<1> QED
    BY <1>0, <1>1, <1>2, <1>3, <1>4, <1>5, <1>6, <1>7 DEF ContextNext, AssignValue, AssignValueIn, contextVars

\* However CASes are taken, filled and given back, and the engine is made again: none is given
\* out twice, and what is given out is empty (CASPool in caspool.cpp).
THEOREM PoolIsAlwaysExact == ContextSpec => []PoolIsExact
<1>1. ContextSpec => []PoolFits
    BY PoolFitsInit, PoolFitsStep, PTL DEF ContextSpec
<1>2. PoolFits => PoolIsExact
    <2> SUFFICES ASSUME PoolFits PROVE PoolIsExact
        OBVIOUS
    <2>1. DOMAIN free = 1 .. Len(free) /\ \A i \in 1 .. Len(free) : free[i] \in 1 .. size
        BY DEF PoolFits
    <2> QED  BY <2>1 DEF PoolFits, PoolIsExact, IsInjective, Range
<1> QED  BY <1>1, <1>2, PTL

\* A parameter is refused before anything of the metadata is changed.
LEMMA RefusedUnchanged ==
    ASSUME NEW c, NEW group, NEW pair, SetLocally(c, group, pair).error # "none"
    PROVE  SetLocally(c, group, pair).md = meta[c]
<1>1. ASSUME NEW md, NEW g, SetNameValuePairIn(md, g, pair).error # "none"
      PROVE  SetNameValuePairIn(md, g, pair).md = md
    <2>1. ASSUME NEW error PROVE Refused(error, md).md = md
        BY DEF Refused
    <2>2. AddNameValuePair(md, g, pair).error # "none" => AddNameValuePair(md, g, pair).md = md
        BY DEF AddNameValuePair, Done, Refused
    <2> QED  BY <1>1, <2>1, <2>2 DEF SetNameValuePairIn
<1> QED  BY <1>1 DEF SetLocally, SetNameValuePair

\* A set of numbers has a least one.
LEMMA LeastNumber ==
    ASSUME NEW S \in SUBSET Nat, S # {}
    PROVE  \E n \in S : \A m \in S : n <= m
<1>1. PICK n \in S : \A m \in S : ~(<<m, n>> \in OpToRel(<, Nat))
    BY WFMin, NatLessThanWellFounded
<1>2. \A m \in S : n <= m
    <2>1. TAKE m \in S
    <2>2. <<m, n>> \in Nat \X Nat
        OBVIOUS
    <2> QED  BY <1>1, <2>2 DEF OpToRel
<1> QED  BY <1>2

\* Of the components that take a pair one is the topmost.
LEMMA TopmostTakes ==
    ASSUME NEW c \in Contexts, NEW paths \in SUBSET (Ancestors(c) \cup {c}), paths # {}
    PROVE  Topmost(paths) \in paths
<1> DEFINE lengths == {Len(a) : a \in paths}
<1>1. \A a \in paths : Len(a) \in Nat
    <2>1. c \in Seq(STRING)
        BY PathOrderAssumption DEF Contexts, Range
    <2>2. ASSUME NEW n \in 0 .. Len(c) - 1 PROVE Len(SubSeq(c, 1, n)) \in Nat
        BY <2>1
    <2> QED  BY <2>1, <2>2 DEF Ancestors
<1>2. lengths \in SUBSET Nat /\ lengths # {}
    BY <1>1
<1>3. PICK n \in lengths : \A m \in lengths : n <= m
    <2> HIDE DEF lengths
    <2> QED  BY <1>2, LeastNumber
<1>4. PICK a \in paths : \A b \in paths : Len(a) <= Len(b)
    BY <1>3
<1> QED  BY <1>4 DEF Topmost

\* The components above a component are components.
LEMMA PrefixIsContext ==
    ASSUME NEW c \in Contexts, NEW n \in 0 .. Len(c)
    PROVE  SubSeq(c, 1, n) \in Contexts
<1>1. \A d \in Contexts : d \in Seq(STRING)
    BY PathOrderAssumption DEF Contexts, Range
<1>2. ASSUME NEW d \in Contexts, d # <<>> PROVE Front(d) \in Contexts
    <2>1. PICK i \in 1 .. Len(PathOrder) : PathOrder[i] = d
        BY PathOrderAssumption DEF Contexts, Range
    <2>2. i # 1
        BY <2>1, <1>2, PathOrderAssumption
    <2>3. PICK j \in 1 .. i - 1 : PathOrder[j] = Front(d)
        <3>1. i \in 2 .. Len(PathOrder)
            BY <2>2, PathOrderAssumption
        <3>2. \E j \in 1 .. i - 1 : PathOrder[j] = Front(PathOrder[i])
            BY <3>1, PathOrderAssumption
        <3> QED  BY <3>2, <2>1
    <2>4. j \in DOMAIN PathOrder
        BY PathOrderAssumption
    <2> QED  BY <2>3, <2>4 DEF Contexts, Range
<1> DEFINE bad == {k \in 0 .. Len(c) : SubSeq(c, 1, Len(c) - k) \notin Contexts}
<1>3. Len(c) \in Nat /\ c = SubSeq(c, 1, Len(c))
    BY <1>1, SubSeqFull
<1>4. bad = {}
    <2> SUFFICES ASSUME bad # {} PROVE FALSE
        OBVIOUS
    <2>1. PICK k \in bad : \A m \in bad : k <= m
        <3>1. bad \in SUBSET Nat
            BY <1>3
        <3> HIDE DEF bad
        <3> QED  BY <3>1, LeastNumber
    <2>2. k # 0
        <3>1. k = 0 => SubSeq(c, 1, Len(c) - k) = c
            BY <1>3
        <3> QED  BY <3>1
    <2> DEFINE d == SubSeq(c, 1, Len(c) - (k - 1))
    <2>3. k - 1 \in 0 .. Len(c) /\ k - 1 \notin bad
        BY <2>1, <2>2, <1>3
    <2>4. d \in Contexts
        BY <2>3
    <2>5. d \in Seq(STRING) /\ Len(d) = Len(c) - (k - 1)
        BY <1>1, <1>3, <2>3
    <2>6. d # <<>>
        <3>1. Len(d) # 0
            BY <2>5, <2>1, <1>3
        <3> HIDE DEF d
        <3> QED  BY <3>1, EmptySeq
    <2>7. Front(d) = SubSeq(c, 1, Len(c) - k)
        <3>1. Front(d) = SubSeq(d, 1, Len(c) - k)
            BY <2>5, <1>3, <2>1 DEF Front
        <3>2. c \in Seq(STRING)
            BY <1>1
        <3> QED
            BY <3>1, <3>2, <1>3, <2>1, <2>2, SubSeqOfSubSeq, SubSeqEmpty
    <2> QED  BY <2>1, <2>4, <2>6, <2>7, <1>2
<1>5. Len(c) - n \in 0 .. Len(c) /\ Len(c) - (Len(c) - n) = n
    BY <1>3
<1> QED  BY <1>4, <1>5

\* Each component keeps having metadata.
MetaFits ==
    /\ meta = [c \in Contexts |-> meta[c]]
    /\ \A c \in Contexts : IsMetaData(meta[c])

\* The group an assignment goes to.
Place(md, group) ==
    IF group # NoGroup THEN group ELSE IF md.hasGroups THEN md.default ELSE WhenNoGroups

\* Setting a pair changes nothing of what is declared, and what is taken is stored.
LEMMA PairIsStored ==
    ASSUME NEW md, IsMetaData(md), NEW group, NEW pair
    PROVE  LET result == SetNameValuePairIn(md, group, pair) IN
               /\ IsMetaData(result.md)
               /\ result.md.groups = md.groups /\ result.md.hasGroups = md.hasGroups /\ result.md.default = md.default
               /\ result.error = "none" =>
                      /\ pair.name \in DOMAIN Settings(result.md, group)
                      /\ Settings(result.md, group)[pair.name] = pair
<1> DEFINE result == SetNameValuePairIn(md, group, pair)
           fresh == Put(md.settings, group, Put(Settings(md, group), pair.name, pair))
           stored == [md EXCEPT !.settings = fresh]
<1>1. \/ result.error # "none" /\ result.md = md
      \/ result.error = "none" /\ result.md = stored
    <2>1. ASSUME NEW error PROVE Refused(error, md).md = md /\ Refused(error, md).error = error
        BY DEF Refused
    <2>2. Done(stored).md = stored /\ Done(stored).error = "none"
        BY DEF Done
    <2>3. AddNameValuePair(md, group, pair) = Refused("PARAM_NOT_DEFINED", md) \/ AddNameValuePair(md, group, pair) = Done(stored)
        BY DEF AddNameValuePair
    <2> HIDE DEF stored
    <2> QED  BY <2>1, <2>2, <2>3 DEF SetNameValuePairIn
<1>2. DOMAIN md = {"hasGroups", "hasDefault", "default", "strategy", "groups", "settings"}
    BY DEF IsMetaData, NewMetaData
<1>3. /\ DOMAIN stored = DOMAIN md
      /\ stored.groups = md.groups /\ stored.hasGroups = md.hasGroups
      /\ stored.default = md.default /\ stored.strategy = md.strategy
      /\ stored.settings = fresh
    <2> HIDE DEF fresh
    <2> QED  BY <1>2
<1>4. group \in DOMAIN fresh /\ fresh[group] = Put(Settings(md, group), pair.name, pair)
    BY DEF Put
<1>5. Settings(stored, group) = Put(Settings(md, group), pair.name, pair)
    <2> HIDE DEF fresh, stored
    <2> QED  BY <1>3, <1>4 DEF Settings
<1>6. pair.name \in DOMAIN Settings(stored, group) /\ Settings(stored, group)[pair.name] = pair
    BY <1>5 DEF Put
<1>7. IsMetaData(stored)
    <2> HIDE DEF stored
    <2> QED  BY <1>3 DEF IsMetaData
<1> HIDE DEF stored, result
<1>8. QED  BY <1>1, <1>3, <1>6, <1>7 DEF result

\* Who takes a pair does not depend on the values there are.
LEMMA TakenAgain ==
    ASSUME NEW md, NEW other, NEW group, NEW pair, other.groups = md.groups
    PROVE  SetNameValuePairIn(other, group, pair).error = "none" <=> SetNameValuePairIn(md, group, pair).error = "none"
<1>1. ASSUME NEW g, NEW n PROVE IsParameterDefined(other, g, n, NoKey) <=> IsParameterDefined(md, g, n, NoKey)
    BY DEF IsParameterDefined, ConfigurationPart, DeclaredIn
<1>2. \A g : ConfigurationPart(other, g) = ConfigurationPart(md, g)
    BY DEF ConfigurationPart
<1>3. AddNameValuePair(other, group, pair).error = AddNameValuePair(md, group, pair).error
    BY <1>1 DEF AddNameValuePair, Done, Refused
<1>4. DeclaredIn(other, group, pair.name) = DeclaredIn(md, group, pair.name)
    BY <1>2 DEF DeclaredIn
<1>5. \A error : Refused(error, md).error = Refused(error, other).error
    BY DEF Refused
<1> QED  BY <1>2, <1>3, <1>4, <1>5 DEF SetNameValuePairIn

LEMMA MetaFitsInit == ContextInit => MetaFits
    BY DescriptionsAssumption DEF ContextInit, MetaFits

\* What an assignment does to a component, wherever it ends.
LEMMA SetLocallyKeeps ==
    ASSUME MetaFits, NEW c \in Contexts, NEW group, NEW pair
    PROVE  LET result == SetLocally(c, group, pair) IN
               /\ IsMetaData(result.md)
               /\ result.md.groups = meta[c].groups /\ result.md.hasGroups = meta[c].hasGroups
               /\ result.md.default = meta[c].default
               /\ result.error = "none" =>
                      /\ pair.name \in DOMAIN Settings(result.md, Place(meta[c], group))
                      /\ Settings(result.md, Place(meta[c], group))[pair.name] = pair
<1>1. IsMetaData(meta[c])
    BY DEF MetaFits
<1>2. SetLocally(c, group, pair) = SetNameValuePairIn(meta[c], Place(meta[c], group), pair)
    BY DEF SetLocally, SetNameValuePair, Place
<1> QED  BY <1>1, <1>2, PairIsStored

\* A context, and what is above it, are components.
LEMMA AncestorsAreContexts ==
    ASSUME NEW c \in Contexts, NEW a \in Ancestors(c) \cup {c}
    PROVE  a \in Contexts /\ Len(a) \in 0 .. Len(c) /\ a = SubSeq(c, 1, Len(a))
<1>1. c \in Seq(STRING) /\ Len(c) \in Nat
    BY PathOrderAssumption DEF Contexts, Range
<1>2. CASE a = c
    BY <1>1, <1>2, SubSeqFull
<1>3. ASSUME NEW n \in 0 .. Len(c) - 1, a = SubSeq(c, 1, n) PROVE a \in Contexts /\ Len(a) \in 0 .. Len(c) /\ a = SubSeq(c, 1, Len(a))
    <2>1. Len(a) = n
        BY <1>1, <1>3
    <2> QED  BY <1>1, <1>3, <2>1, PrefixIsContext
<1> QED  BY <1>2, <1>3 DEF Ancestors

LEMMA MetaFitsStep == MetaFits /\ [ContextNext]_contextVars => MetaFits'
<1> SUFFICES ASSUME MetaFits, [ContextNext]_contextVars PROVE MetaFits'
    OBVIOUS
<1>1. ASSUME NEW c \in Contexts, NEW g, NEW p, Assign(c, g, p) PROVE MetaFits'
    <2>1. PICK keeper \in Contexts : meta' = [meta EXCEPT ![keeper] = SetLocally(keeper, g, p).md]
        <3> DEFINE takers == Takers(c, g, p)
                   keeper == IF takers = {} THEN c ELSE Topmost(takers)
        <3>1. takers \in SUBSET (Ancestors(c) \cup {c})
            BY DEF Takers
        <3>2. keeper \in Ancestors(c) \cup {c}
            BY <3>1, TopmostTakes
        <3>3. keeper \in Contexts
            BY <3>2, AncestorsAreContexts
        <3>4. meta' = [meta EXCEPT ![keeper] = SetLocally(keeper, g, p).md]
            BY <1>1 DEF Assign
        <3> HIDE DEF keeper
        <3> QED  BY <3>3, <3>4
    <2>2. IsMetaData(SetLocally(keeper, g, p).md)
        BY SetLocallyKeeps
    <2> QED  BY <2>1, <2>2 DEF MetaFits
<1>2. CASE UNCHANGED meta
    BY <1>2 DEF MetaFits
<1> QED
    BY <1>1, <1>2 DEF ContextNext, AssignValue, AssignValueIn, contextVars, Build, Destroy, MapToSofaID,
                      GetEmptyCAS, FillCAS, ReleaseCAS

\* A step that ends in a refusal is an assignment nobody took, and the asking component is
\* the last that was tried.
LEMMA RefusalStep ==
    ASSUME MetaFits, [ContextNext]_contextVars, last' # last, NEW a \in Range(last'), a.error # "none"
    PROVE  meta' = meta
<1>1. ASSUME NEW c \in Contexts, NEW g, NEW p, Assign(c, g, p) PROVE meta' = meta
    <2> DEFINE takers == Takers(c, g, p)
               keeper == IF takers = {} THEN c ELSE Topmost(takers)
               result == SetLocally(keeper, g, p)
    <2>1. /\ meta' = [meta EXCEPT ![keeper] = result.md]
          /\ last' = <<[context |-> c, group |-> g, pair |-> p, error |-> result.error]>>
        BY <1>1 DEF Assign
    <2>2. result.error # "none"
        <3> HIDE DEF result
        <3>1. a = [context |-> c, group |-> g, pair |-> p, error |-> result.error]
            BY <2>1 DEF Range
        <3> QED  BY <3>1
    <2>3. takers = {}
        <3>1. takers \in SUBSET (Ancestors(c) \cup {c}) /\ \A b \in takers : SetLocally(b, g, p).error = "none"
            BY DEF Takers
        <3>2. takers # {} => Topmost(takers) \in takers
            BY <3>1, TopmostTakes
        <3> QED  BY <2>2, <3>1, <3>2
    <2>4. keeper = c /\ result.md = meta[c]
        <3>1. keeper = c
            BY <2>3
        <3>2. SetLocally(c, g, p).error # "none"
            BY <2>2, <3>1
        <3> QED  BY <3>1, <3>2, RefusedUnchanged
    <2>5. meta' = [meta EXCEPT ![c] = meta[c]]
        BY <2>1, <2>4
    <2> QED  BY <2>5 DEF MetaFits
<1>2. Destroy => last' = <<>> /\ Range(<<>>) = {}
    BY DEF Destroy, Range
<1> QED
    BY <1>1, <1>2 DEF ContextNext, AssignValue, AssignValueIn, contextVars, Build, MapToSofaID,
                      GetEmptyCAS, FillCAS, ReleaseCAS

\* Whatever the components declare and however deep they are nested: a value that was refused
\* has changed no description (AnnotatorContext::setNameValuePair() in annotator_context.cpp,
\* AnalysisEngineMetaData::setNameValuePair() in taespecifier.cpp).
THEOREM RefusalNeverChanges == ContextSpec => RefusalChangesNothing
<1>1. ContextSpec => []MetaFits
    BY MetaFitsInit, MetaFitsStep, PTL DEF ContextSpec
<1>2. MetaFits /\ [ContextNext]_contextVars =>
          [(last' # last /\ \E a \in Range(last') : a.error # "none") => meta' = meta]_contextVars
    BY RefusalStep
<1> QED  BY <1>1, <1>2, PTL DEF ContextSpec, RefusalChangesNothing

\* A group that has a value of the name answers first, with that value or with an exception.
LEMMA FirstGroupAnswers ==
    ASSUME NEW md, IsMetaData(md), NEW group \in Seq(STRING), NEW name, NEW strategy \in Strategies, NEW ancKey,
           name \in DOMAIN Settings(md, group),
           GetNameValuePairIn(md, group, name, strategy, ancKey).kind # "throws"
    PROVE  GetNameValuePairIn(md, group, name, strategy, ancKey) = Found(Settings(md, group)[name])
<1> DEFINE more == GenerateFallbackGroups(md, group, strategy)
           tries == <<group>> \o more
           answer == [i \in 1 .. Len(tries) |-> GetNameValuePairNoFallback(md, tries[i], name, ancKey)]
           answered == {i \in 1 .. Len(tries) : answer[i].kind # "missing"}
<1>1. more \in Seq(Seq(STRING))
    <2>1. CASE strategy = "language_fallback"
        <3> DEFINE cut == [i \in 1 .. Len(group) - 1 |-> SubSeq(group, 1, Len(group) - i)]
        <3>1. Len(group) \in Nat
            OBVIOUS
        <3>2. ASSUME NEW i \in 1 .. Len(group) - 1 PROVE SubSeq(group, 1, Len(group) - i) \in Seq(STRING)
            BY <3>1
        <3>3. cut \in Seq(Seq(STRING))
            <4>1. CASE Len(group) = 0
                <5>1. cut = <<>>
                    BY <4>1
                <5> QED  BY <5>1
            <4>2. CASE Len(group) # 0
                <5>1. Len(group) - 1 \in Nat
                    BY <4>2, <3>1
                <5> QED  BY <5>1, <3>2, IsASeq
            <4> QED  BY <4>1, <4>2
        <3>4. <<md.default>> \in Seq(Seq(STRING))
            BY DEF IsMetaData
        <3>5. more = cut \o <<md.default>>
            BY <2>1 DEF GenerateFallbackGroups
        <3> HIDE DEF cut, more
        <3> QED  BY <3>3, <3>4, <3>5
    <2>2. CASE strategy = "default_fallback"
        BY <2>2 DEF GenerateFallbackGroups, IsMetaData
    <2>3. CASE strategy = "none"
        BY <2>3 DEF GenerateFallbackGroups
    <2> QED  BY <2>1, <2>2, <2>3 DEF Strategies
<1>2. Len(tries) \in Nat /\ 1 \in 1 .. Len(tries) /\ tries[1] = group
    <2> HIDE DEF more
    <2> QED  BY <1>1
<1>3. answer[1] = GetNameValuePairNoFallback(md, group, name, ancKey)
    BY <1>2
<1>4. answer[1] = Throws \/ answer[1] = Found(Settings(md, group)[name])
    BY <1>3 DEF GetNameValuePairNoFallback
<1>5. answer[1].kind # "missing"
    BY <1>4 DEF Throws, Found
<1>6. GetNameValuePairIn(md, group, name, strategy, ancKey) =
          IF answered # {} THEN answer[CHOOSE i \in answered : \A j \in answered : i <= j]
          ELSE IF \E i \in 1 .. Len(tries) : IsParameterDefined(md, tries[i], name, ancKey) THEN Missing ELSE Throws
    BY DEF GetNameValuePairIn
<1>7. 1 \in answered /\ \A j \in answered : 1 <= j
    <2> HIDE DEF tries, answer
    <2> QED  BY <1>2, <1>5
<1>8. (CHOOSE i \in answered : \A j \in answered : i <= j) = 1
    <2>1. \A i \in answered : i \in Int
        <3> HIDE DEF tries, answer
        <3> QED  BY <1>2
    <2> HIDE DEF answered
    <2> QED  BY <1>7, <2>1
<1>9. GetNameValuePairIn(md, group, name, strategy, ancKey) = answer[1]
    <2> HIDE DEF answered, answer
    <2> QED  BY <1>6, <1>7, <1>8
<1> QED  BY <1>4, <1>9 DEF Throws

\* A search that goes down from the root finds what the first component knows from which on no
\* one throws: there is one such search, and a least place where it went wrong is nowhere.
LEMMA VisibleIsFound ==
    ASSUME NEW c \in Contexts, NEW group, NEW name, NEW k \in 0 .. Len(c),
           \A n \in 0 .. k - 1 : LookUp(c, n, group, name).kind # "found",
           \A n \in k .. Len(c) : LookUp(c, n, group, name).kind # "throws",
           LookUp(c, k, group, name).kind = "found"
    PROVE  FindNameValuePair(c, group, name) = LookUp(c, k, group, name)
<1> DEFINE step(f, n) ==
               LET parent == IF n = 0 THEN Missing ELSE f[n - 1]
               IN  IF LookUp(c, n, group, name).kind = "throws" \/ parent.kind # "found"
                   THEN LookUp(c, n, group, name)
                   ELSE parent
           find == CHOOSE f : f = [n \in 0 .. Len(c) |-> step(f, n)]
           result == [n \in 0 .. Len(c) |-> LookUp(c, IF n < k THEN n ELSE k, group, name)]
<1>1. Len(c) \in Nat
    BY PathOrderAssumption DEF Contexts, Range
<1>2. FindNameValuePair(c, group, name) = find[Len(c)]
    BY DEF FindNameValuePair
<1>3. ASSUME NEW n \in 0 .. Len(c), NEW f, n # 0 => f[n - 1] = result[n - 1] PROVE step(f, n) = result[n]
    <2>1. CASE n < k
        <3>1. result[n] = LookUp(c, n, group, name)
            BY <2>1
        <3>2. n # 0 => f[n - 1].kind # "found"
            BY <1>1, <1>3, <2>1
        <3>3. Missing.kind # "found"
            BY DEF Missing
        <3> QED  BY <3>1, <3>2, <3>3
    <2>2. CASE n = k
        <3>1. result[n] = LookUp(c, n, group, name)
            BY <2>2
        <3>2. n # 0 => f[n - 1].kind # "found"
            BY <1>1, <1>3, <2>2
        <3>3. Missing.kind # "found"
            BY DEF Missing
        <3> QED  BY <3>1, <3>2, <3>3
    <2>3. CASE n > k
        <3>1. n # 0 /\ f[n - 1] = LookUp(c, k, group, name) /\ result[n] = LookUp(c, k, group, name)
            BY <1>1, <1>3, <2>3
        <3>2. LookUp(c, n, group, name).kind # "throws"
            BY <1>1, <2>3
        <3> QED  BY <3>1, <3>2
    <2> QED  BY <1>1, <2>1, <2>2, <2>3
<1>4. find = [n \in 0 .. Len(c) |-> step(find, n)]
    <2>1. result = [n \in 0 .. Len(c) |-> step(result, n)]
        <3>1. \A n \in 0 .. Len(c) : step(result, n) = result[n]
            BY <1>3
        <3> HIDE DEF step
        <3> QED  BY <3>1
    <2>2. \E f : f = [n \in 0 .. Len(c) |-> step(f, n)]
        <3> HIDE DEF step, result
        <3> QED  BY <2>1
    <2> HIDE DEF step
    <2> QED  BY <2>2
<1> DEFINE wrong == {n \in 0 .. Len(c) : find[n] # result[n]}
<1>5. wrong = {}
    <2> SUFFICES ASSUME wrong # {} PROVE FALSE
        OBVIOUS
    <2>1. PICK n \in wrong : \A m \in wrong : n <= m
        <3>1. wrong \in SUBSET Nat
            BY <1>1
        <3> HIDE DEF wrong
        <3> QED  BY <3>1, LeastNumber
    <2>2. n # 0 => n - 1 \in 0 .. Len(c) /\ n - 1 \notin wrong
        <3> HIDE DEF find, result
        <3> QED  BY <1>1, <2>1
    <2>3. n # 0 => find[n - 1] = result[n - 1]
        <3> HIDE DEF find, result
        <3> QED  BY <2>2
    <2>4. step(find, n) = result[n]
        <3> HIDE DEF step, find, result
        <3> QED  BY <2>3, <1>3
    <2>5. find[n] = step(find, n)
        <3> HIDE DEF step, find, result
        <3> QED  BY <1>4
    <2> HIDE DEF find, result, step
    <2> QED  BY <2>4, <2>5
<1>6. find[Len(c)] = result[Len(c)]
    <2>1. Len(c) \notin wrong /\ Len(c) \in 0 .. Len(c)
        <3> HIDE DEF wrong
        <3> QED  BY <1>1, <1>5
    <2> HIDE DEF find, result
    <2> QED  BY <2>1
<1>7. result[Len(c)] = LookUp(c, k, group, name)
    BY <1>1
<1> QED  BY <1>2, <1>6, <1>7

\* What an accepted assignment has left: the topmost component that takes the pair has it.
HasPair(md, group, pair) ==
    LET there == Settings(md, Place(md, group))
    IN  pair.name \in DOMAIN there /\ there[pair.name] = pair

AssignmentIsKept ==
    \A a \in Range(last) :
        a.error = "none" =>
            LET takers == Takers(a.context, a.group, a.pair) IN
            /\ a.context \in Contexts /\ a.group \in Groups \cup {NoGroup}
            /\ takers # {}
            /\ HasPair(meta[Topmost(takers)], a.group, a.pair)

LEMMA KeptInit == ContextInit => AssignmentIsKept
<1> SUFFICES ASSUME ContextInit PROVE AssignmentIsKept
    OBVIOUS
<1>1. Range(last) = {}
    BY DEF ContextInit, Range
<1> QED  BY <1>1 DEF AssignmentIsKept

\* An assignment ends at the topmost taker, and who takes the pair is the same afterwards.
LEMMA KeptAssigned ==
    ASSUME MetaFits, NEW c \in Contexts, NEW g \in Groups \cup {NoGroup}, NEW p, Assign(c, g, p)
    PROVE  AssignmentIsKept'
<1> DEFINE takers == Takers(c, g, p)
           keeper == IF takers = {} THEN c ELSE Topmost(takers)
           result == SetLocally(keeper, g, p)
<1>1. /\ meta' = [meta EXCEPT ![keeper] = result.md]
      /\ last' = <<[context |-> c, group |-> g, pair |-> p, error |-> result.error]>>
    BY DEF Assign
<1> SUFFICES ASSUME NEW a \in Range(last'), a.error = "none"
             PROVE  /\ a.context \in Contexts /\ a.group \in Groups \cup {NoGroup}
                    /\ Takers(a.context, a.group, a.pair)' # {}
                    /\ HasPair(meta[Topmost(Takers(a.context, a.group, a.pair))], a.group, a.pair)'
    BY DEF AssignmentIsKept
<1>2. a.context = c /\ a.group = g /\ a.pair = p /\ result.error = "none"
    <2> HIDE DEF result
    <2>1. a = [context |-> c, group |-> g, pair |-> p, error |-> result.error]
        BY <1>1 DEF Range
    <2> QED  BY <2>1
<1>3. takers \in SUBSET (Ancestors(c) \cup {c}) /\ \A b \in takers : SetLocally(b, g, p).error = "none"
    BY DEF Takers
<1>4. takers # {}
    <2> SUFFICES ASSUME takers = {} PROVE FALSE
        OBVIOUS
    <2>1. keeper = c
        OBVIOUS
    <2>2. SetLocally(c, g, p).error = "none"
        BY <1>2, <2>1
    <2>3. c \in takers
        BY <2>2 DEF Takers
    <2> QED  BY <2>3
<1>5. keeper = Topmost(takers) /\ keeper \in Contexts
    BY <1>3, <1>4, TopmostTakes, AncestorsAreContexts
<1>6. meta'[keeper] = result.md /\ \A b \in Contexts : b # keeper => meta'[b] = meta[b]
    <2> HIDE DEF keeper, result
    <2> QED  BY <1>1, <1>5 DEF MetaFits
<1>7. ASSUME NEW b \in Ancestors(c) \cup {c}
      PROVE  SetLocally(b, g, p)'.error = "none" <=> SetLocally(b, g, p).error = "none"
    <2>1. b \in Contexts
        BY AncestorsAreContexts
    <2>2. meta'[b].groups = meta[b].groups /\ meta'[b].hasGroups = meta[b].hasGroups /\ meta'[b].default = meta[b].default
        <3>1. CASE b = keeper
            <4>1. /\ result.md.groups = meta[keeper].groups /\ result.md.hasGroups = meta[keeper].hasGroups
                  /\ result.md.default = meta[keeper].default
                BY <1>5, SetLocallyKeeps
            <4> HIDE DEF keeper, result
            <4> QED  BY <3>1, <4>1, <1>6
        <3>2. CASE b # keeper
            <4> HIDE DEF keeper
            <4> QED  BY <3>2, <2>1, <1>6
        <3> QED  BY <3>1, <3>2
    <2>3. SetLocally(b, g, p) = SetNameValuePairIn(meta[b], Place(meta[b], g), p)
        BY DEF SetLocally, SetNameValuePair, Place
    <2>4. SetLocally(b, g, p)' = SetNameValuePairIn(meta'[b], Place(meta[b], g), p)
        BY <2>2 DEF SetLocally, SetNameValuePair, Place
    <2> QED  BY <2>2, <2>3, <2>4, TakenAgain
<1>8. Takers(c, g, p)' = takers
    BY <1>7 DEF Takers
<1>9. HasPair(meta'[keeper], g, p)
    <2>1. /\ p.name \in DOMAIN Settings(result.md, Place(meta[keeper], g))
          /\ Settings(result.md, Place(meta[keeper], g))[p.name] = p
          /\ result.md.hasGroups = meta[keeper].hasGroups /\ result.md.default = meta[keeper].default
        BY <1>2, <1>5, SetLocallyKeeps
    <2>2. Place(result.md, g) = Place(meta[keeper], g)
        <3> HIDE DEF result, keeper
        <3> QED  BY <2>1 DEF Place
    <2> HIDE DEF result, keeper
    <2> QED  BY <2>1, <2>2, <1>6 DEF HasPair
<1>10. HasPair(meta[Topmost(Takers(a.context, a.group, a.pair))], a.group, a.pair)'
    <2>1. Topmost(Takers(c, g, p))' = keeper
        BY <1>5, <1>8 DEF Topmost
    <2> HIDE DEF keeper
    <2> QED  BY <1>2, <1>9, <2>1 DEF HasPair, Place, Settings
<1> HIDE DEF takers
<1> QED  BY <1>2, <1>4, <1>8, <1>10

LEMMA KeptStep == MetaFits /\ AssignmentIsKept /\ [ContextNext]_contextVars => AssignmentIsKept'
<1> SUFFICES ASSUME MetaFits, AssignmentIsKept, [ContextNext]_contextVars PROVE AssignmentIsKept'
    OBVIOUS
<1>1. ASSUME NEW c \in Contexts, NEW p, AssignValue(c, p) PROVE AssignmentIsKept'
    BY <1>1, KeptAssigned DEF AssignValue
<1>2. ASSUME NEW c \in Contexts, NEW g \in Groups, NEW p, AssignValueIn(c, g, p) PROVE AssignmentIsKept'
    BY <1>2, KeptAssigned DEF AssignValueIn
<1>3. CASE Destroy
    <2>1. Range(last') = {}
        BY <1>3 DEF Destroy, Range
    <2> QED  BY <2>1 DEF AssignmentIsKept
<1>4. CASE UNCHANGED <<meta, last>>
    <2>1. ASSUME NEW c, NEW g, NEW p PROVE Takers(c, g, p)' = Takers(c, g, p)
        BY <1>4 DEF Takers, SetLocally
    <2>2. ASSUME NEW c, NEW g, NEW p PROVE meta[Topmost(Takers(c, g, p))]' = meta[Topmost(Takers(c, g, p))]
        BY <1>4, <2>1 DEF Topmost
    <2>3. last' = last
        BY <1>4
    <2> QED  BY <2>1, <2>2, <2>3 DEF AssignmentIsKept, HasPair, Settings, Place
<1> QED
    BY <1>1, <1>2, <1>3, <1>4 DEF ContextNext, contextVars, Build, MapToSofaID, GetEmptyCAS, FillCAS, ReleaseCAS

\* What a component has is what it answers, unless it throws.
LEMMA PairIsAnswered ==
    ASSUME MetaFits, NEW c \in Contexts, NEW n \in 0 .. Len(c), NEW group \in Groups \cup {NoGroup}, NEW pair,
           HasPair(meta[SubSeq(c, 1, n)], group, pair),
           LookUp(c, n, group, pair.name).kind # "throws"
    PROVE  LookUp(c, n, group, pair.name) = Found(pair)
<1> DEFINE d == SubSeq(c, 1, n)
           md == meta[d]
           ancKey == IF n = Len(c) THEN NoKey ELSE c[n + 1]
           strategy == IF group = NoGroup THEN md.strategy ELSE meta[c].strategy
<1>1. d \in Contexts
    BY PrefixIsContext
<1>2. IsMetaData(md) /\ IsMetaData(meta[c])
    BY <1>1 DEF MetaFits
<1>3. strategy \in Strategies
    BY <1>2 DEF IsMetaData
<1>4. Place(md, group) \in Seq(STRING)
    <2>1. group # NoGroup => group \in Seq(STRING)
        BY GroupsAssumption
    <2>2. WhenNoGroups \in Seq(STRING)
        BY GroupsAssumption
    <2> QED  BY <1>2, <2>1, <2>2 DEF Place, IsMetaData
<1>5. LookUp(c, n, group, pair.name) = GetNameValuePairIn(md, Place(md, group), pair.name, strategy, ancKey)
    <2>1. LookUp(c, n, group, pair.name) = FindLocally(d, group, pair.name, meta[c].strategy, ancKey)
        BY DEF LookUp
    <2>2. CASE group # NoGroup
        BY <2>1, <2>2 DEF FindLocally, Place
    <2>3. CASE group = NoGroup
        <3>1. LookUp(c, n, group, pair.name) = GetNameValuePair(md, pair.name, ancKey)
            BY <2>1, <2>3 DEF FindLocally
        <3>2. GetNameValuePair(md, pair.name, ancKey) # Throws
            BY <3>1 DEF Throws
        <3> QED  BY <2>3, <3>1, <3>2 DEF GetNameValuePair, Place
    <2> QED  BY <2>2, <2>3
<1>6. pair.name \in DOMAIN Settings(md, Place(md, group)) /\ Settings(md, Place(md, group))[pair.name] = pair
    BY DEF HasPair
<1> HIDE DEF md, strategy, ancKey
<1> QED  BY <1>2, <1>3, <1>4, <1>5, <1>6, FirstGroupAnswers

\* The keeper answers with the pair, and its answer comes down to the one who asks.
LEMMA KeptIsRead == MetaFits /\ AssignmentIsKept => AssignmentIsRead
<1> SUFFICES ASSUME MetaFits, AssignmentIsKept, NEW a \in Range(last), a.error = "none",
                    IsVisible(a.context, a.group, a.pair, Topmost(Takers(a.context, a.group, a.pair)))
             PROVE  ReadsBack(a)
    BY DEF AssignmentIsRead
<1> DEFINE c == a.context
           g == a.group
           p == a.pair
           takers == Takers(c, g, p)
           keeper == Topmost(takers)
           k == Len(keeper)
<1>1. c \in Contexts /\ g \in Groups \cup {NoGroup} /\ takers # {} /\ HasPair(meta[keeper], g, p)
    BY DEF AssignmentIsKept
<1>2. k \in 0 .. Len(c) /\ keeper = SubSeq(c, 1, k)
    <2>1. takers \in SUBSET (Ancestors(c) \cup {c})
        BY DEF Takers
    <2>2. keeper \in Ancestors(c) \cup {c}
        BY <1>1, <2>1, TopmostTakes
    <2> QED  BY <1>1, <2>2, AncestorsAreContexts
<1>3. /\ \A n \in 0 .. k - 1 : LookUp(c, n, g, p.name).kind # "found"
      /\ \A n \in k .. Len(c) : LookUp(c, n, g, p.name).kind # "throws"
    BY DEF IsVisible
<1>4. LookUp(c, k, g, p.name).kind # "throws"
    <2>1. Len(c) \in Nat
        BY <1>1, PathOrderAssumption DEF Contexts, Range
    <2>2. k \in k .. Len(c)
        BY <2>1, <1>2
    <2> QED  BY <1>3, <2>2
<1>5. LookUp(c, k, g, p.name) = Found(p)
    <2> HIDE DEF c, g, p, k, keeper, takers
    <2> QED  BY <1>1, <1>2, <1>4, PairIsAnswered
<1>6. FindNameValuePair(c, g, p.name) = Found(p)
    <2>1. LookUp(c, k, g, p.name).kind = "found"
        BY <1>5 DEF Found
    <2> HIDE DEF c, g, p, k, keeper, takers
    <2> QED  BY <1>1, <1>2, <1>3, <1>5, <2>1, VisibleIsFound
<1>7. ValueOf(Found(p), p.type, p.multi) = [kind |-> "value", value |-> p.value]
    BY DEF ValueOf, Found, Extract
<1> QED  BY <1>6, <1>7 DEF ReadsBack, ExtractValue, ExtractValueIn

\* However deep the components are nested, whatever groups, restrictions, fallbacks and values
\* their descriptions have: a value that was accepted is read back by the context that assigned
\* it, next, unless a component on the way to its keeper throws or one above overrides it
\* (AnnotatorContext::setNameValuePair() and findNameValuePair() in annotator_context.cpp,
\* AnalysisEngineMetaData::getNameValuePair() in taespecifier.cpp).
THEOREM AssignmentsAreRead == ContextSpec => []AssignmentIsRead
<1>1. ContextSpec => []MetaFits
    BY MetaFitsInit, MetaFitsStep, PTL DEF ContextSpec
<1>2. ContextSpec => []AssignmentIsKept
    BY <1>1, KeptInit, KeptStep, PTL DEF ContextSpec
<1> QED  BY <1>1, <1>2, KeptIsRead, PTL
=============================================================================
