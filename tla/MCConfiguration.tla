--------------------------- MODULE MCConfiguration ---------------------------
(* What configures an engine, each scene on its own: the description read from *)
(* its documents, the contexts made over it, its capabilities, and the texts,  *)
(* languages and messages they are made of.                                    *)
EXTENDS Descriptors, AnnotatorContext, Capabilities, Text

VARIABLE scene

mcVars == <<scene, descriptionVars, contextVars, kVars, input>>

-----------------------------------------------------------------------------
(* Documents in four families: types with imports that repeat, meet and go in  *)
(* circles; indexes and priorities the same way; parameters and their values; *)
(* aggregates of two levels, with a delegate in a file.                        *)

MCFeature(n, r) == [name |-> n, range |-> r, multi |-> n = "g"]
MCType(n, s, fs, vs) == [name |-> n, super |-> s, features |-> fs, allowed |-> vs]
MCAt(l) == [byName |-> FALSE, location |-> l]
MCByName == [byName |-> TRUE, location |-> ""]

MCTf == MCType("T", "TOP", <<MCFeature("f", "int")>>, <<>>)
MCTg == MCType("T", "TOP", <<MCFeature("g", "TOP")>>, <<>>)
MCTh == MCType("T", "TOP", <<MCFeature("f", "string"), MCFeature("g", "TOP")>>, <<>>)
MCUs == MCType("T", "String", <<>>, <<"x">>)
MCColor == MCType("Color", "String", <<>>, <<"x", "y">>)
MCColor2 == MCType("Color", "String", <<>>, <<"y", "z">>)

\* "a" and "b" import each other, "c" and "d" contradict what the others say.
MCTypeFiles ==
    [a |-> [types |-> <<MCTf, MCColor>>, imports |-> <<MCAt("b")>>],
     b |-> [types |-> <<MCTg>>, imports |-> <<MCAt("a"), MCByName, MCAt("b")>>],
     c |-> [types |-> <<MCUs>>, imports |-> <<>>],
     d |-> [types |-> <<MCTh>>, imports |-> <<>>],
     e |-> [types |-> <<MCColor2>>, imports |-> <<MCAt("b")>>]]

MCFeatureKey(f, c) == <<Tag("featureName", f), Tag("comparator", c)>>
MCPriorityKey == <<Tag("typePriority", "")>>
MCIndexOf(l, kind, keys) == <<Tag("label", l), Tag("typeName", "T"), Tag("kind", kind), Tag("keys", keys)>>
MCIndex(l) == MCIndexOf(l, "sorted", <<MCFeatureKey("f", "reverse"), MCPriorityKey>>)
MCBag(l) == <<Tag("kind", "bag"), Tag("label", l), Tag("unknown", ""), Tag("typeName", "T")>>
MCList(ts) == [i \in DOMAIN ts |-> Tag("type", ts[i])]
MCPart(es, is) == [elements |-> es, imports |-> is]

MCIndexFiles ==
    [a |-> <<MCPart(<<>>, <<MCAt("b")>>), MCPart(<<MCIndex("ia")>>, <<>>)>>,
     b |-> <<MCPart(<<MCIndex("ib")>>, <<MCAt("c"), MCAt("a")>>)>>,
     c |-> <<MCPart(<<MCIndex("ic")>>, <<>>)>>,
     d |-> <<MCPart(<<MCIndex("ic")>>, <<MCByName>>)>>]

MCPriorityFiles == [a |-> <<MCPart(<<MCList(<<"T", "Color">>)>>, <<MCAt("a")>>)>>]

MCSome(es) == {<<>>} \cup {<<e>> : e \in es}
MCLocations(files) == {<<>>} \cup {<<MCAt(l)>> : l \in files} \cup {<<MCAt(k), MCAt(l)>> : k, l \in files}

MCOrder == <<"parameters", "settings", "types", "priorities", "indexes", "capabilities", "properties">>

MCDocument ==
    [primitive |-> TRUE, delegates |-> <<>>, order |-> MCOrder,
     parameters |-> [default |-> NoName, strategy |-> "none", items |-> <<>>], settings |-> <<>>,
     types |-> [types |-> <<>>, imports |-> <<>>], priorities |-> <<>>, indexes |-> <<>>,
     capabilities |-> <<<<[name |-> <<"T">>, input |-> FALSE, all |-> TRUE],
                          [name |-> <<"Color">>, input |-> TRUE, all |-> FALSE]>>>>,
     flow |-> <<>>, properties |-> <<>>, mappings |-> <<>>]

MCTyped ==
    {[MCDocument EXCEPT !.types = [types |-> own, imports |-> is]] :
        own \in {<<>>, <<MCTf>>, <<MCTg, MCTf>>, <<MCTf, MCTh>>, <<MCUs, MCColor>>,
                <<[MCColor EXCEPT !.super = "TOP"]>>},
        is \in MCLocations(DOMAIN MCTypeFiles \cup {"missing"}) \cup {<<MCByName, MCAt("a")>>}}

MCIndexed ==
    {[MCDocument EXCEPT !.indexes = <<MCPart(own, is)>>, !.priorities = ps, !.properties = pr, !.order = o] :
        own \in {<<>>, <<MCBag("i"), MCIndex("ia")>>, <<MCIndexOf("i", "unknown", <<MCFeatureKey("f", "unknown"), <<>>>>)>>},
        is \in MCLocations(DOMAIN MCIndexFiles) \cup {<<MCAt("missing")>>},
        ps \in {<<>>, <<MCPart(<<MCList(<<"Color">>)>>, <<MCAt("a"), MCAt("a")>>)>>},
        pr \in {<<>>, <<Tag("outputsNewCASes", "true"), Tag("modifiesCas", "1")>>},
        o \in {MCOrder, SelectSeq(MCOrder, LAMBDA tag : tag # "properties")}}

MCParam(n, m, r) == [name |-> n, param |-> [type |-> "int", multi |-> FALSE, mandatory |-> m, restricted |-> r]]
MCPair(n, v) == [name |-> n, type |-> "int", multi |-> FALSE, value |-> v]
MCEn == <<"en">>
MCEnUS == <<"en", "US">>
MCCommon(ps) == [kind |-> "common", groups |-> <<>>, params |-> ps]
MCGroup(gs, ps) == [kind |-> "group", groups |-> gs, params |-> ps]
MCPlain(ps) == [kind |-> "parameter", groups |-> <<>>, params |-> ps]
MCValues(gs, ps) == [groups |-> gs, pairs |-> ps]

MCItems ==
    {<<>>, <<MCPlain(<<MCParam("p", TRUE, {})>>)>>, <<MCPlain(<<MCParam("p", TRUE, {}), MCParam("p", FALSE, {})>>)>>,
     <<MCGroup(<<MCEn, MCEnUS>>, <<MCParam("p", TRUE, {})>>)>>,
     <<MCGroup(<<MCEn, MCEn>>, <<>>)>>,
     <<MCCommon(<<MCParam("p", TRUE, {})>>), MCGroup(<<MCEn, MCEnUS>>, <<MCParam("q", FALSE, {"k"})>>)>>,
     <<MCCommon(<<MCParam("p", FALSE, {})>>), MCGroup(<<MCEn>>, <<MCParam("p", FALSE, {})>>)>>,
     <<MCGroup(<<MCEn>>, <<>>), MCPlain(<<MCParam("p", FALSE, {})>>)>>}

MCSettings ==
    {<<>>, <<MCValues(<<>>, <<MCPair("p", 1)>>)>>, <<MCValues(<<>>, <<MCPair("p", 1), MCPair("p", 2)>>)>>,
     <<MCValues(<<MCEn>>, <<MCPair("p", 1)>>)>>, <<MCValues(<<MCEn, MCEnUS>>, <<MCPair("p", 1), MCPair("q", 2)>>)>>,
     <<MCValues(<<MCEn>>, <<MCPair("p", 1)>>), MCValues(<<MCEnUS, MCEn>>, <<MCPair("p", 2)>>)>>}

MCConfigured ==
    {[MCDocument EXCEPT !.parameters = [default |-> d, strategy |-> s, items |-> is], !.settings = vs, !.order = o] :
        d \in {NoName, MCEn}, s \in {"none", "language_fallback"}, is \in MCItems, vs \in MCSettings,
        o \in {MCOrder, <<"settings", "parameters">>}}

MCDelegate(k, d) == [key |-> k, inline |-> TRUE, location |-> "", doc |-> <<d>>]
MCFileDelegate(k) == [key |-> k, inline |-> FALSE, location |-> "engine", doc |-> <<>>]

MCInner(t) ==
    [MCDocument EXCEPT !.types.types = <<t>>, !.types.imports = <<MCByName>>,
                       !.order = <<"capabilities", "types", "properties">>]
MCAggregateOf(ds, t, flow) ==
    [MCDocument EXCEPT !.primitive = FALSE, !.delegates = ds, !.types.types = t, !.flow = flow,
                       !.order = <<"flow">> \o MCOrder,
                       !.mappings = <<<<Tag("aggregateSofaName", "s"), Tag("componentKey", "k")>>>>]

MCNodes(keys) == [i \in DOMAIN keys |-> Tag("node", keys[i])]
MCFixed(keys) == Tag("fixedFlow", MCNodes(keys))
MCByCapability(keys) == Tag("capabilityLanguageFlow", MCNodes(keys))

MCEngineFiles == [engine |-> MCAggregateOf(<<MCDelegate("m", MCInner(MCTg))>>, <<>>, <<MCByCapability(<<"m">>)>>)]

MCAggregates ==
    {MCAggregateOf(<<MCDelegate("k", MCInner(t)), other>>, own, flow) :
        t \in {MCTf, MCTg, MCTh, MCUs}, own \in {<<>>, <<MCTf>>}, flow \in {<<>>, <<MCFixed(<<"k", "l">>)>>, <<MCFixed(<<"k">>), MCByCapability(<<"l", "k">>), Tag("unknown", <<>>)>>},
        other \in {MCFileDelegate("l"), MCFileDelegate("k"), MCDelegate("l", MCInner(MCUs)),
                   [MCFileDelegate("l") EXCEPT !.location = "missing"]}}

MCDocuments == MCTyped \cup MCIndexed \cup MCConfigured \cup MCAggregates

-----------------------------------------------------------------------------
(* An aggregate "m" with a delegate "l" inside the root, whose metadata are drawn *)
(* from a handful of forms, and sofa mappings that are kept apart or chained.     *)
MCPathOrder == <<<<>>, <<"m">>, <<"m", "l">>>>

MCDeclared(t, r) == [type |-> t, multi |-> FALSE, mandatory |-> FALSE, restricted |-> r]
MCDE == <<"de">>
MCDECH == <<"de", "CH">>

MCUngrouped(param) == [NewMetaData EXCEPT !.groups = WhenNoGroups :> ("p" :> param)]

MCAssigned(v) == [name |-> "p", type |-> "int", multi |-> FALSE, value |-> v]

MCInGroups(strategy, groups) ==
    [NewMetaData EXCEPT !.hasGroups = TRUE, !.hasDefault = TRUE, !.default = MCDE,
                        !.strategy = strategy, !.groups = groups]

MCMetas ==
    {NewMetaData,
     MCUngrouped(MCDeclared("int", {})),
     [MCUngrouped(MCDeclared("int", {})) EXCEPT !.settings = WhenNoGroups :> ("p" :> MCAssigned(0))],
     MCUngrouped(MCDeclared("string", {})),
     MCUngrouped(MCDeclared("int", {"other"})),
     MCInGroups("none", (MCDE :> ("p" :> MCDeclared("int", {})))),
     [MCInGroups("language_fallback", (CommonParms :> ("p" :> MCDeclared("int", {}))) @@ (MCDE :> <<>>) @@ (MCDECH :> <<>>))
          EXCEPT !.settings = MCDE :> ("p" :> MCAssigned(0))],
     [MCInGroups("default_fallback", (MCDECH :> ("p" :> MCDeclared("int", {"l"}))) @@ (MCDE :> ("p" :> MCDeclared("int", {}))))
          EXCEPT !.settings = MCDECH :> ("p" :> MCAssigned(0))]}

MCMap(k, c, a) == [key |-> k, component |-> c, aggregate |-> a]
MCNoMappings == [c \in Range(MCPathOrder) |-> <<>>]

MCContexts ==
    {[meta |-> m, mappings |-> MCNoMappings, pool |-> 0] : m \in [Range(MCPathOrder) -> MCMetas]}

MCMapped ==
    {[meta |-> [c \in Range(MCPathOrder) |-> NewMetaData],
      mappings |-> (<<>> :> outer) @@ (<<"m">> :> inner) @@ (<<"m", "l">> :> <<>>), pool |-> 2] :
        outer \in {<<>>, <<MCMap("m", "a", "b")>>, <<MCMap("m", "", "b"), MCMap("m", "a", "c")>>,
                   <<MCMap("m", "a", "b"), MCMap("m", "b", "c")>>},
        inner \in {<<>>, <<MCMap("l", "x", "a")>>, <<MCMap("l", "x", "a"), MCMap("l", "", "_InitialView")>>,
                   <<MCMap("l", "a", "b"), MCMap("l", "b", "a")>>}}

MCDescriptions == MCContexts \cup MCMapped
MCGroups == {MCDE, MCDECH}
MCPairs == {MCAssigned(1), [MCAssigned(1) EXCEPT !.type = "string"]}

-----------------------------------------------------------------------------
(* Two capabilities, for any languages, also one that is none; "gone" is not a *)
(* type or feature of the type system.                                         *)
MCEnglish == <<"en", "">>
MCAmerican == <<"en", "US">>
MCBritish == <<"en", "GB">>
MCDocumentLanguages == {NoLanguage, MCEnglish, MCAmerican, MCBritish, <<"de", "">>, <<"de", "DE">>}
MCCodes == {TheWord, MCEnglish, MCAmerican, MCBritish, <<"??", "">>}

MCCapabilities ==
    [languages : SUBSET MCCodes, inputs : SUBSET {"A"}, outputs : SUBSET {"A", "f"} \cup {{"gone"}}]

MCFirst == {k \in MCCapabilities : k.inputs # {} => k.outputs # {"f"}}
MCSecond == {k \in MCCapabilities : TheWord \notin k.languages /\ k.inputs = {} /\ "gone" \notin k.outputs}
MCCapabilityLists == {{k, l} : k \in MCFirst, l \in MCSecond}
MCTofs == {"A", "f"}

-----------------------------------------------------------------------------
(* Texts of up to five units over small alphabets, each made of the units a    *)
(* rule tells apart, and references into the middle of them.                   *)
MCUnits == 0 .. 18
MCUpper == [c \in MCUnits |-> IF c = 4 THEN 3 ELSE c]
MCLower == [c \in MCUnits |-> IF c = 3 THEN 4 ELSE c]
MCDigits == [c \in {10, 11, 12} |-> c - 10]
MCBlank == 1
MCComma == 2

MCSeqs(S, n) == UNION {[1 .. k -> S] : k \in 0 .. n}
MCRefs(S, n) == {Ref(m, f, l) : m \in [1 .. n -> S], f \in 0 .. n, l \in 0 .. n}
MCInside(R) == {r \in R : r.from + r.len <= Len(r.mem)}
MCTexts == MCSeqs({4, 5, 8}, 2) \cup {<<3>>, <<4, 3>>, <<6, 7>>}

\* A text that is searched has two units of context before it.
MCSearches ==
    {[kind |-> "search", r |-> r, text |-> t] :
        r \in {x \in MCInside(MCRefs({4, 6, 7}, 5)) : x.from = 2},
        t \in {<<>>, <<4>>, <<6>>, <<7>>, <<4, 4>>, <<6, 7>>, <<7, 4>>, <<7, 6>>, <<4, 6, 7>>, <<6, 7, 6, 7>>}}
MCOrders ==
    {[kind |-> "order", r |-> r, text |-> t] :
        r \in MCInside(MCRefs({3, 4, 8}, 3) \cup MCRefs({0, 4}, 2))
                \cup {Ref(m, 0, 4) : m \in {<<6, 7, 4, 5>>, <<4, 6, 7, 8>>, <<8, 6, 7, 4>>, <<6, 7, 6, 7>>}},
        t \in MCTexts \cup {<<4, 0>>, <<5, 3, 4>>, <<6, 7, 5, 5>>, <<8, 4, 6, 7>>, <<8, 8, 6, 7>>}}
MCSplits ==
    {[kind |-> "split", r |-> r] : r \in {x \in MCInside(MCRefs({MCBlank, MCComma, 4}, 5)) : x.from <= 1}}
MCFields ==
    {[kind |-> "fields", fields |-> f, delimiter |-> d] :
        f \in MCSeqs({<<4>>, <<5, 4>>, <<4, MCBlank, 5>>}, 3),
        d \in {<<MCComma>>, <<MCComma, MCBlank>>, <<MCBlank, MCComma, MCBlank>>}}
MCEdits ==
    {[kind |-> "edit", text |-> s, search |-> x, fresh |-> y] :
        s \in MCSeqs({MCBlank, 4, 5}, 5), x \in {<<4>>, <<4, 4>>, <<4, 5>>, <<4, 5, 4>>}, y \in {<<8>>, <<8, 7>>}}
MCLanguageCodes ==
    MCSeqs({3, 5, 9, 10}, 2) \cup {<<4, 5, 13>>}
    \cup {<<4, a, s, b, c>> : a \in {3, 5}, s \in {13, 14, 2}, b \in {4, 9}, c \in {3, 5}}
MCLanguagePairs == {[kind |-> "language", code |-> c, other |-> d] : c \in MCLanguageCodes, d \in MCLanguageCodes}
MCTokens == {[kind |-> "token", text |-> s] : s \in MCSeqs({3, 4, 10, 13}, 4)}
MCFiles ==
    {[kind |-> "file", path |-> p, base |-> b, ext |-> e] :
        p \in {<<>>, <<16>>, <<17, 17, 16>>, <<4, 17, 5, 16, 5, 16>>}, b \in {<<4>>, <<4, 17, 5>>, <<5, 4>>},
        e \in {<<17>>, <<17, 4>>, <<17, 5, 5>>}}
MCParts ==
    {[written |-> <<4>>, number |-> 0, read |-> <<4>>], [written |-> <<18, 18>>, number |-> 0, read |-> <<18>>]}
    \cup {[written |-> <<18>> \o n[1], number |-> n[2], read |-> <<>>] :
            n \in {<<<<11>>, 1>>, <<<<12>>, 2>>, <<<<11, 10>>, 10>>, <<<<11, 11>>, 11>>}}
MCMessages ==
    {[kind |-> "message", parts |-> p, params |-> [i \in 1 .. n |-> <<4, 18, i>>]] :
        p \in MCSeqs(MCParts, 3), n \in {0, 1, 10}}

MCInputs == MCSearches \cup MCOrders \cup MCSplits \cup MCFields \cup MCEdits \cup MCLanguagePairs \cup MCTokens
                \cup MCFiles \cup MCMessages

-----------------------------------------------------------------------------
(* The scenes *)

NoDescription == doc = MCDocument /\ phase = "none" /\ spec = NewDescription /\ error = "none" /\ written = <<>>
NoContexts ==
    /\ meta = [c \in Contexts |-> NewMetaData] /\ mappings = MCNoMappings /\ sofaMap = [c \in Contexts |-> <<>>] /\ live = FALSE
    /\ free = <<>> /\ filled = {} /\ size = 0
    /\ builds = 0 /\ assigns = 0 /\ described = MCNoMappings /\ last = <<>>
NoCapabilities == kCapabilities = {} /\ kState = "none" /\ kInputs = NewTables /\ kOutputs = NewTables

NoText == input = [kind |-> "none"]

Init ==
    \/ scene = "description" /\ DescriptionInit /\ NoContexts /\ NoCapabilities /\ NoText
    \/ scene = "contexts" /\ ContextInit /\ NoDescription /\ NoCapabilities /\ NoText
    \/ scene = "capabilities" /\ KInit /\ NoDescription /\ NoContexts /\ NoText
    \/ scene = "text" /\ TextInit /\ NoDescription /\ NoContexts /\ NoCapabilities

\* The text functions are their own answers: there is no step in their scene.
Next ==
    \/ scene = "description" /\ DescriptionNext /\ UNCHANGED <<scene, contextVars, kVars, input>>
    \/ scene = "contexts" /\ ContextNext /\ UNCHANGED <<scene, descriptionVars, kVars, input>>
    \/ scene = "capabilities" /\ KNext /\ UNCHANGED <<scene, descriptionVars, contextVars, input>>

Spec == Init /\ [][Next]_mcVars

-----------------------------------------------------------------------------
(* Properties *)

\* However the files import one another, the description read from them has each type, feature, index
\* and priority once and refuses what contradicts, and what is written of it reads back as it was
\* (taespecifierbuilder.cpp, taespecifier.cpp, typesystemdescription.cpp).
DescriptorsReadBack == TypesAreMerged /\ IndexesAreImportedOnce /\ WrittenIsReadBack

\* A description serves as it was written: it is read and written without a loss, and the sofa names
\* of its delegates are those their ancestors give them, level by level, also when a second engine is
\* made from the description the first one has rewritten (annotator_context.cpp).
DescriptionsServe == DescriptorsReadBack /\ SofaNamesCompose

\* The string reference, the string helpers, languages, token properties, file names and messages
\* give what a definition by positions says (unistrref.hpp, strtools.hpp, language.cpp and others).
TextUtilitiesAgree ==
    /\ SearchesAreExact /\ ComparisonsAgree
    /\ SplitsAreExact /\ EditsAreUndone
    /\ LanguagesAgree /\ ShortTextsAreRead
=============================================================================
