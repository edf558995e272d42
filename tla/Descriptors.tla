----------------------------- MODULE Descriptors -----------------------------
(***************************************************************************)
(* The descriptor of an analysis engine: read from its document and the    *)
(* files that the document imports, validated, committed, and written      *)
(* back (XMLParser in taespecifierbuilder.cpp, the descriptions in         *)
(* taespecifier.cpp and typesystemdescription.cpp).  The written document  *)
(* is the answer to a service's GETMETA request and what the Java engine   *)
(* is made from.                                                           *)
(*                                                                         *)
(* A document is a record of its sections and the order they come in; a    *)
(* small element is the sequence of its children, [tag, text].  Every      *)
(* builder goes through its elements and stops at the first error; a tag   *)
(* it does not know it passes over.                                        *)
(***************************************************************************)
EXTENDS Configuration, SequencesExt

CONSTANTS
    Documents,     \* the documents
    EngineFiles,   \* location -> document of a delegate
    TypeFiles,     \* location -> [types, imports]
    IndexFiles,    \* location -> parts of an index collection
    PriorityFiles  \* location -> parts of type priorities

VARIABLES
    doc,     \* the document that is read
    phase,   \* how far the description has come
    spec,    \* AnalysisEngineDescription
    error,   \* what it was refused for
    written  \* the document made of it as it is now, and its parts on their own, if any

descriptionVars == <<doc, phase, spec, error, written>>

-----------------------------------------------------------------------------
(* Results *)

\* The elements of a map in the order of its keys, whichever that is.
InOrder(S) ==
    LET order[T \in SUBSET S] ==
            IF T = {} THEN <<>> ELSE LET x == CHOOSE x \in T : TRUE IN Append(order[T \ {x}], x)
    IN  order[S]

Good(value) == [error |-> "none", value |-> value]
Bad(why) == [error |-> why, value |-> <<>>]
FromConfiguration(result) == IF result.error = "none" THEN Good(result.md) ELSE Bad(result.error)

Then(result, Step(_)) == IF result.error # "none" THEN result ELSE Step(result.value)

Attempt(first, elements, Step(_, _)) ==
    LET upTo[n \in 0 .. Len(elements)] ==
            IF n = 0 THEN Good(first) ELSE Then(upTo[n - 1], LAMBDA v : Step(v, elements[n]))
    IN  upTo[Len(elements)]

-----------------------------------------------------------------------------
(* Parameters and their values *)

AddGroups(md, groups) ==
    Attempt(md, groups, LAMBDA m, g : FromConfiguration(AddConfigurationGroup(m, g)))

AddParameter(md, groups, p) ==
    Attempt(md, groups, LAMBDA m, g : FromConfiguration(AddConfigurationParameter(m, g, p.name, p.param)))

AddParameters(md, groups, params) == Attempt(md, params, LAMBDA m, p : AddParameter(m, groups, p))

AddParameterItem(md, item) ==
    CASE item.kind = "common" -> AddParameters(md, <<CommonParms>>, item.params)
      [] item.kind = "parameter" -> AddParameters(md, <<WhenNoGroups>>, item.params)
      [] item.kind = "group" ->
             Then(AddGroups(md, item.groups), LAMBDA m : AddParameters(m, item.groups, item.params))

BuildConfigParams(md, section) ==
    Attempt([(IF section.default = NoName THEN md ELSE SetDefaultGroupName(md, section.default))
                 EXCEPT !.strategy = section.strategy],
            section.items, AddParameterItem)

\* A pair that is already there is refused; the look for it may itself be refused.
AddSetting(md, found, group, pair) ==
    CASE found.kind = "found" -> Bad("DUPLICATE_NAME_VALUE_PAIR")
      [] found.kind = "throws" -> Bad("PARAM_LOOKUP")
      [] found.kind = "missing" -> FromConfiguration(AddNameValuePair(md, group, pair))

AddGroupSetting(md, groups, pair) ==
    Attempt(md, groups, LAMBDA m, g : AddSetting(m, GetNameValuePairNoFallback(m, g, pair.name, NoKey), g, pair))

\* A pair outside of the groups is looked for in the default group, and kept apart from it.
AddSettingItem(md, item) ==
    Attempt(md, item.pairs, LAMBDA m, pair :
        IF item.groups # <<>> THEN AddGroupSetting(m, item.groups, pair)
        ELSE AddSetting(m, GetNameValuePair(m, pair.name, NoKey), WhenNoGroups, pair))

BuildConfigParamSettings(md, items) == Attempt(md, items, AddSettingItem)

-----------------------------------------------------------------------------
(* Types.  A type is [name, super, features, allowed], a feature           *)
(* [name, range, multi]; a type system is [types, imports].                *)

Position(descriptions, of) == {i \in DOMAIN descriptions : descriptions[i].name = of}

AddFeatureDescription(features, f) ==
    IF Position(features, f.name) # {} THEN Bad("DUPLICATE_FEATURE_NAME") ELSE Good(Append(features, f))

MergeFeature(features, f) ==
    IF \E i \in Position(features, f.name) : features[i].range = f.range
    THEN Good(features) ELSE AddFeatureDescription(features, f)

MergeAllowedValues(mine, others) == mine \o SelectSeq(others, LAMBDA v : v \notin Range(mine))

MergeInto(types, i, t) ==
    IF types[i].super # t.super THEN Bad("DUPLICATE_TYPE_NAME")
    ELSE Then(Attempt(types[i].features, t.features, MergeFeature), LAMBDA fs :
              Good([types EXCEPT ![i].features = fs, ![i].allowed = MergeAllowedValues(@, t.allowed)]))

\* addTypeDescription() and mergeTypeDescriptions() of one type.
MergeType(types, t) ==
    IF Position(types, t.name) = {} THEN Good(Append(types, t))
    ELSE MergeInto(types, CHOOSE i \in Position(types, t.name) : TRUE, t)

MergeTypes(types, others) == Attempt(types, others, MergeType)

BuildTypeDesc(t) ==
    Then(Attempt(<<>>, t.features, AddFeatureDescription), LAMBDA fs :
         IF IsInjective(t.allowed) THEN Good(t) ELSE Bad("DUPLICATE_ALLOWED_VALUE"))

BuildTypeSystem(section) ==
    Then(Attempt(<<>>, section.types, LAMBDA ts, t : Then(BuildTypeDesc(t), LAMBDA built : MergeType(ts, built))),
         LAMBDA ts : Good([types |-> ts, imports |-> section.imports]))

ParseTypeSystemDescription(location) ==
    IF location \in DOMAIN TypeFiles THEN BuildTypeSystem(TypeFiles[location]) ELSE Bad("FILE_NOT_FOUND")

\* resolveImports(): own types first, then those of each located file with what it imports
\* in turn; a file is read once.  Imports by name stay, but those of an imported file are
\* lost with its description.  The value is [types, imported].
RECURSIVE ResolveImports(_, _)
ResolveImports(ts, imported) ==
    Attempt([types |-> ts.types, imported |-> imported], ts.imports, LAMBDA acc, i :
        IF i.byName \/ i.location \in Range(acc.imported) THEN Good(acc)
        ELSE Then(ParseTypeSystemDescription(i.location), LAMBDA file :
             Then(ResolveImports(file, Append(acc.imported, i.location)), LAMBDA deep :
             Then(MergeTypes(acc.types, deep.types), LAMBDA all :
                  Good([types |-> all, imported |-> deep.imported])))))

-----------------------------------------------------------------------------
(* Indexes and type priorities: parts that list elements or import files.  *)
(* The value is [elements, imported].                                      *)

NewKey == [feature |-> "", comparator |-> "standard", typePriority |-> FALSE]
NewIndex == [label |-> "", type |-> "", kind |-> "sorted", keys |-> <<>>]

BuildFSIndexKeyDesc(element) ==
    FoldLeft(LAMBDA k, e :
                 CASE e.tag = "featureName" -> [k EXCEPT !.feature = e.text]
                   [] e.tag = "comparator" /\ e.text \in {"standard", "reverse"} -> [k EXCEPT !.comparator = e.text]
                   [] e.tag = "typePriority" -> [k EXCEPT !.typePriority = TRUE]
                   [] OTHER -> k,
             NewKey, element)

BuildFSIndexDesc(element) ==
    FoldLeft(LAMBDA x, e :
                 CASE e.tag = "label" -> [x EXCEPT !.label = e.text]
                   [] e.tag = "typeName" -> [x EXCEPT !.type = e.text]
                   [] e.tag = "kind" /\ e.text \in {"sorted", "bag", "set"} -> [x EXCEPT !.kind = e.text]
                   [] e.tag = "keys" -> [x EXCEPT !.keys = @ \o [i \in DOMAIN e.text |-> BuildFSIndexKeyDesc(e.text[i])]]
                   [] OTHER -> x,
             NewIndex, element)

BuildTypePriority(element) == [i \in DOMAIN element |-> element[i].text]

BuildEach(Build(_), elements) == [i \in DOMAIN elements |-> Build(elements[i])]

AddElements(acc, elements) == [acc EXCEPT !.elements = @ \o elements]
AddLocation(acc, i) == [acc EXCEPT !.imported = Append(@, i.location)]

\* What there is to read of an import: nothing when it was read before.
ImportOnce(files, acc, i) ==
    IF i.byName THEN Bad("INVALID_IMPORT_ATTRIBUTE")
    ELSE IF i.location \in Range(acc.imported) THEN Good(<<>>)
    ELSE IF i.location \notin DOMAIN files THEN Bad("FILE_NOT_FOUND")
    ELSE Good(files[i.location])

\* mutant: every import starts from the files that led to it.
RECURSIVE CollectByPath(_, _, _)
CollectByPath(files, first, parts) ==
    Attempt(first, parts, LAMBDA acc, p :
        Attempt(AddElements(acc, p.elements), p.imports, LAMBDA below, i :
            Then(ImportOnce(files, below, i), LAMBDA read :
                Then(CollectByPath(files, AddLocation(below, i), read), LAMBDA all :
                     Good([all EXCEPT !.imported = below.imported])))))

RECURSIVE Collect(_, _, _)
Collect(files, first, parts) ==
    Attempt(first, parts, LAMBDA acc, p :
        Attempt(AddElements(acc, p.elements), p.imports, LAMBDA below, i :
            Then(ImportOnce(files, below, i), LAMBDA read : Collect(files, AddLocation(below, i), read))))

Elements(result) == Then(result, LAMBDA v : Good(v.elements))

BuildFSIndexCollection(indexes, parts) ==
    Then(Elements(Collect(IndexFiles, [elements |-> <<>>, imported |-> <<>>], parts)), LAMBDA es :
         Good(indexes \o BuildEach(BuildFSIndexDesc, es)))

BuildTypePriorities(priorities, parts) ==
    Then(Elements(Collect(PriorityFiles, [elements |-> <<>>, imported |-> <<>>], parts)), LAMBDA es :
         Good(priorities \o BuildEach(BuildTypePriority, es)))

-----------------------------------------------------------------------------
(* Capabilities: the features of a type are those described so far.        *)

FeaturesOf(types, of) ==
    UNION {{<<of, f.name>> : f \in Range(types[i].features)} : i \in Position(types, of)}

BuildCapability(types, items) ==
    [inputs |-> {i.name : i \in {i \in Range(items) : i.input}}
                \cup UNION {FeaturesOf(types, i.name[1]) : i \in {i \in Range(items) : i.input /\ i.all}},
     outputs |-> {i.name : i \in {i \in Range(items) : ~i.input}}
                 \cup UNION {FeaturesOf(types, i.name[1]) : i \in {i \in Range(items) : ~i.input /\ i.all}}]

-----------------------------------------------------------------------------
(* The small sections *)

DefaultProperties == [modifiesCas |-> TRUE, multipleDeploymentAllowed |-> TRUE, outputsNewCASes |-> FALSE]
NoProperties ==
    [modifiesCas |-> FALSE, multipleDeploymentAllowed |-> FALSE, outputsNewCASes |-> FALSE, given |-> FALSE]

\* A flow is <<>> when there is none, or <<[type, nodes]>>.
BuildFixedFlow(element) == <<[type |-> "fixedFlow", nodes |-> BuildTypePriority(element)]>>
BuildCapabilityLanguageFlow(element) == <<[type |-> "capabilityLanguageFlow", nodes |-> BuildTypePriority(element)]>>

\* The last one counts, be there none.
BuildFlowConstraints(element) ==
    FoldLeft(LAMBDA flow, e : CASE e.tag = "fixedFlow" -> BuildFixedFlow(e.text)
                                [] e.tag = "capabilityLanguageFlow" -> BuildCapabilityLanguageFlow(e.text)
                                [] OTHER -> flow,
             <<>>, element)

\* Whatever is not "true" is false.
BuildOperationalProperties(element) ==
    FoldLeft(LAMBDA p, e : IF e.tag \in DOMAIN NoProperties \ {"given"} THEN [p EXCEPT ![e.tag] = e.text = "true"] ELSE p,
             [NoProperties EXCEPT !.given = TRUE], element)

BuildSofaMapping(element) ==
    FoldLeft(LAMBDA m, e : IF e.tag \in DOMAIN m THEN [m EXCEPT ![e.tag] = e.text] ELSE m,
             [componentKey |-> "", componentSofaName |-> "", aggregateSofaName |-> ""], element)

BuildSofaMappings(mappings, elements) == mappings \o BuildEach(BuildSofaMapping, elements)

-----------------------------------------------------------------------------
(* The description *)

NewDescription ==
    [primitive |-> FALSE, delegates |-> <<>>, config |-> NewMetaData, types |-> <<>>, imports |-> <<>>,
     priorities |-> <<>>, indexes |-> <<>>, capabilities |-> <<>>, flow |-> <<>>,
     properties |-> NoProperties, mappings |-> <<>>]

SetPart(d, result, part) == Then(result, LAMBDA v : Good([d EXCEPT ![part] = v]))

BuildSection(text, d, tag) ==
    CASE tag = "parameters" -> SetPart(d, BuildConfigParams(d.config, text.parameters), "config")
      [] tag = "settings" -> SetPart(d, BuildConfigParamSettings(d.config, text.settings), "config")
      [] tag = "types" -> Then(BuildTypeSystem(text.types), LAMBDA ts :
                               Good([d EXCEPT !.types = ts.types, !.imports = ts.imports]))
      [] tag = "priorities" -> SetPart(d, BuildTypePriorities(d.priorities, text.priorities), "priorities")
      [] tag = "indexes" -> SetPart(d, BuildFSIndexCollection(d.indexes, text.indexes), "indexes")
      [] tag = "capabilities" ->
             Good([d EXCEPT !.capabilities =
                       @ \o [i \in DOMAIN text.capabilities |-> BuildCapability(d.types, text.capabilities[i])]])
      [] tag = "flow" -> Good([d EXCEPT !.flow = BuildFlowConstraints(text.flow)])
      [] tag = "properties" -> Good([d EXCEPT !.properties = BuildOperationalProperties(text.properties)])

\* The metadata, after which the located imports of types are resolved.
BuildMetaData(text, d) ==
    Then(Attempt(d, text.order, LAMBDA r, tag : BuildSection(text, r, tag)), LAMBDA r :
    Then(ResolveImports([types |-> r.types, imports |-> r.imports], <<>>), LAMBDA all :
         Good([r EXCEPT !.types = all.types, !.imports = SelectSeq(@, LAMBDA i : i.byName)])))

\* A delegate is part of the document or a file of its own; a later one takes the key.
RECURSIVE BuildAnalysisEngineDescription(_)
BuildAnalysisEngineDescription(text) ==
    Then(Attempt([NewDescription EXCEPT !.primitive = text.primitive],
                 text.delegates, LAMBDA d, del :
             IF ~del.inline /\ del.location \notin DOMAIN EngineFiles THEN Bad("FILE_NOT_FOUND")
             ELSE Then(BuildAnalysisEngineDescription(IF del.inline THEN del.doc[1] ELSE EngineFiles[del.location]),
                       LAMBDA built : Good([d EXCEPT !.delegates = (del.key :> built) @@ @]))),
         LAMBDA d : Then(BuildMetaData(text, d), LAMBDA all :
                         Good([all EXCEPT !.mappings = BuildSofaMappings(@, text.mappings)])))

-----------------------------------------------------------------------------
(* Validation and commit *)

\* Allowed values belong to subtypes of the string type.
ValidTypes(types) == \A i \in DOMAIN types : types[i].allowed = <<>> \/ types[i].super = "String"

Labels(indexes) == [i \in DOMAIN indexes |-> indexes[i].label]

ValidateMetaData(d) ==
    IF ~ValidTypes(d.types) THEN Bad("ALLOWED_VALUES_FOR_NON_STRING")
    ELSE IF ~IsInjective(Labels(d.indexes)) THEN Bad("DUPLICATE_INDEX_LABEL")
    ELSE IF ~ValuesAreComplete(d.config) THEN Bad("NO_VALUE_FOR_MANDATORY_PARAM")
    ELSE Good(d)

\* validate(): the delegates, then their types become types of the aggregate, then itself.
RECURSIVE ValidateDescription(_)
ValidateDescription(d) ==
    Then(Attempt(d, InOrder(DOMAIN d.delegates), LAMBDA r, k :
             Then(ValidateDescription(r.delegates[k]), LAMBDA del : Good([r EXCEPT !.delegates[k] = del]))),
         LAMBDA valid :
    Then(Attempt(valid.types, InOrder(DOMAIN d.delegates), LAMBDA ts, k : MergeTypes(ts, valid.delegates[k].types)),
         LAMBDA ts : ValidateMetaData([valid EXCEPT !.types = ts])))

RECURSIVE CommitDescription(_)
CommitDescription(d) ==
    [d EXCEPT !.config = Commit(@),
              !.delegates = [k \in DOMAIN @ |-> CommitDescription(@[k])]]

-----------------------------------------------------------------------------
(* Writing *)

Named(f) == LET names == InOrder(DOMAIN f) IN [i \in DOMAIN names |-> [name |-> names[i], param |-> f[names[i]]]]

\* A restriction to delegates is not written.
WriteParams(params) == [i \in DOMAIN Named(params) |-> [Named(params)[i] EXCEPT !.param.restricted = {}]]

\* The groups come in the order of their names, one element for each, the common
\* parameters among them.
WriteConfigParams(md) ==
    LET groups == InOrder(DOMAIN md.groups)
        plain == [kind |-> "parameter", groups |-> <<>>, params |-> WriteParams(ConfigurationPart(md, WhenNoGroups))]
    IN  IF ~md.hasGroups THEN [default |-> NoName, strategy |-> "none", items |-> <<plain>>]
        ELSE [default |-> IF md.hasDefault THEN md.default ELSE NoName, strategy |-> md.strategy,
              items |-> [i \in DOMAIN groups |->
                            [kind |-> IF groups[i] = CommonParms THEN "common" ELSE "group",
                             groups |-> <<groups[i]>>, params |-> WriteParams(md.groups[groups[i]])]]]

WriteSettings(md) ==
    LET groups == InOrder(DOMAIN md.settings)
    IN  [i \in DOMAIN groups |->
            [groups |-> IF md.hasGroups THEN <<groups[i]>> ELSE <<>>,
             pairs |-> LET ps == Named(md.settings[groups[i]]) IN [j \in DOMAIN ps |-> ps[j].param]]]

WriteCapability(c) ==
    LET ins == InOrder(c.inputs)
        outs == InOrder(c.outputs)
    IN  [i \in DOMAIN ins |-> [name |-> ins[i], input |-> TRUE, all |-> FALSE]]
        \o [i \in DOMAIN outs |-> [name |-> outs[i], input |-> FALSE, all |-> FALSE]]

Tag(tag, text) == [tag |-> tag, text |-> text]
AsText(b) == IF b THEN "true" ELSE "false"

\* Operational properties that were not given are written with their defaults.
WithDefaults(p) == IF p.given THEN p ELSE DefaultProperties @@ [given |-> TRUE]

WriteProperties(p) ==
    LET Element(name) == Tag(name, AsText(WithDefaults(p)[name]))
    IN  <<Element("modifiesCas"), Element("multipleDeploymentAllowed"), Element("outputsNewCASes")>>

\* An aggregate without a flow cannot be written.
WriteFlow(d) ==
    [i \in DOMAIN d.flow |->
        Tag(d.flow[i].type, [j \in DOMAIN d.flow[i].nodes |-> Tag("node", d.flow[i].nodes[j])])]

\* A key is the type priority, or a feature and how it is compared.
WriteFSIndexKey(k) ==
    IF k.typePriority THEN <<Tag("typePriority", "")>>
    ELSE <<Tag("featureName", k.feature), Tag("comparator", k.comparator)>>

WriteFSIndex(x) ==
    <<Tag("label", x.label), Tag("typeName", x.type), Tag("kind", x.kind)>>
    \o (IF x.keys = <<>> THEN <<>> ELSE <<Tag("keys", BuildEach(WriteFSIndexKey, x.keys))>>)

WriteTypePriority(types) == [i \in DOMAIN types |-> Tag("type", types[i])]

WriteSofaMapping(m) ==
    <<Tag("componentKey", m.componentKey), Tag("componentSofaName", m.componentSofaName),
      Tag("aggregateSofaName", m.aggregateSofaName)>>

\* The imports by name go out as they came, for the Java engine to resolve.
WriteTypes(types, imports) == [types |-> types, imports |-> imports]
WriteTypePriorities(priorities) == <<[elements |-> BuildEach(WriteTypePriority, priorities), imports |-> <<>>]>>
WriteFSIndexes(indexes) == <<[elements |-> BuildEach(WriteFSIndex, indexes), imports |-> <<>>]>>

\* toXMLBuffer(): what was imported by location is part of the document now.
WriteMetaData(d) ==
    [order |-> <<"parameters", "settings">> \o (IF d.primitive THEN <<>> ELSE <<"flow">>)
               \o <<"priorities", "types", "indexes", "capabilities", "properties">>,
     parameters |-> WriteConfigParams(d.config),
     settings |-> WriteSettings(d.config),
     types |-> WriteTypes(d.types, d.imports),
     priorities |-> WriteTypePriorities(d.priorities),
     indexes |-> WriteFSIndexes(d.indexes),
     capabilities |-> [i \in DOMAIN d.capabilities |-> WriteCapability(d.capabilities[i])],
     flow |-> IF d.primitive THEN <<>> ELSE WriteFlow(d),
     properties |-> WriteProperties(d.properties)]

RECURSIVE WriteDescription(_)
WriteDescription(d) ==
    LET keys == InOrder(DOMAIN d.delegates)
    IN  WriteMetaData(d) @@
        [primitive |-> d.primitive, mappings |-> BuildEach(WriteSofaMapping, d.mappings),
         delegates |-> [i \in DOMAIN keys |->
                           [key |-> keys[i], inline |-> TRUE, location |-> "",
                            doc |-> <<WriteDescription(d.delegates[keys[i]])>>]]]

-----------------------------------------------------------------------------
(* Parts of a description on their own: a buffer is <<>> when nothing was  *)
(* appended to it, which is no document, or <<[root, elements]>>.          *)

Buffer(root, elements) == <<[root |-> root, elements |-> elements]>>

\* appendToXMLBuffer(): indexes have an element even if there are none.
AppendFSIndexes(indexes) == Buffer("fsIndexes", BuildEach(WriteFSIndex, indexes))
AppendTypePriorities(priorities) ==
    IF priorities = <<>> THEN <<>> ELSE Buffer("typePriorities", BuildEach(WriteTypePriority, priorities))
AppendSofaMappings(mappings) ==
    IF mappings = <<>> THEN <<>> ELSE Buffer("sofaMappings", BuildEach(WriteSofaMapping, mappings))

\* buildFromXMLBuffer(): the root is asserted to be the right one.
ParseBuffer(buffer, root) ==
    IF buffer = <<>> THEN Bad("XML")
    ELSE IF buffer[1].root # root THEN Bad("ASSERTION")
    ELSE Good(buffer[1].elements)

ParseFSIndexDescription(buffer) ==
    Then(ParseBuffer(buffer, "fsIndexes"), LAMBDA e : Good(BuildEach(BuildFSIndexDesc, e)))
ParseTypePriorities(buffer) ==
    Then(ParseBuffer(buffer, "typePriorities"), LAMBDA e : Good(BuildEach(BuildTypePriority, e)))
ParseSofaMappings(buffer) ==
    Then(ParseBuffer(buffer, "sofaMappings"), LAMBDA e : Good(BuildEach(BuildSofaMapping, e)))

WriteParts(d) ==
    [indexes |-> AppendFSIndexes(d.indexes), priorities |-> AppendTypePriorities(d.priorities),
     mappings |-> AppendSofaMappings(d.mappings)]

-----------------------------------------------------------------------------
DescriptionInit ==
    /\ doc \in Documents
    /\ phase = "new"
    /\ spec = NewDescription
    /\ error = "none"
    /\ written = <<>>

Parse ==
    /\ phase = "new"
    /\ LET built == BuildAnalysisEngineDescription(doc)
       IN  /\ spec' = IF built.error = "none" THEN built.value ELSE spec
           /\ error' = built.error
           /\ phase' = IF built.error = "none" THEN "built" ELSE "refused"
    /\ UNCHANGED <<doc, written>>

Validate ==
    /\ phase = "built"
    /\ LET valid == ValidateDescription(spec)
       IN  /\ spec' = IF valid.error = "none" THEN valid.value ELSE spec
           /\ error' = valid.error
           /\ phase' = IF valid.error = "none" THEN "valid" ELSE "refused"
    /\ written' = <<>>
    /\ UNCHANGED doc

CommitSpec ==
    /\ phase = "valid"
    /\ spec' = CommitDescription(spec)
    /\ phase' = "committed"
    /\ written' = <<>>
    /\ UNCHANGED <<doc, error>>

\* toXMLBuffer() of a parsed or of a committed description, and appendToXMLBuffer() of its parts.
Write ==
    /\ phase \in {"built", "committed"}
    /\ written = <<>>
    /\ written' = <<[document |-> WriteDescription(spec), parts |-> WriteParts(spec)]>>
    /\ UNCHANGED <<doc, phase, spec, error>>

DescriptionNext == Parse \/ Validate \/ CommitSpec \/ Write

-----------------------------------------------------------------------------
(* Properties *)

\* The files that a list of imports leads to, in any number of steps.
Leads(files, ImportsOf(_), first) ==
    LET Direct(is) == {i.location : i \in {i \in Range(is) : ~i.byName}}
        reach[n \in 0 .. Cardinality(DOMAIN files)] ==
            IF n = 0 THEN Direct(first)
            ELSE LET before == reach[n - 1]
                 IN  before \cup UNION {Direct(ImportsOf(files[l])) : l \in before \cap DOMAIN files}
    IN  reach[Cardinality(DOMAIN files)]

AllImports(parts) == FlattenSeq([i \in DOMAIN parts |-> parts[i].imports])

Has(tag) == tag \in Range(doc.order)

TypeFilesOf(d) == IF ~Has("types") THEN {} ELSE Leads(TypeFiles, LAMBDA f : f.imports, d.types.imports)

DescribedTypes(d) ==
    (IF Has("types") THEN Range(d.types.types) ELSE {})
    \cup UNION {Range(TypeFiles[l].types) : l \in TypeFilesOf(d) \cap DOMAIN TypeFiles}

Contradict(s, t) ==
    /\ s.name = t.name
    /\ \/ s.super # t.super
       \/ \E f \in Range(s.features), g \in Range(t.features) : f.name = g.name /\ f.range # g.range

Facts(types) ==
    {<<t.name, t.super>> : t \in types}
    \cup UNION {{<<t.name, f.name, f.range>> : f \in Range(t.features)} : t \in types}
    \cup UNION {{<<"value of", t.name, v, "">> : v \in Range(t.allowed)} : t \in types}

\* An engine description has every type, feature and allowed value of its document and of
\* all the files this imports, once, whatever the order, the repetitions and the cycles of
\* the imports; and it is refused for its types exactly when two of them contradict.
TypesAreMerged ==
    LET types == DescribedTypes(doc)
        contradicting == \E s, t \in types : Contradict(s, t)
        refused == error \in {"DUPLICATE_TYPE_NAME", "DUPLICATE_FEATURE_NAME"}
    IN  doc.primitive =>
        /\ phase \in {"built", "valid", "committed"} =>
               /\ TypeFilesOf(doc) \subseteq DOMAIN TypeFiles
               /\ Facts(Range(spec.types)) = Facts(types)
               /\ \A i, j \in DOMAIN spec.types : spec.types[i].name = spec.types[j].name => i = j
        /\ refused => contradicting
        /\ (phase # "new" /\ contradicting /\ TypeFilesOf(doc) \subseteq DOMAIN TypeFiles) => refused

ElementsOf(parts) == FlattenSeq([i \in DOMAIN parts |-> parts[i].elements])

\* The indexes are those of the document and of every file its imports lead to, each as
\* often as it is written there: no repetition and no cycle of the imports adds or drops one.
IndexesAreImportedOnce ==
    LET files == Leads(IndexFiles, AllImports, AllImports(doc.indexes))
        all == <<ElementsOf(doc.indexes)>> \o [i \in DOMAIN InOrder(files) |-> ElementsOf(IndexFiles[InOrder(files)[i]])]
        described == BuildEach(BuildFSIndexDesc, FlattenSeq(all))
    IN  (phase \in {"built", "valid", "committed"} /\ Has("indexes")) =>
        \A x \in Range(described) \cup Range(spec.indexes) :
            Cardinality({i \in DOMAIN spec.indexes : spec.indexes[i] = x})
            = Cardinality({i \in DOMAIN described : described[i] = x})

\* What a written document leaves out or cannot say: restrictions of a parameter, groups
\* without a parameter, an aggregate without a flow.
RECURSIVE CanBeWritten(_)
CanBeWritten(d) ==
    /\ \A g \in DOMAIN d.config.groups : \A p \in Range(d.config.groups[g]) : p.restricted = {}
    /\ d.config.hasGroups \/ (~d.config.hasDefault /\ DOMAIN d.config.groups \subseteq {WhenNoGroups})
    /\ d.config.hasGroups \/ d.config.strategy = "none"
    /\ \A i \in DOMAIN d.indexes : \A k \in Range(d.indexes[i].keys) : k.typePriority => k = [NewKey EXCEPT !.typePriority = TRUE]
    /\ d.primitive \/ d.flow # <<>>
    /\ \A k \in DOMAIN d.delegates : CanBeWritten(d.delegates[k])

RECURSIVE Comparable(_)
Comparable(d) ==
    [d EXCEPT !.properties = WithDefaults(@),
              !.config.groups = [g \in {g \in DOMAIN @ : @[g] # <<>>} |-> @[g]],
              !.flow = IF d.primitive THEN <<>> ELSE @,
              !.delegates = [k \in DOMAIN @ |-> Comparable(@[k])]]

\* The document that toXMLBuffer() makes is read back as the description it was made
\* from, with its delegates: what a client of the service is told, and what the Java
\* engine is made from, is the engine that runs.  Its indexes, priorities and mappings
\* that are written on their own are read back as well, if there is anything to write.
WrittenIsReadBack ==
    \A text \in Range(written) :
        CanBeWritten(spec) =>
            LET read == BuildAnalysisEngineDescription(text.document)
            IN  /\ read.error = "none" /\ Comparable(read.value) = Comparable(spec)
                /\ ParseFSIndexDescription(text.parts.indexes) = Good(spec.indexes)
                /\ spec.priorities # <<>> => ParseTypePriorities(text.parts.priorities) = Good(spec.priorities)
                /\ spec.mappings # <<>> => ParseSofaMappings(text.parts.mappings) = Good(spec.mappings)

\* "xmlString must have been created by calling one of the appendToXMLBuffer methods"
\* (taespecifierbuilder.hpp) is not enough: nothing appended is nothing to parse.
PartsAreReadBack ==
    \A text \in Range(written) :
        /\ ParseTypePriorities(text.parts.priorities) = Good(spec.priorities)
        /\ ParseSofaMappings(text.parts.mappings) = Good(spec.mappings)
=============================================================================
