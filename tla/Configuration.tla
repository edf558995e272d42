--------------------------- MODULE Configuration ---------------------------
(***************************************************************************)
(* The configuration part of a component's metadata: parameters declared   *)
(* in groups, values set in groups, and the search of a value             *)
(* (AnalysisEngineMetaData in taespecifier.cpp, with ConfigurationGroup,   *)
(* ConfigurationParameter, SettingsForGroup and NameValuePair).            *)
(*                                                                         *)
(* A group's name is the sequence of its parts, because the language       *)
(* fallback cuts it at its hyphens: "en-US" is <<"en", "US">>.             *)
(* A parameter is [type, multi, mandatory, restricted], a pair is          *)
(* [name, type, multi, value].  A lookup finds a pair, finds none, or      *)
(* throws a ConfigParamLookupException.                                    *)
(***************************************************************************)
EXTENDS Naturals, Sequences, FiniteSets

WhenNoGroups == <<"CONFIG_GROUP_NAME_WHEN_NO_GROUPS">>
CommonParms == <<"CONFIG_GROUP_NAME_COMMON_PARAMETERS">>
NoName == <<"">>
NoKey == ""

NoValue == "no value"
Found(pair) == [kind |-> "found", pair |-> pair]
Missing == [kind |-> "missing", pair |-> NoValue]
Throws == [kind |-> "throws", pair |-> NoValue]

NewMetaData ==
    [hasGroups |-> FALSE, hasDefault |-> FALSE, default |-> NoName,
     strategy |-> "none", groups |-> <<>>, settings |-> <<>>]

Strategies == {"none", "default_fallback", "language_fallback"}

IsMetaData(md) ==
    /\ DOMAIN md = DOMAIN NewMetaData
    /\ md.default \in Seq(STRING) /\ md.strategy \in Strategies

\* A map with one entry new or replaced.
Put(map, key, value) == [k \in DOMAIN map \cup {key} |-> IF k = key THEN value ELSE map[k]]

ConfigurationPart(md, group) ==
    IF group \in DOMAIN md.groups THEN md.groups[group] ELSE <<>>

Settings(md, group) ==
    IF group \in DOMAIN md.settings THEN md.settings[group] ELSE <<>>

-----------------------------------------------------------------------------
(* What is declared.                                                       *)

IsDefinedForAnnotatorContext(param, ancKey) ==
    \/ param.restricted = {}
    \/ ancKey = NoKey
    \/ ancKey \in param.restricted

\* The parameter of the group hides the common parameter of that name.
DeclaredIn(md, group, name) ==
    IF name \in DOMAIN ConfigurationPart(md, group) THEN group ELSE CommonParms

IsParameterDefined(md, group, name, ancKey) ==
    LET part == ConfigurationPart(md, DeclaredIn(md, group, name))
    IN  /\ name \in DOMAIN part
        /\ IsDefinedForAnnotatorContext(part[name], ancKey)

ConfigurationGroupNames(md) == DOMAIN md.groups \ {CommonParms}

ConfigurationParameters(md, group) ==
    IF group \notin DOMAIN md.groups THEN {}
    ELSE {<<p, md.groups[group][p]>> : p \in DOMAIN md.groups[group]}
         \cup {<<p, md.groups[CommonParms][p]>> :
                   p \in DOMAIN ConfigurationPart(md, CommonParms)}

GroupNamesForParameter(md, name) ==
    {g \in ConfigurationGroupNames(md) : IsParameterDefined(md, g, name, NoKey)}
    \cup (IF md.hasDefault /\ IsParameterDefined(md, CommonParms, name, NoKey)
          THEN {md.default} ELSE {})

-----------------------------------------------------------------------------
(* Building: the result carries an error where the code throws or returns  *)
(* one, and the metadata is then unchanged.                                *)

Done(md) == [error |-> "none", md |-> md]
Refused(error, md) == [error |-> error, md |-> md]

SetDefaultGroupName(md, group) ==
    [md EXCEPT !.hasDefault = TRUE, !.default = group]

AddConfigurationGroup(md, group) ==
    IF group \in DOMAIN md.groups THEN Refused("DUPLICATE_GROUP", md)
    ELSE Done([md EXCEPT !.groups = Put(@, group, <<>>)])

AddConfigurationParameter(md, group, name, param) ==
    LET grouped == [md EXCEPT !.hasGroups = @ \/ group # WhenNoGroups,
                              !.groups = Put(@, group, ConfigurationPart(md, group))]
    IN  IF IsParameterDefined(grouped, group, name, NoKey)
        THEN Refused("DUPLICATE_CONFIG_PARAM", md)
        ELSE Done([grouped EXCEPT !.groups[group] = Put(@, name, param)])

AddNameValuePair(md, group, pair) ==
    IF ~IsParameterDefined(md, group, pair.name, NoKey)
    THEN Refused("PARAM_NOT_DEFINED", md)
    ELSE Done([md EXCEPT !.settings = Put(@, group, Put(Settings(md, group), pair.name, pair))])

\* AnalysisEngineMetaData::commit() gives the default group a place.
Commit(md) ==
    IF md.hasDefault
    THEN [md EXCEPT !.groups = Put(@, md.default, ConfigurationPart(md, md.default))]
    ELSE md

-----------------------------------------------------------------------------
(* The search.                                                             *)

\* "de-CH-x" falls back to "de-CH", to "de" and then to the default group,
\* which is looked for even when no default group was named.
GenerateFallbackGroups(md, group, strategy) ==
    CASE strategy = "none" -> <<>>
      [] strategy = "default_fallback" -> <<md.default>>
      [] strategy = "language_fallback" ->
             [i \in 1 .. Len(group) - 1 |-> SubSeq(group, 1, Len(group) - i)]
             \o <<md.default>>

GetNameValuePairNoFallback(md, group, name, ancKey) ==
    IF ~md.hasGroups /\ group # WhenNoGroups THEN Throws
    ELSE IF name \notin DOMAIN Settings(md, group) THEN Missing
    ELSE IF IsParameterDefined(md, group, name, ancKey)
         THEN Found(Settings(md, group)[name])
         ELSE Throws

\* The first group that answers wins, an answer being also an exception.
GetNameValuePairIn(md, group, name, strategy, ancKey) ==
    LET tries == <<group>> \o GenerateFallbackGroups(md, group, strategy)
        answer == [i \in 1 .. Len(tries) |->
                      GetNameValuePairNoFallback(md, tries[i], name, ancKey)]
        answered == {i \in 1 .. Len(tries) : answer[i].kind # "missing"}
    IN  IF answered # {}
        THEN answer[CHOOSE i \in answered : \A j \in answered : i <= j]
        ELSE IF \E i \in 1 .. Len(tries) : IsParameterDefined(md, tries[i], name, ancKey)
             THEN Missing
             ELSE Throws

\* Without a group's name: the default group, or the only group there is.
GetNameValuePair(md, name, ancKey) ==
    IF ~md.hasGroups
    THEN GetNameValuePairIn(md, WhenNoGroups, name, md.strategy, ancKey)
    ELSE IF md.hasDefault
         THEN GetNameValuePairIn(md, md.default, name, md.strategy, ancKey)
         ELSE Throws

-----------------------------------------------------------------------------
(* Setting a value: the pair must fit the parameter's declaration.         *)

\* mutant: the pair is stored, then its type is compared.
SetNameValuePairEarly(md, group, pair) ==
    LET declared == ConfigurationPart(md, DeclaredIn(md, group, pair.name))
        stored == AddNameValuePair(md, group, pair)
    IN  IF stored.error # "none" THEN stored
        ELSE IF declared[pair.name].type # pair.type \/ declared[pair.name].multi # pair.multi
             THEN Refused("INVALID_TYPE_FOR_PARAM", stored.md)
             ELSE stored

SetNameValuePairIn(md, group, pair) ==
    LET declared == ConfigurationPart(md, DeclaredIn(md, group, pair.name))
    IN  IF md.groups = <<>> THEN Refused("PARAM_NOT_DEFINED", md)
        ELSE IF group \notin DOMAIN md.groups THEN Refused("INVALID_GROUP_NAME", md)
        ELSE IF pair.name \notin DOMAIN declared THEN Refused("INVALID_PARAM_NAME", md)
        ELSE IF \/ declared[pair.name].type # pair.type
                \/ declared[pair.name].multi # pair.multi
             THEN Refused("INVALID_TYPE_FOR_PARAM", md)
             ELSE AddNameValuePair(md, group, pair)

SetNameValuePair(md, pair) ==
    SetNameValuePairIn(md, IF md.hasGroups THEN md.default ELSE WhenNoGroups, pair)

-----------------------------------------------------------------------------
(* AnalysisEngineMetaData::validate() asks a value of every mandatory      *)
(* parameter of every group.  A lookup that throws leaves validate() with  *)
(* another exception: the descriptor is refused either way.                *)
ValuesAreComplete(md) ==
    \A g \in ConfigurationGroupNames(md) :
        \A param \in ConfigurationParameters(md, g) :
            param[2].mandatory =>
                GetNameValuePairIn(md, g, param[1], md.strategy, NoKey).kind = "found"

-----------------------------------------------------------------------------
(* NameValuePair: the extractors demand the pair's own type and            *)
(* multiplicity, a mismatch throws a ConfigException.                      *)
Extract(pair, type, multi) ==
    IF pair.type # type \/ pair.multi # multi
    THEN [kind |-> "throws", value |-> NoValue]
    ELSE [kind |-> "value", value |-> pair.value]
=============================================================================
