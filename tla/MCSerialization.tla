---------------------------- MODULE MCSerialization ----------------------------
(* CASes with no, one or two sofas, two tokens that refer to each other, to a  *)
(* feature structure of an unknown type and to an array or a list in every way *)
(* a feature can, sent in each of the formats.                                 *)
EXTENDS XmiSerialization, XcasSerialization, BinarySerialization, TypeSystem

MCFeatures ==
    [t \in {"Sofa", "Token", "Strange", "NEList", "EList", "Annotation", "DocumentAnnotation"} \cup ArrayTypes |->
        CASE t = "Sofa" -> {"sofaNum", "sofaID", "sofaString"}
          [] t = "Token" -> {"next", "note", "odd", "big", "shared", "inline", "chain", "items", "names",
                             "numbers", "bytes", "fine", "doubles"}
          [] t = "Strange" -> {"next"}
          [] t = "NEList" -> {"head", "tail"}
          [] t = "Annotation" -> {"sofa", "value", "next"}
          [] t = "DocumentAnnotation" -> {"sofa", "value"}
          [] OTHER -> {}]
MCRangeOf ==
    [sofaNum |-> "Integer", sofaID |-> "Integer", sofaString |-> "String", next |-> "TOP", note |-> "String", odd |-> "String",
     big |-> "Long", fine |-> "Double", doubles |-> "DoubleArray", shared |-> "FSArray", inline |-> "FSArray", chain |-> "FSList", items |-> "FSList",
     sofa |-> "TOP", value |-> "String",
     names |-> "StringArray", numbers |-> "IntArray", bytes |-> "ByteArray", head |-> "TOP", tail |-> "FSList"]

MCA == 1
MCB == 2
MCStrange == 3
MCBox == 4

MCNode(h, t) == [type |-> "NEList", val |-> ("head" :> h) @@ ("tail" :> t), elems |-> <<>>]
MCEnd == NewFS("EList", {})

\* A container at address 4 and what follows it, and the features that may refer to it
MCContainers ==
    {<<<<NewArray("FSArray", e)>>, f>> :
        e \in {<<>>, <<MCB>>, <<Null, MCB>>, <<MCB, MCStrange, MCA>>}, f \in {"shared", "inline"}}
    \cup {<<<<NewArray("IntArray", e)>>, "numbers">> : e \in {<<>>, <<7, 8>>}}
    \cup {<<<<NewArray("ByteArray", e)>>, "bytes">> : e \in {<<>>, <<9>>}}
    \cup {<<<<NewArray("DoubleArray", e)>>, "doubles">> : e \in {<<>>, <<31, 40>>}}
    \cup {<<<<NewArray("StringArray", e)>>, "names">> : e \in {<<>>, <<2, 1, Null>>}}
    \cup {<<<<NewArray("FSArray", <<MCB>>), NewArray("StringArray", <<2>>)>>, "shared">>}
    \cup {<<l, f>> : f \in {"chain", "items"},
            l \in {<<MCEnd>>, <<MCNode(MCB, MCBox + 1), MCEnd>>, <<MCNode(MCB, MCBox)>>,
                   <<MCNode(Null, MCBox + 1), MCNode(MCStrange, MCBox + 2), MCEnd>>}}

MCToken(vals) == [NewFS("Token", MCFeatures["Token"]) EXCEPT !.val = vals @@ @]
MCSofa(n) == [NewFS("Sofa", MCFeatures["Sofa"]) EXCEPT !.val = [sofaNum |-> n, sofaID |-> n, sofaString |-> 2]]

\* Sofas in the order they were made: "numbers" are theirs, the last one's view has the members.
MCSender(c, x, y, members, numbers) ==
    LET heap == <<MCToken((c[2] :> MCBox) @@ ("next" :> x) @@ ("note" :> EmptyText) @@ ("odd" :> 1) @@ ("big" :> 5) @@ ("fine" :> 25)),
                  MCToken(("next" :> y) @@ ("note" :> 2)),
                  [NewFS("Strange", {"next"}) EXCEPT !.val["next"] = 4 + Len(c[1]) + Len(numbers)]>> \o c[1]
        last == IF numbers = <<>> THEN InitialView ELSE numbers[Len(numbers)]
    IN  [heap |-> heap \o [i \in DOMAIN numbers |-> MCSofa(numbers[i])]
                       \o <<[NewFS("Strange", {"next"}) EXCEPT !.val["next"] = MCB]>>,
         index |-> [v \in 0 .. Max({InitialView} \cup Range(numbers)) |->
            IF v = BaseView THEN {Len(heap) + i : i \in DOMAIN numbers}
            ELSE IF v = last THEN members ELSE {MCB}]]

\* A document annotation in the view of the last sofa that was made
MCWithDocument(cas) ==
    LET sofa == Max({a \in DOMAIN cas.heap : cas.heap[a].type = "Sofa"})
    IN  [cas EXCEPT !.heap = Append(@, [NewFS("DocumentAnnotation", MCFeatures["DocumentAnnotation"]) EXCEPT !.val["sofa"] = sofa]),
                    !.index[cas.heap[sofa].val["sofaNum"]] = @ \cup {Len(cas.heap) + 1}]

MCSenders ==
    {MCSender(c, x, y, m, s) : c \in MCContainers, x \in {Null, MCB, MCStrange}, y \in {Null, MCA},
        m \in {{}, {MCA}, {MCA, MCStrange}, {MCA, MCBox}}, s \in {<<1>>, <<2>>}}
    \cup {MCWithDocument(MCSender(<<<<MCEnd>>, "items">>, MCB, Null, {MCA}, s)) : s \in {<<1>>, <<2>>, <<1, 2>>}}
    \cup {MCSender(<<<<MCEnd>>, "items">>, MCB, Null, {MCA}, s) : s \in {<<>>, <<1, 2>>, <<2, 1>>, <<1, 2, 3>>, <<2, 3, 1>>}}

\* Documents of version 1: up to three sofas counted from 1, the initial one among them under its present
\* name (1), under its old one (9) or not at all, and annotations of each; or one text without a sofa.
MCOldSofa(n, name) == Element("Sofa", <<0>>, <<Attr("_id", 10 * n), Attr("sofaNum", n), Attr("sofaID", name)>>, <<>>, <<>>)
MCMark(t, id, n, more, text) == Element(t, <<n>>, <<Attr("_id", id), Attr("sofa", n)>> \o more, <<>>, text)
MCMarks(n) ==
    <<MCMark("DocumentAnnotation", 100 + n, n, <<>>, <<>>),
      MCMark("Annotation", 200 + n, n, <<Attr("odd", 2), RefAttr("next", 201)>>, <<3>>)>>
MCText == Element("Document", <<>>, <<Attr("_content", "text")>>, <<>>, <<2, 3>>)
MCOldNames == {<<1>>, <<9>>, <<2>>, <<1, 2>>, <<2, 1>>, <<2, 9>>, <<2, 3>>, <<1, 2, 3>>, <<2, 1, 3>>, <<2, 3, 1>>, <<2, 3, 4>>}
MCDocument(elements) == [root |-> "CAS", elements |-> elements]
MCVersionOne ==
    {[i \in DOMAIN names |-> MCOldSofa(i, names[i])] \o FlattenSeq([i \in DOMAIN names |-> MCMarks(i)]) : names \in MCOldNames}
    \cup {<<MCText>> \o MCMarks(1), <<MCOldSofa(1, 1), MCText>> \o MCMarks(1)}

\* What may follow in them: an array that is smaller or larger than it says, with another element or with
\* attributes, an element in an element, one without an identifier, one of an unknown type with a text.
MCItem(x) == Element("i", <<>>, <<>>, <<>>, x)
MCOddArray(size, items, more) == Element("IntArray", <<0>>, <<Attr("_id", 500), Attr("size", size)>> \o more, items, <<>>)
MCOddities ==
    {<<>>, <<MCOddArray(2, <<MCItem(<<7, 1>>)>>, <<>>)>>, <<MCOddArray(1, <<MCItem(<<7>>), MCItem(<<8>>)>>, <<>>)>>,
     <<MCOddArray(1, <<Element("j", <<>>, <<>>, <<>>, <<7>>)>>, <<>>)>>, <<MCOddArray(0, <<>>, <<Attr("odd", 1)>>)>>,
     <<MCOddArray(1, <<Element("i", <<>>, <<Attr("odd", 1)>>, <<>>, <<7>>)>>, <<>>)>>,
     <<Element("Annotation", <<>>, <<>>, <<MCItem(<<7>>)>>, <<>>)>>,
     <<Element("Annotation", <<>>, <<Attr("sofa", 1), Attr("_content", "value")>>, <<>>, <<4, 5>>)>>,
     <<Element("Strange", <<>>, <<Attr("_id", 600)>>, <<>>, <<5>>)>>}

MCDocuments ==
    {MCDocument(v \o o) : v \in MCVersionOne, o \in MCOddities}
    \cup {[root |-> "XMI", elements |-> <<>>], MCDocument(<<Element("Strange", <<>>, <<Attr("_id", 600)>>, <<>>, <<>>), MCText>> \o MCMarks(1))}

-----------------------------------------------------------------------------
(* Heaps for the binary formats: two tokens (type 4, with a reference, a string  *)
(* and a 64-bit number) of which the second refers to the first, an array of     *)
(* bytes (5), one of shorts (6) and one of 64-bit numbers (7), sofas and their   *)
(* document annotations.  A cell of the string heap that nothing refers to is in *)
(* front; heaps have a number of cells that is or is no multiple of a word.      *)

MCSofaCells(n, string) == <<SofaType, n, string, string + 1>>
MCBinary(numbers, names, text, bytes, shorts, longs, note, strays) ==
    LET k == Len(numbers)
        tokens == <<0, 4, 5, 1, 1, 4, 1, 2, 1, 5, Len(bytes), 1, 6, Len(shorts), 1, 7, Len(longs), 1>>
        sofaAt(i) == Len(tokens) + 4 * (i - 1)
        documentAt(i) == Len(tokens) + 4 * k + 2 * (i - 1)
        texts == <<note, <<2, 3>>>> \o FlattenSeq([i \in 1 .. k |-> <<<<names[i]>>, text>>])
        views == 0 .. Max({InitialView} \cup Range(numbers))
        sofaOf(v) == {i \in 1 .. k : numbers[i] = v}
        blank == [EmptyCas EXCEPT !.strings = <<0, 4>>]
    IN  [AddStrings(blank, texts) EXCEPT
            !.fs = tokens \o FlattenSeq([i \in 1 .. k |-> MCSofaCells(numbers[i], 2 * i + 1)])
                          \o FlattenSeq([i \in 1 .. k |-> <<DocumentAnnotationType, sofaAt(i)>>]),
            !.bytes = <<0>> \o bytes, !.shorts = <<0>> \o shorts, !.longs = <<0>> \o longs,
            !.index = [v \in views |->
                IF v = BaseView THEN {sofaAt(i) : i \in 1 .. k}
                ELSE (IF v \in strays THEN {1, 5} ELSE {}) \cup {documentAt(i) : i \in sofaOf(v)}],
            !.sofaCount = Max(views), !.initialSofaCreated = 1 \in Range(numbers),
            !.documentAnnotation = [v \in views \ {BaseView} |-> Max({Null} \cup {documentAt(i) : i \in sofaOf(v)})],
            !.document = [v \in views \ {BaseView} |-> IF sofaOf(v) = {} THEN <<>> ELSE text]]

\* Sofas are made in the order of their numbers, but for the initial one, which may come late; the names
\* are theirs, 1 is that of the initial one.
MCBinarySenders ==
    {MCBinary(s, s, <<5>>, <<1>>, <<-7>>, <<3, 20000, -1>>, <<>>, {1}) : s \in {<<>>, <<1>>, <<2>>, <<1, 2>>, <<2, 1>>, <<2, 3, 1>>, <<2, 3>>, <<1, 3>>}}
    \cup {MCBinary(<<1, 2>>, <<1, 2>>, <<5>>, b, sh, <<-20000>>, n, strays) :
            b \in {<<>>, <<1, -2>>, <<0, 0, 1>>, <<1, 1, 1, 1>>}, sh \in {<<>>, <<1, 2>>}, n \in {<<6>>, <<6, 7>>},
            strays \in {{}, {2}}}
MCReceivers == {EmptyCas, MCBinary(<<1, 2>>, <<1, 2>>, <<8, 8>>, <<1, 1>>, <<2>>, <<3>>, <<7, 7>>, {1, 2})}

-----------------------------------------------------------------------------
(* Descriptors with up to three types of which one may be described before its   *)
(* supertype, features that meet along the hierarchy, and chains of priorities.  *)

MCBuiltin == <<[name |-> "TOP", super |-> "TOP"], [name |-> "Integer", super |-> "TOP"],
               [name |-> "String", super |-> "TOP"], [name |-> "Annotation", super |-> "TOP"]>>

MCType(n, s, allowed, feats) == [name |-> n, super |-> s, allowed |-> allowed, features |-> feats]
MCFeature(n, r) == [name |-> n, range |-> r, multi |-> n = "x"]

MCFeatureLists == {<<>>, <<MCFeature("x", "Integer")>>, <<MCFeature("x", "String"), MCFeature("y", "A")>>}

\* A below Annotation or String, B below A or Annotation, C below B or A
MCTypes ==
    {<<MCType("A", "Annotation", <<>>, fa), MCType("B", sb, <<>>, fb), MCType("C", sc, <<>>, <<>>)>> :
                fa \in MCFeatureLists, fb \in MCFeatureLists, sb \in {"A", "Annotation"}, sc \in {"A", "Z"}}
    \cup {<<MCType("B", sb, <<>>, fb), MCType("A", "Annotation", <<>>, fa)>> :
                fa \in MCFeatureLists, fb \in MCFeatureLists, sb \in {"A", "Annotation"}}
    \cup {<<MCType("A", "String", s, <<>>), MCType("B", sb, <<>>, <<MCFeature("x", "A")>>)>> :
                s \in {<<1, 2>>, <<1>>}, sb \in {"Annotation", "Integer"}}

MCPriorities == {<<>>, <<<<"A", "B">>>>, <<<<"B", "A">>>>, <<<<"B", "A">>, <<"A", "Annotation", "B">>>>,
                 <<<<"Annotation", "B">>, <<"TOP", "A">>>>, <<<<"B", "Z">>>>}

MCKey(f, r) == [feature |-> f, reverse |-> r]
MCIndex(k, t, keys) == [label |-> "index", kind |-> k, type |-> t, keys |-> keys]
MCIndexes == {<<>>, <<MCIndex("sorted", "A", <<MCKey("x", TRUE), MCKey("none", FALSE)>>)>>,
              <<MCIndex("set", "A", <<MCKey("none", FALSE), MCKey("x", FALSE)>>),
                MCIndex("set", "A", <<MCKey("none", FALSE)>>)>>,
              <<MCIndex("bag", "Annotation", <<>>), MCIndex("bag", "Annotation", <<MCKey("none", FALSE)>>)>>}

MCInputs == [types : MCTypes, priorities : MCPriorities, indexes : MCIndexes]

-----------------------------------------------------------------------------
VARIABLE about    \* what is sent: "types" or "contents"

\* One document and one descriptor stand for the half that waits.
MCInit ==
    \/ /\ about = "contents"
       /\ input = CHOOSE i \in MCInputs : TRUE
       /\ Init
       /\ XmiInit \/ XcasInit \/ BinaryInit
    \/ /\ about = "types"
       /\ Init
       /\ sender = CHOOSE c \in MCSenders : TRUE
       /\ lenient = FALSE
       /\ XmiInit

MCNext ==
    \/ about = "contents" /\ (XmiNext \/ XcasNext \/ BinaryNext) /\ UNCHANGED <<about, typeVars>>
    \/ about = "types" /\ Next /\ UNCHANGED <<about, vars>>

MCSpec == MCInit /\ [][MCNext]_<<about, vars, typeVars>>

-----------------------------------------------------------------------------
(* Properties *)

\* What an XMI receiver sends back is what it was sent but for what it changed, and every identifier
\* in it stands for one feature structure (xmiwriter.cpp with the data the reader keeps).
XmiReplies == XmiEchoes /\ XmiReplyIsSound

\* The type system made of a descriptor has the types, the slots, the priorities and the order of
\* keys that were asked for, and a receiver of it gives everything the number or name it has here
\* (casdefinition.cpp, lowlevel_typesystem.cpp and the two ways of sending a type system).
TypeSystemArrives ==
    about = "types" =>
        /\ TypesAreAsDescribed /\ SlotsAreExact
        /\ PrioritiesKeepChains /\ CompareIsAnOrder
        /\ TablesKeepNumbers /\ XmlReadsBack
=============================================================================
