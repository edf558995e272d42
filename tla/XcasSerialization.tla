-------------------------- MODULE XcasSerialization --------------------------
(***************************************************************************)
(* XCAS: a CAS is written as one element for each feature structure, with  *)
(* the views it is indexed in, and read back by a handler of the events of *)
(* a SAX parser.                                                           *)
(*                                                                         *)
(* A document is [root, elements], an element [name, indexed, attrs,       *)
(* children, text, closed].  "indexed" are the views of the attribute      *)
(* _indexed; the other attributes are a sequence of [name, value]: _id,    *)
(* _content, size, a feature, or a feature after _ref_, which says that    *)
(* the value is an _id.  A text is a sequence of characters, which are the *)
(* digits of what it stands for or a blank.  The numbers of sofas in a     *)
(* document need not be those the receiver gives them; in documents of     *)
(* version 1 they are counted from 1, and annotations hold them instead of *)
(* references.                                                             *)
(***************************************************************************)
EXTENDS CasGraph

CONSTANTS
    Annotations,   \* the types below AnnotationBase
    Documents      \* documents of other writers

NoSender == [heap |-> <<>>, index |-> [v \in {} |-> {}]]
NoText == -1      \* the value of an attribute that is empty
Blank == 10       \* a character between tags

Attr(name, value) == [name |-> name, ref |-> FALSE, value |-> value]
RefAttr(name, value) == [name |-> name, ref |-> TRUE, value |-> value]
Element(name, indexed, attrs, children, text) ==
    [name |-> name, indexed |-> indexed, attrs |-> attrs, children |-> children, text |-> text, closed |-> TRUE]

\* A number as it is written, and as atoi() and the streams read it.
Chars(n) ==
    LET digits == CHOOSE k \in 1 .. 9 : n < 10 ^ k /\ (k = 1 \/ n >= 10 ^ (k - 1))
    IN  [i \in 1 .. digits |-> (n \div 10 ^ (digits - i)) % 10]
NumberIn(text) == FoldLeft(LAMBDA n, c : 10 * n + c, 0, text)
StringIn(text) == IF text = <<>> THEN EmptyText ELSE NumberIn(text)

-----------------------------------------------------------------------------
(* The writer *)

\* findReferencedFSs(): every reference is followed.
XcasReferences(heap, a) ==
    (IF heap[a].type = "FSArray" THEN Range(heap[a].elems)
     ELSE {heap[a].val[f] : f \in {f \in DOMAIN heap[a].val : ~IsPrimitive(RangeOf[f])}}) \ {Null}

\* writeFeatureValue(): a number is always written, a missing string or reference never.
FeatureAttrs(fs, f) ==
    CASE IsNumber(RangeOf[f]) -> <<Attr(f, Printed(RangeOf[f], fs.val[f]))>>
      [] ~IsNumber(RangeOf[f]) /\ fs.val[f] = Null -> <<>>
      [] RangeOf[f] = "String" /\ fs.val[f] # Null -> <<Attr(f, IF fs.val[f] = EmptyText THEN NoText ELSE fs.val[f])>>
      [] OTHER -> <<RefAttr(f, fs.val[f])>>

\* writeArray(), writeStringArray(): a missing string is written like an empty one.
ArrayItems(fs) ==
    [i \in DOMAIN fs.elems |-> Element("i", <<>>, <<>>, <<>>,
        IF fs.type = "StringArray" /\ fs.elems[i] \in {Null, EmptyText} THEN <<>>
        ELSE Chars(Printed(fs.type, fs.elems[i])))]

\* writeFSFlat(): the element of a byte array without elements gets no size and is not closed.
XcasElement(cas, a) ==
    LET fs == cas.heap[a]
        indexInfo == Ascending({v \in DOMAIN cas.index : a \in cas.index[v]})
        features == IF fs.type = "Sofa" THEN <<"sofaNum", "sofaID", "sofaString">> ELSE FoldSet(LAMBDA f, seq : Append(seq, f), <<>>, DOMAIN fs.val)
        unclosed == fs.type = "ByteArray" /\ fs.elems = <<>>
        shape == CASE unclosed -> <<>>
                   [] fs.type \in ArrayTypes /\ ~unclosed -> <<Attr("size", Len(fs.elems))>>
                   [] OTHER -> FlattenSeq([i \in DOMAIN features |-> FeatureAttrs(fs, features[i])])
    IN  [Element(fs.type, indexInfo, <<Attr("_id", a)>> \o shape, ArrayItems(fs), <<>>) EXCEPT !.closed = ~unclosed]

\* What is indexed in a view, and what that refers to, in the order of addresses.
XcasWrite(cas) ==
    LET refs == [a \in DOMAIN cas.heap |-> XcasReferences(cas.heap, a)]
        enqueuedFS == Ascending(Reached(cas.heap, Indexed(cas), refs, {}))
    IN  [root |-> "CAS", elements |-> [i \in DOMAIN enqueuedFS |-> XcasElement(cas, enqueuedFS[i])]]

\* The events of a parser that goes through a document: there are blanks around the elements of an array.
\* A tag that is not closed ends the parse.
Start(e) == [kind |-> "start", name |-> e.name, indexed |-> e.indexed, attrs |-> e.attrs]
TextOf(text) == IF text = <<>> THEN <<>> ELSE <<[kind |-> "chars", text |-> text]>>
End(e) == [kind |-> "end", name |-> e.name]
EventsOf(e) ==
    LET ItemEvents(i) == TextOf(<<Blank>>) \o <<Start(i)>> \o TextOf(i.text) \o <<End(i)>>
    IN  IF ~e.closed THEN <<[kind |-> "error"]>>
        ELSE <<Start(e)>> \o TextOf(e.text) \o FlattenSeq([i \in DOMAIN e.children |-> ItemEvents(e.children[i])])
                          \o (IF e.children = <<>> THEN <<>> ELSE TextOf(<<Blank>>)) \o <<End(e)>>
Events(doc) ==
    LET root == Element(doc.root, <<>>, <<>>, <<>>, <<>>)
    IN  <<Start(root)>> \o FlattenSeq([i \in DOMAIN doc.elements |-> EventsOf(doc.elements[i])]) \o <<End(root)>>

-----------------------------------------------------------------------------
(* The handler.  indexMap[n + 1] is what sofa number n of the document becomes and sofaRefMap[n + 1] *)
(* the identifier of that sofa; indexRepositories are the views in the order in which they were met. *)

\* A reader of a CAS that is empty.
XcasReader ==
    [state |-> "DOC", buffer |-> <<>>, heap |-> <<>>, index |-> (BaseView :> {}) @@ (InitialView :> {}),
     fsTree |-> [i \in {} |-> Null], idLess |-> <<>>,
     currentAddr |-> Null, currentContentFeat |-> "value", arrayPos |-> 0,
     sofaRefMap |-> <<1>>, indexMap |-> <<0>>, nextIndex |-> 0,
     indexRepositories |-> <<BaseView, InitialView>>,
     sofaCount |-> 1, initialSofaCreated |-> FALSE, tcasInstances |-> <<>>,
     documentAnnotation |-> (InitialView :> Null), document |-> (InitialView :> Null)]

Has(attrs, name) == \E i \in DOMAIN attrs : attrs[i].name = name
ValueOf(attrs, name, default) ==
    IF Has(attrs, name) THEN attrs[CHOOSE i \in DOMAIN attrs : attrs[i].name = name].value ELSE default

\* A mutant: the numbers of further sofas are not counted up.
MapSofaNumOnce(r, n, isInitial) ==
    LET become(map, next) == [r EXCEPT !.indexMap = map, !.nextIndex = next] IN
    CASE r.indexMap = <<0>> -> become(IF isInitial THEN <<0, 1>> ELSE <<0, 1, 2>>, IF isInitial THEN 2 ELSE 3)
      [] r.indexMap # <<0>> /\ isInitial -> r
      [] OTHER -> become(Append(r.indexMap, r.nextIndex), r.nextIndex)

\* The first sofa fixes how the numbers of the document are understood.
MapSofaNum(r, n, isInitial) ==
    LET become(map, next) == [r EXCEPT !.indexMap = map, !.nextIndex = next] IN
    CASE r.indexMap = <<0>> /\ isInitial -> become(IF n = 2 THEN <<0, -1, 1>> ELSE <<0, 1>>, 2)
      [] r.indexMap = <<0>> /\ ~isInitial -> become(IF n > 1 THEN <<0, 1, 2>> ELSE <<0, 2>>, 3)
      [] r.indexMap # <<0>> /\ isInitial ->
            become(IF Len(r.indexMap) = n THEN Append(r.indexMap, 1) ELSE r.indexMap, r.nextIndex)
      [] OTHER -> become(Append(r.indexMap, r.nextIndex), r.nextIndex + 1)

\* The identifier of sofa number n, after those that are known or in the place of one.
MapSofaRef(map, n, id) ==
    [i \in 1 .. Max({Len(map), n + 1}) |-> IF i = n + 1 THEN id ELSE IF i <= Len(map) THEN map[i] ELSE 0]

\* Only the present name of the initial sofa is taken for it, not the one of version 1.
MapSofa(r, attrs) ==
    LET n == ValueOf(attrs, "sofaNum", 0)
        id == ValueOf(attrs, "_id", 0)
    IN  [MapSofaNum(r, n, ValueOf(attrs, "sofaID", Null) = InitialView) EXCEPT !.sofaRefMap = MapSofaRef(@, n, id)]

\* handleFeature(): the identifier of a sofa comes after its number, which is then replaced; the number in
\* an annotation becomes a reference; an unknown feature is skipped and nothing empty is stored.
HandleFeature(r, a, attr) ==
    LET t == r.heap[a].type
        numbered == IF attr.name = "sofaID" /\ t = "Sofa"
                    THEN [r EXCEPT !.heap[a].val["sofaNum"] = r.indexMap[@ + 1]] ELSE r
        v == IF attr.name = "sofa" /\ ~attr.ref /\ t \in Annotations THEN r.sofaRefMap[Max({0, attr.value}) + 1]
             ELSE attr.value
    IN  IF attr.name \notin DOMAIN r.heap[a].val \/ v = NoText THEN numbered
        ELSE [numbered EXCEPT !.heap[a].val[attr.name] = v]

\* The attributes of readFS().
HandleAttr(r, a, attr) ==
    CASE attr.name = "_content" -> [r EXCEPT !.currentContentFeat = attr.value]
      [] attr.name = "_id" -> r
      [] attr.name \notin {"_content", "_id"} -> HandleFeature(r, a, attr)

HandleAttrs(r, a, attrs) == FoldLeft(LAMBDA x, attr : HandleAttr(x, a, attr), r, attrs)

\* An FSInfo, filed under the identifier when there is one.
Filed(r, a, e) ==
    LET info == [addr |-> a, indexRep |-> e.indexed]
    IN  IF Has(e.attrs, "_id") THEN [r EXCEPT !.fsTree = (ValueOf(e.attrs, "_id", 0) :> info) @@ @]
        ELSE [r EXCEPT !.idLess = Append(@, info)]

\* A sofa is indexed in the base CAS.  getView() makes its view unless there is one, and counts it.
WithSofa(r, a) ==
    LET n == r.heap[a].val["sofaNum"]
    IN  [r EXCEPT !.index = [@ @@ (n :> {}) EXCEPT ![BaseView] = @ \cup {a}],
                  !.document = @ @@ (n :> Null), !.documentAnnotation = @ @@ (n :> Null),
                  !.sofaCount = IF n > @ THEN n ELSE @,
                  !.initialSofaCreated = @ \/ n = InitialView,
                  !.indexRepositories = IF n = InitialView THEN @ ELSE Append(@, n),
                  !.tcasInstances = Append(@, n)]

\* readFS() of a known type.
ReadFS(r, e) ==
    LET a == Len(r.heap) + 1
        created == [r EXCEPT !.heap = Append(@, NewFS(e.name, Features[e.name] \ Foreign)), !.currentAddr = a]
        mapped == IF e.name = "Sofa" THEN MapSofa(created, e.attrs) ELSE created
        filled == HandleAttrs(mapped, a, e.attrs)
        known == IF e.name = "Sofa" THEN WithSofa(filled, a) ELSE filled
    IN  [Filed(known, a, e) EXCEPT !.state = "CONTENT"]

\* readArray(): its elements are to follow.
XcasReadArray(r, e) ==
    LET a == Len(r.heap) + 1
        array == NewArray(e.name, [i \in 1 .. ValueOf(e.attrs, "size", 0) |-> Null])
    IN  [Filed([r EXCEPT !.heap = Append(@, array)], a, e) EXCEPT
            !.currentAddr = a, !.arrayPos = 0, !.state = "ARRAY_ELE"]

\* addArrayElement() within the size of the array.
XcasAddArrayElement(r) ==
    LET x == IF r.heap[r.currentAddr].type = "StringArray" THEN StringIn(r.buffer) ELSE NumberIn(r.buffer)
    IN  [r EXCEPT !.heap[r.currentAddr].elems[r.arrayPos + 1] = x, !.arrayPos = @ + 1, !.state = "ARRAY_ELE"]

\* createInitialSofa() unless there is one, which is then that of number 1.
WithInitialSofa(r) ==
    LET sofa == [NewFS("Sofa", Features["Sofa"]) EXCEPT !.val = ("sofaNum" :> 1 @@ "sofaID" :> InitialView) @@ @]
    IN  IF r.initialSofaCreated THEN r
        ELSE [r EXCEPT !.heap = Append(@, sofa), !.index[BaseView] = @ \cup {Len(r.heap) + 1}, !.initialSofaCreated = TRUE]

\* The text of a document of version 1 goes to the initial sofa, which is held to be the first feature
\* structure and the one with identifier 1.
DocumentText(r) ==
    LET made == WithInitialSofa(r)
        text == StringIn(r.buffer)
        sofa == Min({a \in made.index[BaseView] : made.heap[a].val["sofaNum"] = InitialView})
    IN  [made EXCEPT !.heap = Set(@, sofa, "sofaString", text),
                     !.document[InitialView] = IF text = EmptyText THEN @ ELSE text,
                     !.sofaRefMap = Append(@, 1),
                     !.fsTree = (1 :> [addr |-> 1, indexRep |-> <<>>]) @@ @,
                     !.state = "FS"]

-----------------------------------------------------------------------------
XcasReading == format = "XCAS" /\ phase = "reading" /\ todo # <<>>
XcasThrow == phase' = "failed" /\ todo' = <<>> /\ rd' = rd
XcasGoOn(r) == phase' = phase /\ todo' = Tail(todo) /\ rd' = r

\* readArrayElement(): an element of an array has its tag and no attributes.
ReadArrayElement(r, e) ==
    IF e.name = "i" /\ e.attrs = <<>> THEN XcasGoOn([r EXCEPT !.state = "ARRAY_ELE_CONTENT"]) ELSE XcasThrow

\* startElement()
XcasStartElement ==
    /\ XcasReading /\ Head(todo).kind = "start"
    /\ LET e == Head(todo)
           r == [rd EXCEPT !.buffer = <<>>, !.currentContentFeat = IF rd.state = "FS" THEN "value" ELSE @]
       IN  CASE rd.state = "DOC" -> IF e.name = "CAS" THEN XcasGoOn([r EXCEPT !.state = "FS"]) ELSE XcasThrow
             [] rd.state = "FS" /\ e.name = "Document" -> XcasGoOn([r EXCEPT !.state = "DOC_TEXT"])
             [] rd.state = "FS" /\ e.name \in Foreign -> XcasGoOn([r EXCEPT !.state = "CONTENT"])
             [] rd.state = "FS" /\ e.name \in ArrayTypes ->
                    IF \A i \in DOMAIN e.attrs : e.attrs[i].name \in {"_id", "size"}
                    THEN XcasGoOn(XcasReadArray(r, e)) ELSE XcasThrow
             [] rd.state = "FS" /\ e.name \notin {"Document"} \cup Foreign \cup ArrayTypes -> XcasGoOn(ReadFS(r, e))
             [] rd.state = "ARRAY_ELE" -> ReadArrayElement(r, e)
             [] rd.state \notin {"DOC", "FS", "ARRAY_ELE"} -> XcasThrow
    /\ UNCHANGED <<format, sender, lenient, sent, reply>>

\* characters(): the parser hands a text over in as many pieces as it likes.  What is outside of the
\* elements that have content is dropped.
XcasCharacters ==
    /\ XcasReading /\ Head(todo).kind = "chars"
    /\ LET text == Head(todo).text IN
       \E n \in 1 .. Len(text) :
        /\ rd' = IF rd.state \in {"DOC_TEXT", "CONTENT", "ARRAY_ELE_CONTENT"}
                 THEN [rd EXCEPT !.buffer = @ \o SubSeq(text, 1, n)] ELSE rd
        /\ todo' = TextOf(SubSeq(text, n + 1, Len(text))) \o Tail(todo)
    /\ UNCHANGED <<format, sender, lenient, sent, phase, reply>>

\* endElement().  The content of an element of an unknown type goes to the feature structure before
\* it; when there is none the address is not initialized, and what is read there may end the process.
XcasEndElement ==
    /\ XcasReading /\ Head(todo).kind = "end"
    /\ CASE rd.state = "DOC" -> XcasGoOn(rd)
         [] rd.state = "FS" -> XcasGoOn([rd EXCEPT !.state = "DOC"])
         [] rd.state = "CONTENT" ->
                \/ /\ rd.currentAddr # Null
                   /\ XcasGoOn([HandleFeature(rd, rd.currentAddr,
                                               Attr(rd.currentContentFeat, IF rd.buffer = <<>> THEN NoText ELSE NumberIn(rd.buffer)))
                                 EXCEPT !.state = "FS"])
                \/ rd.currentAddr = Null /\ (XcasGoOn([rd EXCEPT !.state = "FS"]) \/ XcasThrow)
         [] rd.state = "ARRAY_ELE_CONTENT" ->
                IF rd.arrayPos >= Len(rd.heap[rd.currentAddr].elems) THEN XcasThrow
                ELSE XcasGoOn(XcasAddArrayElement(rd))
         [] rd.state = "ARRAY_ELE" -> XcasGoOn([rd EXCEPT !.state = "FS"])
         [] rd.state = "DOC_TEXT" -> XcasGoOn(DocumentText(rd))
    /\ UNCHANGED <<format, sender, lenient, sent, reply>>

\* fatalError(): the document is no XML.
XcasFatalError ==
    /\ XcasReading /\ Head(todo).kind = "error"
    /\ XcasThrow
    /\ UNCHANGED <<format, sender, lenient, sent, reply>>

\* finalizeFS(): a view of the document is looked up in the map when there is one.  finalizeArray():
\* like the features, an element whose identifier was not met stays as it is.
Repository(v) == rd.indexRepositories[IF rd.indexMap = <<0>> THEN v + 1 ELSE rd.indexMap[v + 1] + 1]
Resolved(i) == IF i \in DOMAIN rd.fsTree THEN rd.fsTree[i].addr ELSE i
Finalized(fs) ==
    [fs EXCEPT !.val = [f \in DOMAIN @ |-> IF IsPrimitive(RangeOf[f]) THEN @[f] ELSE Resolved(@[f])],
               !.elems = IF fs.type # "FSArray" THEN @ ELSE [i \in DOMAIN @ |-> Resolved(@[i])]]
FinalizeFS(r, info) ==
    LET views == {Repository(info.indexRep[i]) : i \in DOMAIN info.indexRep}
    IN  [r EXCEPT !.index = [v \in DOMAIN @ |-> IF v \in views THEN @[v] \cup {info.addr} ELSE @[v]],
                  !.heap[info.addr] = Finalized(@)]

\* pickupDocumentAnnotation(): the one that is indexed in the view, and the text of the sofa it refers to.
XcasPickedUp(r, v) ==
    LET documents == {a \in r.index[v] : r.heap[a].type = "DocumentAnnotation"}
        document == Min(documents)
        text == r.heap[r.heap[document].val["sofa"]].val["sofaString"]
    IN  IF documents = {} THEN r
        ELSE [r EXCEPT !.documentAnnotation[v] = document,
                       !.document[v] = IF text \in {Null, EmptyText} THEN @ ELSE text]

\* endDocument(): what has an identifier is finished and indexed in the order of identifiers, then what
\* has none; then the views of the sofas that were read look for their document.
XcasEndDocument ==
    /\ format = "XCAS" /\ phase = "reading" /\ todo = <<>>
    /\ LET ids == Ascending(DOMAIN rd.fsTree)
           infos == [i \in DOMAIN ids |-> rd.fsTree[ids[i]]] \o rd.idLess
       IN  rd' = FoldLeft(XcasPickedUp, FoldLeft(FinalizeFS, rd, infos), rd.tcasInstances)
    /\ phase' = "read"
    /\ UNCHANGED <<format, sender, lenient, sent, todo, reply>>

XcasInit ==
    /\ format = "XCAS"
    /\ \/ sender \in Senders /\ sent = XcasWrite(sender)
       \/ sender = NoSender /\ sent \in Documents
    /\ lenient = TRUE
    /\ todo = Events(sent)
    /\ phase = "reading"
    /\ rd = XcasReader
    /\ reply = <<>>

XcasNext == XcasStartElement \/ XcasCharacters \/ XcasEndElement \/ XcasFatalError \/ XcasEndDocument

-----------------------------------------------------------------------------
(* Properties *)

XcasImage(a) == IF a \in DOMAIN rd.fsTree THEN rd.fsTree[a].addr ELSE Null
IsStranger(a) == a # Null /\ sender.heap[a].type \in Foreign
Elements == Range(sent.elements)
IdOf(e) == ValueOf(e.attrs, "_id", Null)

\* What became of the element of a feature structure of the sender.
ArrivedAs(e, a, b) ==
    /\ b # Null /\ rd.heap[b].type = e.name
    /\ \A f \in DOMAIN sender.heap[a].val \ Foreign :
        LET mine == sender.heap[a].val[f] yours == rd.heap[b].val[f] IN
        CASE f = "sofaNum" -> yours = InitialView <=> rd.heap[b].val["sofaID"] = InitialView
          [] RangeOf[f] = "String" -> yours = IF mine = EmptyText THEN Null ELSE mine
          [] IsNumber(RangeOf[f]) -> yours = Printed(RangeOf[f], mine)
          [] OTHER -> IsStranger(mine) \/ yours = XcasImage(mine)
    /\ LET mine == sender.heap[a].elems yours == rd.heap[b].elems IN
        IF e.name = "FSArray"
        THEN Len(yours) = Len(mine) /\ \A k \in DOMAIN mine : IsStranger(mine[k]) \/ yours[k] = XcasImage(mine[k])
        ELSE yours = IF e.name = "StringArray" THEN AsTexts(mine) ELSE PrintedElements(e.name, mine)
    /\ \A v \in DOMAIN sender.index :
        a \in sender.index[v] <=>
            b \in rd.index[IF v = BaseView \/ SofasOf(sender, v) = {} THEN v
                           ELSE rd.heap[XcasImage(Max(SofasOf(sender, v)))].val["sofaNum"]]

\* No element but those of known types, and arrays of no more elements than they say.
IsWellFormed ==
    /\ sent.root = "CAS"
    /\ \A e \in Elements :
        IF e.name \in ArrayTypes
        THEN /\ Len(e.children) <= ValueOf(e.attrs, "size", 0)
             /\ \A i \in DOMAIN e.children : e.children[i].name = "i" /\ e.children[i].attrs = <<>>
             /\ \A i \in DOMAIN e.attrs : e.attrs[i].name \in {"_id", "size"}
        ELSE e.children = <<>>

\* The sofa that number n stands for in a document of another writer: the last one of that number, or the
\* one made for the text.
DeclaredSofas(n) == {XcasImage(IdOf(e)) : e \in {e \in Elements : e.name = "Sofa" /\ ValueOf(e.attrs, "sofaNum", 0) = n}}

\* What an element may have become, one without an identifier something of its type.
BecameOf(e) == IF Has(e.attrs, "_id") THEN {XcasImage(IdOf(e))}
               ELSE {x.addr : x \in {x \in Range(rd.idLess) : rd.heap[x.addr].type = e.name}}

\* In a document of version 1 every annotation ends up with a reference to the sofa whose number it has,
\* and in the index of the view of that sofa and of no other; sofas do not share a view; and a view picks up its own
\* document annotation.
VersionOneIsRead ==
    /\ \A e \in {e \in Elements : e.name \in Annotations /\ Has(e.attrs, "sofa")} :
        LET n == ValueOf(e.attrs, "sofa", 0)
            sofa == IF DeclaredSofas(n) = {} THEN XcasImage(1) ELSE CHOOSE s \in DeclaredSofas(n) : TRUE
            view == rd.heap[sofa].val["sofaNum"]
        IN  /\ rd.heap[sofa].type = "Sofa"
            /\ \E a \in BecameOf(e) :
                /\ rd.heap[a].type = e.name /\ rd.heap[a].val["sofa"] = sofa
                /\ \A v \in DOMAIN rd.index : a \in rd.index[v] <=> e.indexed # <<>> /\ v = view
                /\ e.name = "DocumentAnnotation" /\ DeclaredSofas(n) # {} =>
                        rd.documentAnnotation[view] = a
    /\ \A a, b \in DOMAIN rd.heap :
        a # b /\ rd.heap[a].type = "Sofa" /\ rd.heap[b].type = "Sofa" => rd.heap[a].val["sofaNum"] # rd.heap[b].val["sofaNum"]
    /\ \A e \in Elements : e.name = "Document" => rd.document[InitialView] = NumberIn(e.text)

\* Writers go from view to view up to the number that is counted: no sofa is beyond it and none is
\* missing but the initial one.  The view of a sofa that was read has the document annotation that is
\* indexed in it, and its text.
ViewsAreComplete ==
    LET sofas == {a \in DOMAIN rd.heap : rd.heap[a].type = "Sofa"}
        numbers == {rd.heap[a].val["sofaNum"] : a \in sofas}
    IN  /\ rd.sofaCount = Max({InitialView} \cup numbers)
        /\ 2 .. rd.sofaCount \subseteq numbers
        /\ \A a \in sofas : LET v == rd.heap[a].val["sofaNum"] text == rd.heap[a].val["sofaString"] IN
            \A d \in rd.index[v] : v \in Range(rd.tcasInstances) /\ rd.heap[d].type = "DocumentAnnotation" =>
                /\ rd.documentAnnotation[v] = d /\ rd.heap[d].val["sofa"] = a
                /\ text = Null \/ rd.document[v] = text

\* The receiver ends up with the graph that was sent, null elements, empty arrays and the members of
\* the base index included, whichever way the sofas are numbered and in whatever order they come.
\* Empty strings become null, null strings of arrays empty, and a document with an empty byte array
\* cannot be read.  References to feature structures of an unknown type are left out here: see
\* XcasUnknownIsNull.  Documents of version 1 keep annotations with their sofas, and just the documents
\* that are not well formed are refused.
XcasReadsBack ==
    format = "XCAS" =>
    /\ phase = "read" => ViewsAreComplete /\
        IF sender = NoSender THEN IsWellFormed /\ VersionOneIsRead
        ELSE \A e \in {e \in Elements : e.name \notin Foreign} : ArrivedAs(e, IdOf(e), XcasImage(IdOf(e)))
    /\ phase = "failed" =>
        \/ ~IsWellFormed
        \/ \E e \in Elements : ~e.closed
        \/ sent.elements[1].name \in Foreign

\* finalizeFS() says of a reference to an unknown element: "set it to NULL".
XcasUnknownIsNull ==
    format = "XCAS" /\ phase = "read" /\ sender # NoSender =>
        \A e \in Elements :
            e.name = "Token" /\ IsStranger(sender.heap[IdOf(e)].val["next"]) =>
                rd.heap[XcasImage(IdOf(e))].val["next"] = Null

\* The content of an element of an unknown type is not stored, it has no place.
XcasContentStaysHome ==
    format = "XCAS" /\ phase = "read" /\ sender = NoSender =>
        \A a \in DOMAIN rd.heap : "value" \in DOMAIN rd.heap[a].val /\ rd.heap[a].val["value"] # Null =>
            \E e \in Elements : XcasImage(IdOf(e)) = a /\ NumberIn(e.text) = rd.heap[a].val["value"]
=============================================================================
