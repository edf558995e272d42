--------------------------- MODULE XmiSerialization ---------------------------
(***************************************************************************)
(* XMI: a CAS is written as elements and views, read element by element,   *)
(* changed by an annotator and written back.  Data the receiver has no     *)
(* types for travels in the XmiSerializationSharedData and has to come     *)
(* back as it was.                                                         *)
(*                                                                         *)
(* An element is [type, id, attr, multi, kids]: attributes with one value, *)
(* attributes whose value is a list of tokens, and child elements, each a  *)
(* set of pairs of a feature and what it is given.  New identifiers are    *)
(* handed out in the order of addresses, not in that of their first use.   *)
(* XML itself, escaping, numbers and the names of types are left out.      *)
(***************************************************************************)
EXTENDS CasGraph

\* XmiSerializationSharedData, as sets of entries.
NoSharedData == [given |-> FALSE, addrOf |-> [i \in {} |-> Null], elements |-> <<>>, attr |-> {},
                 multi |-> {}, kids |-> {}, members |-> {}, slots |-> {}]

KnownAddresses(sh) == Range(sh.addrOf)
MaxXmiId(sh) == Max({0} \cup DOMAIN sh.addrOf \cup {sh.elements[i].id : i \in DOMAIN sh.elements})

\* The identifier of every address: the one it came with, or the next that was never used.
XmiIds(sh, heap) ==
    LET new == Ascending(DOMAIN heap \ KnownAddresses(sh))
    IN  [a \in {Null} \cup DOMAIN heap |->
            CASE a = Null -> Null
              [] ~sh.given -> a
              [] a \in KnownAddresses(sh) -> CHOOSE i \in DOMAIN sh.addrOf : sh.addrOf[i] = a
              [] OTHER -> MaxXmiId(sh) + CHOOSE k \in DOMAIN new : new[k] = a]

-----------------------------------------------------------------------------
(* Writing *)

\* The feature is written as one value, not as a list of tokens or as child elements.
OneValue(fs, f) ==
    \/ IsPrimitive(RangeOf[f]) \/ IsFSType(RangeOf[f])
    \/ f \in Multi
    \/ RangeOf[f] = "FSList" /\ fs.type \in ListNodes

\* An array of feature structures is followed although its elements are written in place.
FollowedFrom(heap, a, f) ==
    LET fs == heap[a] v == fs.val[f] IN
    CASE v = Null \/ IsPrimitive(RangeOf[f]) -> {}
      [] RangeOf[f] = "FSList" /\ ~OneValue(fs, f) ->
            {heap[n].val["head"] : n \in Range(Chain(heap, v))} \ {Null}
      [] RangeOf[f] \in ArrayTypes \ {"FSArray"} /\ f \notin Multi -> {}
      [] OTHER -> {v}

XmiReferences(heap, a) ==
    IF heap[a].type = "FSArray" THEN Range(heap[a].elems) \ {Null}
    ELSE UNION {FollowedFrom(heap, a, f) : f \in DOMAIN heap[a].val}

\* A mutant: what came in and is no longer reached is forgotten.
XmiEnqueuedIndexed(cas, sh) ==
    LET refs == [a \in DOMAIN cas.heap |-> XmiReferences(cas.heap, a)]
    IN  Reached(cas.heap, Indexed(cas), refs, KnownAddresses(sh) \ Indexed(cas))

\* Feature structures that came in are written again, but only followed when they are indexed.
XmiEnqueued(cas, sh) ==
    LET refs == [a \in DOMAIN cas.heap |-> XmiReferences(cas.heap, a)]
    IN  KnownAddresses(sh) \cup
            Reached(cas.heap, Indexed(cas), refs, KnownAddresses(sh) \ Indexed(cas))

\* A null element is written when it stands for one of an unknown type, and otherwise not at all.
ArrayTokens(sh, id, heap, a) ==
    IF heap[a].type = "StringArray" THEN AsTexts(heap[a].elems)
    ELSE IF heap[a].type # "FSArray" THEN PrintedElements(heap[a].type, heap[a].elems)
    ELSE FlattenSeq([i \in DOMAIN heap[a].elems |->
            IF heap[a].elems[i] # Null THEN <<id[heap[a].elems[i]]>>
            ELSE Ascending({s[3] : s \in {s \in sh.slots : s[1] = a /\ s[2] = i}})])

ListTokens(sh, id, heap, a) ==
    LET nodes == Chain(heap, a)
    IN  FlattenSeq([i \in DOMAIN nodes |->
            LET head == heap[nodes[i]].val["head"] IN
            CASE head # Null -> <<id[head]>>
              [] head = Null /\ sh.given -> Ascending({x[3] : x \in {x \in sh.attr : x[1] = nodes[i]}})
              [] OTHER -> <<Null>>])

XmiTokens(sh, id, heap, a) ==
    IF heap[a].type \in ListNodes THEN ListTokens(sh, id, heap, a) ELSE ArrayTokens(sh, id, heap, a)

\* writeFSFlat()
XmiElement(sh, id, heap, a) ==
    LET fs == heap[a]
        F == DOMAIN fs.val
        Data(entries) == {<<x[2], x[3]>> : x \in {x \in entries : x[1] = a}}
    IN  [type |-> fs.type, id |-> id[a],
         attr |-> Data(sh.attr) \cup
            {<<f, IF IsPrimitive(RangeOf[f]) THEN Printed(RangeOf[f], fs.val[f]) ELSE id[fs.val[f]]>> :
                f \in {f \in F : OneValue(fs, f) /\ (fs.val[f] # Null \/ IsNumber(RangeOf[f]))}},
         multi |-> Data(sh.multi) \cup
            {<<f, XmiTokens(sh, id, heap, fs.val[f])>> :
                f \in {f \in F : ~OneValue(fs, f) /\ fs.val[f] # Null /\ RangeOf[f] # "StringArray"}}
            \cup (IF fs.type \in ArrayTypes \ {"StringArray"}
                  THEN {<<"elements", ArrayTokens(sh, id, heap, a)>>} ELSE {}),
         kids |-> Data(sh.kids) \cup
            {<<f, ArrayTokens(sh, id, heap, fs.val[f])>> :
                f \in {f \in F : ~OneValue(fs, f) /\ fs.val[f] # Null /\ RangeOf[f] = "StringArray"
                                    /\ heap[fs.val[f]].elems # <<>>}}
            \cup (IF fs.type = "StringArray" THEN {<<"elements", ArrayTokens(sh, id, heap, a)>>} ELSE {})]

\* Arrays without elements are left out, whatever refers to them.
HasElement(heap, a) == heap[a].type \in ArrayTypes => heap[a].elems # <<>>

XmiView(cas, sh, id, n) ==
    LET sofa == IF SofasOf(cas, n) = {} THEN Null ELSE id[Max(SofasOf(cas, n))]
    IN  [sofa |-> sofa,
         members |-> {id[a] : a \in cas.index[n]} \cup {m[2] : m \in {m \in sh.members : m[1] = sofa}}]

XmiWrite(cas, sh) ==
    LET id == XmiIds(sh, cas.heap)
        enqueued == Ascending({a \in XmiEnqueued(cas, sh) : HasElement(cas.heap, a)})
        numbers == Ascending(DOMAIN cas.index \ {BaseView})
    IN  [elements |-> [i \in DOMAIN enqueued |-> XmiElement(sh, id, cas.heap, enqueued[i])] \o sh.elements,
         views |-> SelectSeq([i \in DOMAIN numbers |-> XmiView(cas, sh, id, numbers[i])],
                             LAMBDA v : v.sofa # Null \/ v.members # {})]

-----------------------------------------------------------------------------
(* Reading *)

\* The handler, over a CAS that was reset.  "tokens" are currentArrayElements.
XmiReader == [heap |-> <<>>, index |-> (BaseView :> {}) @@ (InitialView :> {}), sh |-> NoSharedData,
              tokens |-> <<>>, made |-> {}, nodes |-> {}, nextSofaNum |-> 2]

Fail ==
    /\ phase' = "failed"
    /\ todo' = <<>>
    /\ UNCHANGED <<format, sender, lenient, sent, rd, reply>>

Append1(r, fs) == [r EXCEPT !.heap = Append(@, fs)]

\* Each token fills the slot of its position.
AddArrayElement(array, i, token) == [array EXCEPT !.elems[i] = token]

\* The digits of a byte array are not tokens: they fill it in pairs.
CreateByteArray(pairs) == NewArray("ByteArray", pairs)

CreateArray(type, tokens) ==
    LET filled[n \in 0 .. Len(tokens)] ==
            IF n = 0 THEN NewArray(type, [i \in DOMAIN tokens |-> Null])
            ELSE AddArrayElement(filled[n - 1], n, tokens[n])
    IN  IF type = "ByteArray" THEN CreateByteArray(tokens) ELSE filled[Len(tokens)]

\* createArray() without an identifier
WithArray(r, a, f, tokens) ==
    LET n == Len(r.heap) + 1
    IN  [Append1(r, CreateArray(RangeOf[f], tokens)) EXCEPT !.heap[a].val[f] = n, !.made = @ \cup {n}]

\* createFSList(): built from its end, the heads are still identifiers.
WithList(r, a, f, tokens) ==
    LET n == Len(r.heap) + 1
        node(i) == [type |-> "NEList", elems |-> <<>>,
                    val |-> ("head" :> tokens[Len(tokens) + 1 - i]) @@ ("tail" :> n + i - 1)]
    IN  [r EXCEPT !.heap = Set(@, a, f, n + Len(tokens)) \o <<NewFS("EList", {})>>
                                \o [i \in 1 .. Len(tokens) |-> node(i)],
                  !.nodes = @ \cup n + 1 .. n + Len(tokens)]

\* handleFeature() for an attribute or for child elements of one name: "kind" is where it came from.
Store(r, a, f, kind, x) ==
    IF f \notin DOMAIN r.heap[a].val
    THEN CASE kind = "attr"  -> [r EXCEPT !.sh.attr = @ \cup {<<a, f, x>>}]
           [] kind = "multi" -> [r EXCEPT !.sh.multi = @ \cup {<<a, f, x>>}]
           [] kind = "kids"  -> [r EXCEPT !.sh.kids = @ \cup {<<a, f, x>>}]
    ELSE CASE RangeOf[f] = "FSList" /\ f \notin Multi ->
                WithList(r, a, f, IF kind = "attr" THEN <<x>> ELSE x)
           [] RangeOf[f] \in ArrayTypes /\ f \notin Multi -> WithArray(r, a, f, x)
           [] OTHER -> [r EXCEPT !.heap[a].val[f] = x]

StoreAll(r, a, kind, pairs) ==
    FoldSet(LAMBDA p, s : Store(s, a, p[1], kind, p[2]), r, pairs)

Mapped(r, id, a) == [r EXCEPT !.sh.addrOf = (id :> a) @@ @, !.made = @ \cup {a}]

\* A type the receiver does not have.
ReadUnknown(e) ==
    /\ e.type \in Foreign
    /\ IF ~lenient THEN Fail
       ELSE /\ rd' = [rd EXCEPT !.sh.elements = Append(@, e)]
            /\ todo' = [todo EXCEPT !.elements = Tail(@)]
            /\ UNCHANGED <<format, sender, lenient, sent, phase, reply>>

\* An array: the attribute counts if it ever held anything, also that of an earlier array.
ElementsOf(r, e) ==
    IF r.tokens # <<>> THEN r.tokens
    ELSE IF e.kids # {} THEN (CHOOSE p \in e.kids : TRUE)[2] ELSE <<>>

ReadArray(e) ==
    /\ e.type \in ArrayTypes
    /\ LET r == IF e.multi = {} THEN rd ELSE [rd EXCEPT !.tokens = (CHOOSE p \in e.multi : TRUE)[2]]
       IN  rd' = Mapped(Append1(r, CreateArray(e.type, ElementsOf(r, e))), e.id, Len(r.heap) + 1)
    /\ todo' = [todo EXCEPT !.elements = Tail(@)]
    /\ UNCHANGED <<format, sender, lenient, sent, phase, reply>>

\* A sofa gets the number of the initial view or the next one, whatever the document says.
Renumbered(r, e) ==
    IF e.type # "Sofa" THEN e.attr
    ELSE {<<p[1], IF p[1] # "sofaNum" THEN p[2]
                  ELSE IF <<"sofaID", InitialView>> \in e.attr THEN InitialView
                  ELSE r.nextSofaNum>> : p \in e.attr}

Registered(r, a) ==
    LET n == r.heap[a].val["sofaNum"]
    IN  [r EXCEPT !.index = [(n :> {}) @@ @ EXCEPT ![BaseView] = @ \cup {a}],
                  !.nextSofaNum = IF n = InitialView THEN @ ELSE @ + 1]

ReadToken(e) ==
    /\ e.type \notin ArrayTypes \cup Foreign
    /\ LET a == Len(rd.heap) + 1
           new == Append1(rd, NewFS(e.type, Features[e.type] \ Foreign))
           attr == StoreAll(new, a, "attr", Renumbered(rd, e))
           all == StoreAll(StoreAll(attr, a, "multi", e.multi), a, "kids", e.kids)
       IN  rd' = Mapped(IF e.type = "Sofa" THEN Registered(all, a) ELSE all, e.id, a)
    /\ todo' = [todo EXCEPT !.elements = Tail(@)]
    /\ UNCHANGED <<format, sender, lenient, sent, phase, reply>>

\* processView()
ReadView(v) ==
    LET known == v.members \cap DOMAIN rd.sh.addrOf
        n == IF v.sofa = Null THEN InitialView ELSE rd.heap[rd.sh.addrOf[v.sofa]].val["sofaNum"]
    IN  IF known # v.members /\ ~lenient THEN Fail
        ELSE /\ rd' = [rd EXCEPT !.index[n] = @ \cup {rd.sh.addrOf[m] : m \in known},
                                 !.sh.members = @ \cup {<<v.sofa, m>> : m \in v.members \ known}]
             /\ todo' = [todo EXCEPT !.views = Tail(@)]
             /\ UNCHANGED <<format, sender, lenient, sent, phase, reply>>

XmiRead ==
    /\ format = "XMI" /\ phase = "reading"
    /\ \/ /\ todo.elements # <<>>
          /\ LET e == Head(todo.elements) IN ReadUnknown(e) \/ ReadArray(e) \/ ReadToken(e)
       \/ /\ todo.elements = <<>> /\ todo.views # <<>>
          /\ ReadView(Head(todo.views))

\* A mutant: containers that are shared are left with identifiers.
UnfinishedReferences(fs) == {f \in DOMAIN fs.val : IsFSType(RangeOf[f])}

\* The features whose values finalizeFS() takes for identifiers.
Unfinished(fs) == {f \in DOMAIN fs.val : IsFSType(RangeOf[f]) \/ f \in Multi}

\* The values the reader still has to resolve: features of what it made, and the heads of lists.
OpenFeatures(r) ==
    UNION {{<<a, f>> : f \in Unfinished(r.heap[a])} : a \in r.made} \cup {<<a, "head">> : a \in r.nodes}
OpenArrays(r) == {a \in r.made : r.heap[a].type = "FSArray"}

\* getFsAddrForXmiId()
Address(r, i) == IF i \in DOMAIN r.sh.addrOf THEN r.sh.addrOf[i] ELSE Null
IsLost(r, i) == i # Null /\ i \notin DOMAIN r.sh.addrOf

LostFeatures(r) == {p \in OpenFeatures(r) : IsLost(r, r.heap[p[1]].val[p[2]])}
LostSlots(r) ==
    UNION {{<<a, i, r.heap[a].elems[i]>> : i \in {i \in DOMAIN r.heap[a].elems : IsLost(r, r.heap[a].elems[i])}} :
              a \in OpenArrays(r)}

\* endDocument(): identifiers become addresses; those of unknown elements go to the shared data.
XmiEndDocument ==
    /\ format = "XMI" /\ phase = "reading"
    /\ todo.elements = <<>> /\ todo.views = <<>>
    /\ IF (LostFeatures(rd) # {} \/ LostSlots(rd) # {}) /\ ~lenient THEN Fail
       ELSE /\ rd' = [rd EXCEPT
                 !.heap = [a \in DOMAIN @ |-> [@[a] EXCEPT
                    !.val = [f \in DOMAIN @ |-> IF <<a, f>> \in OpenFeatures(rd) THEN Address(rd, @[f]) ELSE @[f]],
                    !.elems = IF a \in OpenArrays(rd) THEN [i \in DOMAIN @ |-> Address(rd, @[i])] ELSE @]],
                 !.sh.given = lenient,
                 !.sh.slots = LostSlots(rd),
                 !.sh.attr = @ \cup {<<p[1], p[2], rd.heap[p[1]].val[p[2]]>> : p \in LostFeatures(rd)}]
            /\ phase' = "read"
            /\ UNCHANGED <<format, sender, lenient, sent, todo, reply>>

-----------------------------------------------------------------------------
(* The receiver annotates, and answers with the same shared data. *)

Received == [heap |-> rd.heap, index |-> rd.index]

\* A new feature structure that refers to one of the document and is indexed, or that one of the
\* document is made to refer to.
XmiAnnotate ==
    /\ format = "XMI" /\ phase = "read" /\ lenient
    /\ \E a \in {a \in DOMAIN rd.heap : rd.heap[a].type = "Token"} :
        LET n == Len(rd.heap) + 1
            new == Append1(rd, NewFS("Token", Features["Token"] \ Foreign))
        IN  \/ rd' = [new EXCEPT !.heap[n].val["next"] = a, !.index[InitialView] = @ \cup {n}]
            \/ rd' = [new EXCEPT !.heap[a].val["next"] = n]
    /\ phase' = "changed"
    /\ UNCHANGED <<format, sender, lenient, sent, todo, reply>>

XmiReply ==
    /\ format = "XMI" /\ phase \in {"read", "changed"} /\ lenient
    /\ reply' = XmiWrite(Received, rd.sh)
    /\ phase' = IF phase = "read" THEN "returned" ELSE "replied"
    /\ UNCHANGED <<format, sender, lenient, sent, todo, rd>>

XmiInit ==
    /\ format = "XMI"
    /\ sender \in Senders
    /\ lenient \in BOOLEAN
    /\ sent = XmiWrite(sender, NoSharedData)
    /\ todo = sent
    /\ phase = "reading"
    /\ rd = XmiReader
    /\ reply = [elements |-> <<>>, views |-> <<>>]

XmiNext == XmiRead \/ XmiEndDocument \/ XmiAnnotate \/ XmiReply

-----------------------------------------------------------------------------
(* Properties *)

\* The address that a feature structure of the sender has at the receiver.
Image(a) == IF a \in DOMAIN rd.sh.addrOf THEN rd.sh.addrOf[a] ELSE Null
Images(s) == [i \in DOMAIN s |-> Image(s[i])]

\* The elements of an array or a list, and those of an array of feature structures that are written.
ElementsIn(heap, a) ==
    CASE a = Null -> <<>>
      [] heap[a].type \in ListNodes ->
            LET nodes == Chain(heap, a) IN [i \in DOMAIN nodes |-> heap[nodes[i]].val["head"]]
      [] OTHER -> heap[a].elems

\* A null element of an array of feature structures is missing, one of an array of strings empty.
Written(heap, a) ==
    IF a # Null /\ heap[a].type = "FSArray" THEN SelectSeq(heap[a].elems, LAMBDA e : e # Null)
    ELSE IF a # Null /\ heap[a].type = "StringArray" THEN AsTexts(heap[a].elems)
    ELSE IF a # Null /\ heap[a].type \in ArrayTypes THEN PrintedElements(heap[a].type, heap[a].elems)
    ELSE ElementsIn(heap, a)

\* Two things XMI cannot carry here: a list that is not written in place, and an array of strings
\* after an array with an attribute (see XmiListsComeBack and the README).
HasListNodes == \E i \in DOMAIN sent.elements : sent.elements[i].type \in ListNodes
HasStaleTokens == \E i, j \in DOMAIN sent.elements :
    i < j /\ sent.elements[j].type = "StringArray"
          /\ \E p \in sent.elements[i].multi : p[1] = "elements" /\ p[2] # <<>>
Portable == ~HasListNodes /\ ~HasStaleTokens

ValueComesBack(a, f) ==
    LET mine == sender.heap[a].val[f]
        yours == rd.heap[Image(a)].val[f]
    IN  CASE f = "sofaNum" -> yours \in DOMAIN rd.index
          [] IsPrimitive(RangeOf[f]) -> yours = Printed(RangeOf[f], mine)
          [] IsFSType(RangeOf[f]) \/ f \in Multi -> yours = Image(mine)
          [] RangeOf[f] \in {"FSArray", "FSList"} ->
                ElementsIn(rd.heap, yours) = Images(Written(sender.heap, mine))
          [] OTHER -> ElementsIn(rd.heap, yours) = Written(sender.heap, mine)

FSComesBack(a) ==
    LET mine == sender.heap[a] IN
    /\ Image(a) # Null
    /\ rd.heap[Image(a)].type = mine.type
    /\ \A f \in DOMAIN mine.val \ Foreign : ValueComesBack(a, f)
    /\ mine.type \in ArrayTypes =>
          rd.heap[Image(a)].elems = IF mine.type = "FSArray" THEN Images(Written(sender.heap, a))
                                    ELSE Written(sender.heap, a)

\* Whatever a CAS is made of, the receiver ends up with the same graph: the same values, the same
\* references, arrays and lists with the same elements, indexed in the same views.  Only null
\* elements of arrays are missing, and null strings of arrays have become empty.  A document cannot be loaded when it has an unknown type and
\* the reader is strict, or a reference to an array that was left out because it is empty.
XmiReadsBack ==
    format = "XMI" =>
    /\ phase = "read" /\ Portable =>
        /\ \A i \in DOMAIN sent.elements :
              sent.elements[i].type \notin Foreign => FSComesBack(sent.elements[i].id)
        /\ \A v \in DOMAIN sender.index \ {BaseView} : \A a \in sender.index[v] :
              HasElement(sender.heap, a) /\ sender.heap[a].type \notin Foreign =>
                \E n \in DOMAIN rd.index \ {BaseView} :
                    /\ Image(a) \in rd.index[n]
                    /\ \A s \in SofasOf(sender, v) : rd.heap[Image(s)].val["sofaNum"] = n
    /\ phase = "failed" =>
        /\ ~lenient
        /\ \/ \E i \in DOMAIN sent.elements : sent.elements[i].type \in Foreign
           \/ \E a \in DOMAIN sender.heap : ~HasElement(sender.heap, a)

\* An element without the null elements of its lists
WithoutNulls(e) == [e EXCEPT !.multi = {<<p[1], SelectSeq(p[2], LAMBDA x : x # Null)>> : p \in @}]

\* An annotator that changes nothing sends back every element and every view as it came, those
\* of types, and with features, that it does not know included; only null elements of lists get
\* lost.
XmiEchoes ==
    phase = "returned" /\ Portable =>
        /\ {WithoutNulls(e) : e \in Range(sent.elements)}
              \subseteq {WithoutNulls(e) : e \in Range(reply.elements)}
        /\ Range(sent.views) = Range(reply.views)

\* The identifiers an element refers to
Targets(e) ==
    {p[2] : p \in {p \in e.attr : IsFSType(RangeOf[p[1]]) \/ p[1] \in Multi}}
    \cup UNION {Range(p[2]) : p \in {p \in e.multi :
              IF p[1] = "elements" THEN e.type = "FSArray" ELSE RangeOf[p[1]] \in {"FSArray", "FSList"}}}

Dangling(d) ==
    UNION {Targets(d.elements[i]) : i \in DOMAIN d.elements}
        \ ({d.elements[i].id : i \in DOMAIN d.elements} \cup {Null})

\* A feature structure that is not indexed came in, and now refers to a new one.
NewBehindUnindexed ==
    \E a \in KnownAddresses(rd.sh) \ Indexed(Received) :
        "next" \in DOMAIN rd.heap[a].val /\ rd.heap[a].val["next"] \notin KnownAddresses(rd.sh) \cup {Null}

\* A reference into the unknown data has been replaced by one to a known feature structure.
Overridden == \E x \in rd.sh.attr : x[2] = "next" /\ rd.heap[x[1]].val["next"] # Null

\* The answer is a document like any other: no identifier is given twice, new ones included, no
\* attribute is written twice, and references lead to elements of it if those of the request did.
\* Two changes break that, and no other: a new feature structure behind one that is not indexed
\* is not written, and a reference into the unknown data stays beside the one that replaces it.
XmiReplyIsSound ==
    phase \in {"returned", "replied"} /\ Portable =>
        /\ \A i, j \in DOMAIN reply.elements : reply.elements[i].id = reply.elements[j].id => i = j
        /\ Dangling(reply) \subseteq Dangling(sent) \/ NewBehindUnindexed
        /\ \/ \A i \in DOMAIN reply.elements : \A p, q \in reply.elements[i].attr : p[1] = q[1] => p = q
           \/ Overridden

\* The writer's comment on nodes of lists: "this handles the tail feature correctly".
XmiListsComeBack ==
    format = "XMI" /\ phase = "read" =>
        \A i \in DOMAIN sent.elements : LET a == sent.elements[i].id IN
            sent.elements[i].type = "NEList" =>
                ElementsIn(rd.heap, Image(a)) = Images(ElementsIn(sender.heap, a))
=============================================================================
