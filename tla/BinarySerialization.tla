-------------------------- MODULE BinarySerialization --------------------------
(***************************************************************************)
(* Binary serialization.  A CAS is six heaps, whose cell 0 is empty, and   *)
(* the index of each view.  A feature structure is a cell with its type    *)
(* and one for each feature or element; a string is a pair of cells        *)
(* (offset, length) in the heap of references, which tell where its        *)
(* characters are; arrays of bytes and shorts and all 64-bit numbers are   *)
(* offsets in heaps of their own.  Readers and writers copy the heaps as   *)
(* they are, into a SerializedCAS of vectors or into a blob: one buffer of *)
(* bytes, which may come from a machine of the other byte order.           *)
(*                                                                         *)
(* A byte has ByteRange values.  Heaps are sequences, so cell c is at      *)
(* position c + 1.  Every view but the initial one has its sofa in the     *)
(* base index, as the code that makes views sees to.                       *)
(***************************************************************************)
EXTENDS CasGraph

CONSTANTS
    ByteRange,      \* the number of values of a byte
    BinarySenders,  \* CASes that are sent
    Receivers,      \* CASes that they are read into
    Versions        \* of the blobs that come from elsewhere
ASSUME ByteRangeAssumption == ByteRange \in Nat /\ ByteRange % 2 = 0 /\ ByteRange > 2

\* Types whose cells matter here, the name of the initial sofa, and the offsets of features.
SofaType == 2
DocumentAnnotationType == 3
NameDefaultSofa == <<1>>
SofaNumOffset == 1
SofaIDOffset == 2
SofaStringOffset == 3
SofaRefOffset == 1

EmptyHeap == <<0>>
EmptyCas ==
    [fs |-> EmptyHeap, strings |-> EmptyHeap, refs |-> EmptyHeap, bytes |-> EmptyHeap, shorts |-> EmptyHeap,
     longs |-> EmptyHeap, index |-> (BaseView :> {}) @@ (InitialView :> {}), sofaCount |-> 1,
     initialSofaCreated |-> FALSE,
     documentAnnotation |-> (InitialView :> Null), document |-> (InitialView :> <<>>)]

\* FSHeap::getString() of a reference, which counts pairs of cells.
String(cas, ref) ==
    IF ref = 0 THEN <<>>
    ELSE LET offset == cas.refs[2 * ref] length == cas.refs[2 * ref + 1]
         IN  SubSeq(cas.strings, offset + 1, offset + length)

Feature(cas, fs, offset) == cas.fs[fs + offset + 1]
TypeOf(cas, fs) == Feature(cas, fs, 0)

\* addString() of each of some texts, with the cell in which it does not write after it, and its reference.
AddStrings(cas, texts) ==
    FoldLeft(LAMBDA c, text :
                [c EXCEPT !.strings = @ \o text \o <<0>>, !.refs = @ \o <<Len(c.strings), Len(text)>>],
             cas, texts)

-----------------------------------------------------------------------------
(* Bytes, the lowest first as on this machine *)

Bytes(n, x) == [i \in 1 .. n |-> ((x % ByteRange ^ n) \div ByteRange ^ (i - 1)) % ByteRange]
Number(bytes) ==
    LET from[i \in 1 .. Len(bytes) + 1] == IF i > Len(bytes) THEN 0 ELSE bytes[i] + ByteRange * from[i + 1]
        range == ByteRange ^ Len(bytes)
    IN  IF 2 * from[1] >= range THEN from[1] - range ELSE from[1]

IntAt(buffer, at) == Number(SubSeq(buffer, at + 1, at + 4))
CellsAt(buffer, at, width, n) ==
    [i \in 1 .. n |-> Number(SubSeq(buffer, at + width * (i - 1) + 1, at + width * i))]

\* The key is UIMA or, where low bytes come first, AMIU.
Key == <<0, 1, 2, 3>>
BlobVersion == 1
Junk == ByteRange - 1    \* what a buffer holds that nothing was written to

\* The cells of a heap and those that fill it up to a multiple of four bytes.
Aligned(width, n) == LET unit == IF width < 4 THEN 4 \div width ELSE 1 IN ((n + unit - 1) \div unit) * unit

\* The sections of a blob and the bytes of their cells.
Widths == <<4, 2, 4, 4, 1, 2, 8>>
SectionsOf(cas, indexed) == <<cas.fs, cas.strings, cas.refs, indexed, cas.bytes, cas.shorts, cas.longs>>

-----------------------------------------------------------------------------
(* The sender *)

\* serializeIndexedFSs(): the number of views, then the members of the base index and of each view once.
IndexedFSs(cas) ==
    LET Members(n) == IF n \in DOMAIN cas.index THEN Ascending(cas.index[n]) ELSE <<>>
    IN  <<cas.sofaCount>> \o FlattenSeq([i \in 1 .. cas.sofaCount + 1 |-> <<Len(Members(i - 1))>> \o Members(i - 1)])

\* serializeFSHeapAndStringHeap(): a string for each pair of cells, after one that is empty.
StringTable(cas) == <<<<>>>> \o [i \in 1 .. Len(cas.refs) \div 2 |-> String(cas, i)]

\* serializeData()
SerializeData ==
    /\ format = "Binary" /\ phase = "sending"
    /\ sent' = [kind |-> "SerializedCAS", indexed |-> IndexedFSs(sender), fs |-> sender.fs,
                stringTable |-> StringTable(sender),
                bytes |-> sender.bytes, shorts |-> sender.shorts, longs |-> sender.longs]
    /\ phase' = "heaps"
    /\ UNCHANGED <<format, sender, lenient, todo, rd, reply>>

\* getBlobSize(): what is indexed is collected here.
BlobSize(cas, indexed) ==
    FoldLeft(+, 8, [i \in DOMAIN Widths |-> 4 + Widths[i] * Aligned(Widths[i], Len(SectionsOf(cas, indexed)[i]))])

BinaryGetBlobSize ==
    /\ format = "Binary" /\ phase = "sending"
    /\ LET indexed == IndexedFSs(sender)
       IN  sent' = [kind |-> "Size", indexed |-> indexed, size |-> BlobSize(sender, indexed), members |-> sender.index]
    /\ phase' = "sized"
    /\ UNCHANGED <<format, sender, lenient, todo, rd, reply>>

\* The caller makes a feature structure or empties the initial view, before it asks for the blob.
BinaryChange ==
    /\ format = "Binary" /\ phase = "sized"
    /\ sender' \in {[sender EXCEPT !.fs = Append(@, 1)], [sender EXCEPT !.index[InitialView] = {}]}
    /\ phase' = "changed"
    /\ UNCHANGED <<format, lenient, sent, todo, rd, reply>>

\* getBlob() of the heaps as they are now.  "foreign" is a machine of the other byte order; a section is
\* filled up with what the buffer held before.
Blob(cas, indexed, version, foreign) ==
    LET In(n, x) == IF foreign THEN Reverse(Bytes(n, x)) ELSE Bytes(n, x)
        section(width, cells) ==
            LET count == Aligned(width, Len(cells))
                cellAt(k) == In(width, cells[1 + k \div width])
            IN  In(4, count) \o [i \in 1 .. width * Len(cells) |-> cellAt(i - 1)[1 + ((i - 1) % width)]]
                             \o [i \in 1 .. width * (count - Len(cells)) |-> Junk]
        sections == [i \in DOMAIN Widths |-> section(Widths[i], SectionsOf(cas, indexed)[i])]
    IN  FoldLeft(\o, (IF foreign THEN Reverse(Key) ELSE Key) \o In(4, version), sections)

\* Nothing is written when the blob is larger than the buffer, which has the size that was asked for.
BinaryGetBlob ==
    /\ format = "Binary" /\ phase \in {"sized", "changed"}
    /\ IF BlobSize(sender, sent.indexed) > sent.size
       THEN phase' = "refused" /\ sent' = sent
       ELSE /\ \E foreign \in BOOLEAN, version \in Versions :
                  /\ ~foreign => version = BlobVersion
                  /\ sent' = [kind |-> "Blob", blob |-> Blob(sender, sent.indexed, version, foreign),
                              foreign |-> foreign, version |-> version,
                              members |-> sent.members, size |-> sent.size]
            /\ phase' = "heaps"
    /\ UNCHANGED <<format, sender, lenient, todo, rd, reply>>

-----------------------------------------------------------------------------
(* The receiver.  "view" is the one that is filled next, the base index first, "numViews" the last; *)
(* "before" is only read by the properties.                                                        *)

Reader(cas) == cas @@ [view |-> BaseView, numViews |-> 0, before |-> cas]

\* CAS::reset() of the base CAS.
Reset(cas) ==
    LET none == {v \in DOMAIN cas.index : v # BaseView} IN
    [cas EXCEPT !.fs = EmptyHeap, !.strings = EmptyHeap, !.refs = EmptyHeap, !.bytes = EmptyHeap, !.shorts = EmptyHeap,
                !.longs = EmptyHeap, !.index = [v \in DOMAIN @ |-> {}], !.sofaCount = 1, !.initialSofaCreated = FALSE,
                !.documentAnnotation = [v \in none |-> Null], !.document = [v \in none |-> <<>>]]

\* deserializeData() up to the indexes: createStringTables(), createFSHeap(), createByteHeap(),
\* createShortHeap() and createLongHeap().
BinaryReadHeaps ==
    /\ format = "Binary" /\ phase = "heaps" /\ sent.kind = "SerializedCAS"
    /\ rd' = [AddStrings(Reset(rd), Tail(sent.stringTable)) EXCEPT
                !.fs = sent.fs, !.bytes = sent.bytes, !.shorts = sent.shorts, !.longs = sent.longs,
                !.numViews = Head(sent.indexed)]
    /\ todo' = Tail(sent.indexed)
    /\ phase' = "reading"
    /\ UNCHANGED <<format, sender, lenient, sent, reply>>

\* intSwap(), shortSwap() and longSwap() of the n cells from a place on.  Of the eight bytes that swap8() has
\* turned round it returns four as an int.
SwappedCells(buffer, at, width, n) ==
    [i \in 1 .. width * n |->
        LET cell == at + width * ((i - 1) \div width)
            k == (i - 1) % width
        IN  IF width = 8 /\ k >= 4 THEN (IF 2 * buffer[cell + 5] >= ByteRange THEN ByteRange - 1 ELSE 0)
            ELSE buffer[cell + width - k]]

\* swapBlob(): key and version, then section by section the number of its cells and the cells.
SwapSection(r, width) ==
    LET count == SwappedCells(r.blob, r.at, 4, 1)
        n == Number(count)
        end == r.at + 4 + width * Aligned(width, n)
    IN  [r EXCEPT !.at = end,
                  !.swapped = @ \o count \o SwappedCells(r.blob, r.at + 4, width, n) \o SubSeq(r.blob, r.at + 5 + width * n, end)]
SwapBlob(blob) ==
    FoldLeft(SwapSection, [blob |-> blob, at |-> 8, swapped |-> SwappedCells(blob, 0, 4, 2)], Widths).swapped

\* The cells of each section of a blob, in the order they are read.
ReadSections(blob) ==
    FoldLeft(LAMBDA r, width :
                LET n == IntAt(blob, r.at)
                IN  [at |-> r.at + 4 + width * Aligned(width, n), cells |-> Append(r.cells, CellsAt(blob, r.at + 4, width, n))],
             [at |-> 8, cells |-> <<>>], Widths).cells

\* A heap that is reset, and filled when there is more than the empty cell.
HeapOf(cells) == IF Len(cells) > 1 THEN cells ELSE EmptyHeap

\* deserializeBlob() up to the indexes; the CAS is not reset.  A wrong key or version ends it, if it is
\* checked, or is not noticed.
BinaryReadBlob ==
    /\ format = "Binary" /\ phase = "heaps" /\ sent.kind = "Blob"
    /\ LET blob == IF SubSeq(sent.blob, 1, 4) = Reverse(Key) THEN SwapBlob(sent.blob) ELSE sent.blob
           cells == ReadSections(blob)
           isGood == SubSeq(blob, 1, 4) = Key /\ IntAt(blob, 4) = BlobVersion
       IN  \/ /\ sent' = [sent EXCEPT !.blob = blob]
              /\ rd' = [rd EXCEPT !.fs = HeapOf(cells[1]), !.strings = HeapOf(cells[2]), !.refs = HeapOf(cells[3]),
                                  !.numViews = Head(cells[4])]
              /\ todo' = Tail(cells[4])
              /\ phase' = "reading"
           \/ ~isGood /\ phase' = "failed" /\ UNCHANGED <<sent, rd, todo>>
    /\ UNCHANGED <<format, sender, lenient, reply>>

\* A mutant: the initial sofa is counted although a number is reserved for it.
SofaCountAll(cas, sofas) == 1 + Len(sofas)
\* The sofas in the order of their numbers: bumpSofaCount() for all but the initial one, and getView() of
\* each, which does not stay behind its number.
SofaCount(cas, sofas) ==
    FoldLeft(LAMBDA n, a :
                LET bumped == IF String(cas, Feature(cas, a, SofaIDOffset)) = NameDefaultSofa THEN n ELSE n + 1
                IN  Max({bumped, Feature(cas, a, SofaNumOffset)}),
             1, sofas)

\* The base index, and a view with a copy of the document for each of the sofas in it that has none.  A
\* count of zero is not stepped over.
BinaryReadBase ==
    /\ format = "Binary" /\ phase = "reading" /\ rd.view = BaseView
    /\ LET size == Head(todo)
           members == Range(SubSeq(todo, 2, size + 1))
           numOf(a) == Feature(rd, a, SofaNumOffset)
           sofas == SetToSortSeq({a \in members : TypeOf(rd, a) = SofaType}, LAMBDA a, b : numOf(a) < numOf(b))
           made == {numOf(a) : a \in Range(sofas)} \ DOMAIN rd.index
           text(v) == LET a == CHOOSE a \in Range(sofas) : numOf(a) = v IN String(rd, Feature(rd, a, SofaStringOffset))
       IN  /\ rd' = [rd EXCEPT
                !.index = [v \in DOMAIN @ \cup made |-> IF v = BaseView THEN members ELSE IF v \in made THEN {} ELSE @[v]],
                !.documentAnnotation = @ @@ [v \in made |-> Null],
                !.document = @ @@ [v \in made |-> text(v)],
                !.sofaCount = SofaCount(rd, sofas),
                !.initialSofaCreated = @ \/ \E a \in Range(sofas) : String(rd, Feature(rd, a, SofaIDOffset)) = NameDefaultSofa,
                !.view = InitialView]
           /\ todo' = SubSeq(todo, IF size = 0 THEN 1 ELSE size + 2, Len(todo))
    /\ UNCHANGED <<format, sender, lenient, sent, phase, reply>>

\* pickupDocumentAnnotation(): the first one in the index and the text of its sofa, if it has any.
PickedUp(cas, v, a) ==
    LET text == String(cas, Feature(cas, Feature(cas, a, SofaRefOffset), SofaStringOffset))
    IN  [cas EXCEPT !.documentAnnotation[v] = a, !.document[v] = IF text = <<>> THEN @ ELSE text]

\* The next view, which is reset, filled and searched for its document annotation.  One without members is
\* left as it is.
BinaryReadView ==
    /\ format = "Binary" /\ phase = "reading"
    /\ rd.view \in InitialView .. rd.numViews
    /\ LET size == Head(todo)
           members == Range(SubSeq(todo, 2, size + 1))
           documents == {a \in members : TypeOf(rd, a) = DocumentAnnotationType}
           next == [rd EXCEPT !.view = @ + 1]
           filled == [next EXCEPT !.index[rd.view] = members]
       IN  /\ \/ size = 0 /\ rd' = next
              \/ size > 0 /\ documents = {} /\ rd' = filled
              \/ size > 0 /\ \E a \in documents : rd' = PickedUp(filled, rd.view, a)
           /\ todo' = SubSeq(todo, size + 2, Len(todo))
    /\ UNCHANGED <<format, sender, lenient, sent, phase, reply>>

\* The end, in a blob after the heaps of bytes, shorts and 64-bit numbers.
BinaryEnd ==
    /\ format = "Binary" /\ phase = "reading" /\ rd.view > rd.numViews
    /\ rd' = IF sent.kind = "SerializedCAS" THEN rd
             ELSE LET cells == ReadSections(sent.blob)
                  IN  [rd EXCEPT !.bytes = HeapOf(cells[5]), !.shorts = HeapOf(cells[6]), !.longs = cells[7]]
    /\ phase' = "read"
    /\ UNCHANGED <<format, sender, lenient, sent, todo, reply>>

BinaryInit ==
    /\ format = "Binary"
    /\ sender \in BinarySenders
    /\ rd \in {Reader(cas) : cas \in Receivers}
    /\ lenient = FALSE
    /\ sent = <<>> /\ todo = <<>> /\ reply = <<>>
    /\ phase = "sending"

BinaryNext ==
    \/ SerializeData \/ BinaryGetBlobSize \/ BinaryChange \/ BinaryGetBlob
    \/ BinaryReadHeaps \/ BinaryReadBlob \/ BinaryReadBase \/ BinaryReadView \/ BinaryEnd

-----------------------------------------------------------------------------
(* Properties *)

IsBlob == sent.kind = "Blob"
SentIndex == IF IsBlob THEN sent.members ELSE sender.index

\* Cells may have been filled up to the next word.
FilledUp(mine, yours) == IsPrefix(mine, yours) /\ Len(yours) - Len(mine) \in 0 .. 3

\* When bytes are swapped, a 64-bit number that is no int loses its upper half.
LongArrived(mine, yours) ==
    \/ yours = mine
    \/ IsBlob /\ sent.foreign /\ 2 * mine \notin -(ByteRange ^ 4) .. ByteRange ^ 4 - 1

\* Views in which the sender had no members keep what a receiver has that was not reset.
Arrived(v) ==
    IF v \in DOMAIN SentIndex /\ SentIndex[v] # {} THEN SentIndex[v]
    ELSE IF IsBlob /\ v \in DOMAIN rd.before.index \ {BaseView} THEN rd.before.index[v] ELSE {}

DocumentAnnotations(v) == {a \in SentIndex[v] : TypeOf(sender, a) = DocumentAnnotationType}

\* Whichever way a CAS travels and wherever the blob was made, every heap arrives cell for cell, every
\* string under its reference; sofas are counted so that a new one gets a number of its own; every view
\* has the members it had when the blob was sized, and the document annotation and text of its sofa.
\* A blob fills its buffer to the last byte, one that has outgrown it is refused, and only one of another
\* version fails.  When there is no sofa, the members of the initial view are lost (BinaryKeepsViews).
BinaryReadsBack ==
    format = "Binary" =>
    /\ phase = "read" =>
        /\ rd.fs = sender.fs
        /\ Len(rd.refs) = Len(sender.refs)
        /\ \A ref \in 0 .. Len(sender.refs) \div 2 : String(rd, ref) = String(sender, ref)
        /\ FilledUp(sender.bytes, rd.bytes) /\ FilledUp(sender.shorts, rd.shorts)
        /\ Len(rd.longs) = Len(sender.longs)
        /\ \A i \in DOMAIN sender.longs : LongArrived(sender.longs[i], rd.longs[i])
        /\ rd.sofaCount = sender.sofaCount
        /\ rd.initialSofaCreated = (sender.initialSofaCreated \/ (IsBlob /\ rd.before.initialSofaCreated))
        /\ sender.index[BaseView] # {} =>
            /\ \A v \in DOMAIN rd.index : rd.index[v] = Arrived(v)
            /\ \A v \in DOMAIN SentIndex \ {BaseView} :
                  DocumentAnnotations(v) # {} =>
                    /\ rd.documentAnnotation[v] \in DocumentAnnotations(v)
                    /\ sender.document[v] # <<>> => rd.document[v] = sender.document[v]
    /\ phase \in {"heaps", "reading", "read"} /\ IsBlob => Len(sent.blob) = sent.size
    /\ phase = "failed" => sent.version # BlobVersion
    /\ phase = "refused" => BlobSize(sender, sent.indexed) # sent.size

\* "For each View: Number of FS in sofa Index Repository = nFS": also when nBase is zero.
BinaryKeepsViews ==
    format = "Binary" /\ phase = "read" => \A v \in DOMAIN SentIndex : rd.index[v] = SentIndex[v]
=============================================================================
