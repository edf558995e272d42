------------------------------- MODULE CasViews -------------------------------
(***************************************************************************)
(* A CAS with its sofas, its views and the document of each view.          *)
(*                                                                         *)
(* One base CAS owns the heap, the index of sofas and the map from sofa    *)
(* numbers to views.  reset() empties the heap and the views but keeps the *)
(* view objects: the view of number n is found again by whichever sofa is  *)
(* next given that number.  The text of a document is kept twice, in the   *)
(* heap as a feature of its sofa and in the view as a copy, and a document *)
(* annotation repeats its length.                                          *)
(*                                                                         *)
(* Covered: creation of sofas and views, the look-up of views by local     *)
(* name, by sofa and for an annotation, document texts (current and old    *)
(* style), document annotations, reset, and the sofas of an XMI document.  *)
(* Not covered: sofa data that is an array or a URI, mime types, features  *)
(* of annotations other than the sofa, XCAS and binary deserialization,    *)
(* deletion.                                                               *)
(*                                                                         *)
(* Callers are assumed not to use a view of a sofa that a reset took away, *)
(* the initial view excepted, nor a feature structure of before a reset.   *)
(***************************************************************************)
EXTENDS Integers

CONSTANTS
    Names,        \* names of sofas, local and global
    InitialName,  \* CAS::NAME_DEFAULT_SOFA
    NoName,
    Texts,        \* document texts of length greater than 0
    NoText,       \* the empty text: NULL and length 0 are not told apart
    Annotations,  \* annotations the application creates, document annotations excepted
    Components,   \* annotators with a sofa mapping
    NoComponent,  \* iv_componentInfo is NULL
    SofaId,       \* SofaId[c][local]: mapToSofaID() in the context of c
    MaxSofas      \* bound: the greatest sofa number

Numbers == 1 .. MaxSofas
AnyText == Texts \cup {NoText}
NullSofa == 0    \* FSHeap::INVALID_FS in the sofa feature of an annotation
NotCreated == -1

ASSUME CasAssumption ==
    /\ MaxSofas \in Nat \ {0}
    /\ InitialName \in Names /\ NoName \notin Names
    /\ NoText \notin Texts /\ NoName \notin Texts \cup {NoText}
    /\ NoComponent \notin Components
    /\ SofaId \in [Components \cup {NoComponent} -> [Names -> Names]]
    /\ SofaId[NoComponent] = [n \in Names |-> n]

VARIABLES
    sofaName,    \* the sofa index: the name of the sofa of each number
    sofaText,    \* the string data of that sofa
    sofaCount,   \* iv_sofaCount of the base CAS
    initialSofaCreated,
    component,   \* iv_componentInfo of the base CAS
    views,       \* the keys of iv_sofa2tcasMap
    docText,     \* iv_cpDocument and iv_uiDocumentLength of each view
    docSofa,     \* the sofa of its document annotation, NotCreated if there is none
    docEnd,      \* the end of the document annotation: the text it is the length of
    docIndexed,  \* the views that have their document annotation in the index
    annSofa,     \* the sofa each annotation was created with
    index,       \* the annotations added to the indexes of each view
    undefined    \* a feature of the null feature structure has been read

sofaVars == <<sofaName, sofaText, sofaCount, initialSofaCreated>>
docVars == <<docText, docSofa, docEnd, docIndexed>>
annVars == <<annSofa, index>>
vars == <<sofaVars, component, views, docVars, annVars, undefined>>

\* Every CAS an application or an annotator gets comes with its initial view.
Init ==
    /\ sofaName = [n \in Numbers |-> NoName]
    /\ sofaText = [n \in Numbers |-> NoText]
    /\ sofaCount = 1
    /\ initialSofaCreated = FALSE
    /\ component = NoComponent
    /\ views = {1}
    /\ docText = [n \in Numbers |-> NoText]
    /\ docSofa = [n \in Numbers |-> NotCreated]
    /\ docEnd = [n \in Numbers |-> NoText]
    /\ docIndexed = {}
    /\ annSofa = [a \in Annotations |-> NotCreated]
    /\ index = [n \in Numbers |-> {}]
    /\ undefined = FALSE

-----------------------------------------------------------------------------
(* Sofas *)

HasSofa(n) == sofaName[n] # NoName
Named(name) == {n \in Numbers : sofaName[n] = name}

\* getSofa(name): the index of sofas is ordered by number.
FirstNamed(name) == CHOOSE n \in Named(name) : \A m \in Named(name) : n <= m

\* getSofa() of a view, as a feature value.
OwnSofa(v) == IF HasSofa(v) THEN v ELSE NullSofa

\* The index of sofas is a set keyed by the number: a second sofa of a number is not added.
AddSofa(n, name) == sofaName' = IF HasSofa(n) THEN sofaName ELSE [sofaName EXCEPT ![n] = name]

\* createSofa() throws if the name is taken.
NameIsFree(name) == Named(name) = {}

NewSofa(name) ==
    /\ NameIsFree(name)
    /\ sofaCount < MaxSofas
    /\ sofaCount' = sofaCount + 1
    /\ AddSofa(sofaCount + 1, name)
    /\ UNCHANGED <<sofaText, initialSofaCreated>>

\* getView(SofaFS) for the sofa of number n that a deserializer made.
CountUpTo(n) == IF n > sofaCount THEN n ELSE sofaCount

\* createInitialSofa(), called for a view that has no sofa.
EnsureSofa(v) ==
    IF HasSofa(v) \/ initialSofaCreated
    THEN UNCHANGED <<sofaName, initialSofaCreated>>
    ELSE AddSofa(1, InitialName) /\ initialSofaCreated' = TRUE

-----------------------------------------------------------------------------
(* Views *)

\* A view the application may have a pointer to.
Usable(v) == v \in views /\ (v = 1 \/ HasSofa(v))

\* getView(SofaFS), getViewBySofaNum(): the constructor copies the text of the sofa.
OpenView(n, text) ==
    /\ views' = views \cup {n}
    /\ docText' = IF n \in views THEN docText ELSE [docText EXCEPT ![n] = text]
    /\ UNCHANGED <<docSofa, docEnd, docIndexed>>

CreateSofa(name) ==
    /\ NewSofa(name)
    /\ UNCHANGED <<component, views, docVars, annVars, undefined>>

CreateView(local) ==
    LET name == SofaId[component][local] IN
    /\ name # InitialName
    /\ NewSofa(name)
    /\ OpenView(sofaCount + 1, NoText)
    /\ UNCHANGED <<component, annVars, undefined>>

\* The initial view is returned as it is; an unknown name throws.
GetView(local) ==
    LET name == SofaId[component][local] IN
    /\ name # InitialName
    /\ Named(name) # {}
    /\ OpenView(FirstNamed(name), sofaText[FirstNamed(name)])
    /\ UNCHANGED <<sofaVars, component, annVars, undefined>>

GetViewOfSofa(n) ==
    /\ HasSofa(n)
    /\ OpenView(n, sofaText[n])
    /\ UNCHANGED <<sofaVars, component, annVars, undefined>>

SetCurrentComponentInfo(c) ==
    /\ component' = c
    /\ UNCHANGED <<sofaVars, views, docVars, annVars, undefined>>

-----------------------------------------------------------------------------
(* Documents *)

\* updateDocumentAnnotation() of the view of sofa n, whose text is t.
UpdateDocumentOnce(n, t) ==
    /\ docText' = [docText EXCEPT ![n] = t]
    /\ docSofa' = IF docSofa[n] = NotCreated THEN [docSofa EXCEPT ![n] = n] ELSE docSofa
    /\ docEnd' = IF docEnd[n] = NoText THEN [docEnd EXCEPT ![n] = t] ELSE docEnd
    /\ docIndexed' = docIndexed \cup {n}
UpdateDocument(n, t) ==
    /\ docText' = [docText EXCEPT ![n] = t]
    /\ docSofa' = IF docSofa[n] = NotCreated THEN [docSofa EXCEPT ![n] = n] ELSE docSofa
    /\ docEnd' = [docEnd EXCEPT ![n] = t]
    /\ docIndexed' = docIndexed \cup {n}

\* An empty text is stored in the sofa but copied to no view.
SetDocumentText(v, t) ==
    /\ Usable(v)
    /\ EnsureSofa(v)
    /\ sofaText' = [sofaText EXCEPT ![v] = t]
    /\ IF t = NoText THEN UNCHANGED docVars ELSE UpdateDocument(v, t)
    /\ UNCHANGED <<sofaCount, component, views, annVars, undefined>>

\* The deprecated version stores whatever the view holds after the attempt to
\* copy; copy stands for bCopyToCAS with a buffer that is not NULL.
SetDocumentTextOld(v, t, copy) ==
    LET held == IF t = NoText /\ copy THEN docText[v] ELSE t IN
    /\ Usable(v)
    /\ EnsureSofa(v)
    /\ sofaText' = [sofaText EXCEPT ![v] = held]
    /\ IF held = NoText
       THEN docText' = [docText EXCEPT ![v] = NoText] /\ UNCHANGED <<docSofa, docEnd, docIndexed>>
       ELSE UpdateDocument(v, held)
    /\ UNCHANGED <<sofaCount, component, views, annVars, undefined>>

\* SofaFS::setLocalSofaData() opens the view of the sofa and updates it.
UpdateView(n, t) ==
    IF t = NoText
    THEN OpenView(n, NoText)
    ELSE views' = views \cup {n} /\ UpdateDocument(n, t)

SetLocalSofaData(n, t) ==
    /\ HasSofa(n)
    /\ sofaText' = [sofaText EXCEPT ![n] = t]
    /\ UpdateView(n, t)
    /\ UNCHANGED <<sofaName, sofaCount, initialSofaCreated, component, annVars, undefined>>

\* Creates the annotation but does not index it; a view without a sofa gives it a null sofa.
GetDocumentAnnotation(v) ==
    /\ Usable(v)
    /\ docSofa[v] = NotCreated
    /\ docSofa' = [docSofa EXCEPT ![v] = OwnSofa(v)]
    /\ docEnd' = [docEnd EXCEPT ![v] = NoText]
    /\ UNCHANGED <<sofaVars, component, views, docText, docIndexed, annVars, undefined>>

-----------------------------------------------------------------------------
(* Annotations *)

CreateAnnotation(v, a) ==
    /\ Usable(v)
    /\ annSofa[a] = NotCreated
    /\ annSofa' = [annSofa EXCEPT ![a] = OwnSofa(v)]
    /\ UNCHANGED <<sofaVars, component, views, docVars, index, undefined>>

\* An annotation may be indexed in any view; bound: each is added once.
AddFS(v, a) ==
    /\ Usable(v)
    /\ annSofa[a] # NotCreated
    /\ \A n \in Numbers : a \notin index[n]
    /\ index' = [index EXCEPT ![v] = @ \cup {a}]
    /\ UNCHANGED <<sofaVars, component, views, docVars, annSofa, undefined>>

\* getCasForTyFS(): the view that comes with an annotation of sofa s read through view v.
ThisView(v, s) == v
ViewFor(v, s) == IF s = OwnSofa(v) THEN v ELSE s

\* getViewBySofaNum() for the number that is read from sofa s.
OpenViewOf(s) ==
    IF s = NullSofa
    THEN undefined' = TRUE /\ UNCHANGED <<views, docVars>>
    ELSE OpenView(s, sofaText[s]) /\ UNCHANGED undefined

\* A feature whose value is an annotation of sofa s is read through view v.
FollowReference(v, s) ==
    /\ Usable(v)
    /\ ViewFor(v, s) # v
    /\ OpenViewOf(ViewFor(v, s))
    /\ UNCHANGED <<sofaVars, component, annVars>>

\* AnnotationFS::getView() and getCoveredText(), for an annotation of sofa s.
GetAnnotationView(s) ==
    /\ OpenViewOf(s)
    /\ UNCHANGED <<sofaVars, component, annVars>>

SofasOfAnnotations ==
    {annSofa[a] : a \in Annotations} \cup {docSofa[n] : n \in Numbers}

-----------------------------------------------------------------------------
(* The life of the whole CAS *)

\* iv_sofaCount leaves number 1 to the initial view.
InitialCounted == 1

\* Seeded fault: the texts stay.
EmptyViewsOfAnnotations ==
    /\ UNCHANGED docText
    /\ docSofa' = [n \in Numbers |-> NotCreated]
    /\ docEnd' = [n \in Numbers |-> NoText]
    /\ docIndexed' = {}

\* The views stay, and lose their texts and document annotations.
EmptyViews ==
    /\ docText' = [n \in Numbers |-> NoText]
    /\ docSofa' = [n \in Numbers |-> NotCreated]
    /\ docEnd' = [n \in Numbers |-> NoText]
    /\ docIndexed' = {}

\* The index repository of every view is emptied, the base CAS's too.
ResetIndexes == index' = [n \in Numbers |-> {}]

Reset ==
    /\ sofaName' = [n \in Numbers |-> NoName]
    /\ sofaText' = [n \in Numbers |-> NoText]
    /\ sofaCount' = InitialCounted
    /\ initialSofaCreated' = FALSE
    /\ EmptyViews
    /\ annSofa' = [a \in Annotations |-> NotCreated]
    /\ ResetIndexes
    /\ UNCHANGED <<component, views, undefined>>

\* The sofas of an XMI document as XmiWriter writes them: the one named
\* InitialName gets number 1, the others 2, 3, ... in their order, and a text
\* comes with its document annotation.  getView() moves iv_sofaCount up to the
\* number, makes a missing view, and pickupDocumentAnnotation() fills the views.
DeserializeXmi(initial, last, others, text) ==
    LET loaded == 2 .. last \cup (IF initial THEN {1} ELSE {})
        filled == {n \in loaded : text[n] # NoText} IN
    /\ \A n \in Numbers : ~HasSofa(n)
    /\ sofaName' = [n \in Numbers |->
           IF n \in 2 .. last THEN others[n] ELSE IF n \in loaded THEN InitialName ELSE NoName]
    /\ sofaText' = [n \in Numbers |-> IF n \in loaded THEN text[n] ELSE NoText]
    /\ sofaCount' = CountUpTo(last)
    /\ initialSofaCreated' = (initialSofaCreated \/ initial)
    /\ views' = views \cup loaded
    /\ docText' = [n \in Numbers |->
           IF n \in filled \/ n \in loaded \ views THEN text[n] ELSE docText[n]]
    /\ docSofa' = [n \in Numbers |-> IF n \in filled THEN n ELSE docSofa[n]]
    /\ docEnd' = [n \in Numbers |-> IF n \in filled THEN text[n] ELSE docEnd[n]]
    /\ docIndexed' = docIndexed \cup filled
    /\ UNCHANGED <<component, annVars, undefined>>

Deserialize ==
    \E initial \in BOOLEAN, last \in Numbers :
        \E others \in [2 .. last -> Names \ {InitialName}], text \in [1 .. last -> AnyText] :
            /\ \A m, n \in 2 .. last : others[m] = others[n] => m = n
            /\ DeserializeXmi(initial, last, others, text)

Next ==
    /\ ~undefined
    /\ \/ \E name \in Names : CreateSofa(name) \/ CreateView(name) \/ GetView(name)
       \/ \E n \in Numbers : GetViewOfSofa(n) \/ GetDocumentAnnotation(n)
       \/ \E c \in Components : SetCurrentComponentInfo(c)
       \/ \E n \in Numbers, t \in AnyText :
              \/ SetDocumentText(n, t)
              \/ SetLocalSofaData(n, t)
              \/ \E copy \in BOOLEAN : SetDocumentTextOld(n, t, copy)
       \/ \E v \in Numbers, a \in Annotations : CreateAnnotation(v, a) \/ AddFS(v, a)
       \/ \E s \in SofasOfAnnotations \ {NotCreated} :
              \/ GetAnnotationView(s)
              \/ \E v \in Numbers : FollowReference(v, s)
       \/ Reset
       \/ Deserialize

Spec == Init /\ [][Next]_vars

-----------------------------------------------------------------------------
(* Properties *)

\* The variables keep their types.
TypeOK ==
    /\ sofaName \in [Numbers -> Names \cup {NoName}]
    /\ sofaText \in [Numbers -> AnyText]
    /\ sofaCount \in Numbers
    /\ initialSofaCreated \in BOOLEAN
    /\ component \in Components \cup {NoComponent}
    /\ views \subseteq Numbers
    /\ docText \in [Numbers -> AnyText]
    /\ docSofa \in [Numbers -> NotCreated .. MaxSofas]
    /\ docEnd \in [Numbers -> AnyText]
    /\ docIndexed \subseteq Numbers
    /\ annSofa \in [Annotations -> NotCreated .. MaxSofas]
    /\ index \in [Numbers -> SUBSET Annotations]
    /\ undefined \in BOOLEAN

\* bumpSofaCount(), reset(), getInitialView() and getView() keep iv_sofaCount at
\* the greatest number in use, number 1 set aside for the initial sofa.  Were
\* it behind, the next sofa would meet its number taken and not be indexed.
SofasAreCounted ==
    /\ HasSofa(1) <=> initialSofaCreated
    /\ HasSofa(1) => sofaName[1] = InitialName
    /\ \A n \in Numbers \ {1} : HasSofa(n) <=> n <= sofaCount

\* The copy of the text that a view shows follows the text in the heap, however
\* it was set and whenever the view was made.  An empty text is not copied.
ViewsShowTheirSofas ==
    \A n \in views : sofaText[n] # NoText => docText[n] = sofaText[n]

\* A view object outlives the reset that took its sofa away, and is given to the
\* next sofa of its number: by then nothing of the earlier document is in it.
EmptyUntilItsSofa ==
    \A n \in Numbers : ~HasSofa(n) =>
        /\ sofaText[n] = NoText /\ docText[n] = NoText /\ n \notin docIndexed
        /\ n # 1 => docSofa[n] = NotCreated /\ index[n] = {}

\* A view with a text has one document annotation, which is in its index and as
\* long as the text: updateDocumentAnnotation() follows every change.
DocumentAnnotationFits ==
    \A n \in Numbers : sofaText[n] # NoText =>
        /\ n \in views \cap docIndexed
        /\ docSofa[n] # NotCreated
        /\ docEnd[n] = sofaText[n]

\* The sofa feature of an annotation leads to a sofa of this document, or
\* nowhere: the latter for the annotations that were made in the initial view
\* before it had a sofa, which createInitialSofa() does not repair.
AnnotationsHaveTheirSofa ==
    /\ \A s \in SofasOfAnnotations : s > NullSofa => HasSofa(s)
    /\ \A n \in Numbers : docSofa[n] \in {NotCreated, n} \cup (IF n = 1 THEN {NullSofa} ELSE {})
    /\ undefined => NullSofa \in SofasOfAnnotations

\* Sofas, their views, the documents and the annotations stay together through every order of
\* creating, setting texts, annotating, loading and reset().
ViewsKeepToTheirSofas ==
    /\ SofasAreCounted
    /\ ViewsShowTheirSofas
    /\ EmptyUntilItsSofa
    /\ DocumentAnnotationFits
    /\ AnnotationsHaveTheirSofa

\* The text the view of sofa n shows, or will show once it is made.
Shown(n) == IF n \in views THEN docText[n] ELSE sofaText[n]

\* getCasForTyFS(): wherever an annotation was reached from, the view it comes
\* with shows the text of the sofa the annotation is on.
CoveredTextIsOfItsSofa ==
    \A v \in Numbers, s \in SofasOfAnnotations \ {NotCreated, NullSofa} :
        Usable(v) /\ sofaText[s] # NoText => Shown(ViewFor(v, s)) = sofaText[s]

\* What an application finds under a name.
Content ==
    [name \in Names |->
        IF name = InitialName
        THEN IF HasSofa(1) THEN Shown(1) ELSE NoName
        ELSE IF Named(name) = {} THEN NoName ELSE Shown(FirstNamed(name))]

\* What cas.hpp says of sofas, "Every Sofa in a CAS must have a unique SofaID", and the code does
\* not keep: createSofa() accepts the name of the initial view before that has its sofa, and
\* createInitialSofa() does not look the name up.
SofaIdsAreUnique == \A m, n \in Numbers : m # n /\ HasSofa(m) => sofaName[m] # sofaName[n]

Directory == INSTANCE ViewDirectory WITH content <- Content, Absent <- NoName

\* The CAS is a directory from names to texts: a step changes the document of
\* one name at most, and only reset() takes one away.
KeepsDirectory == Directory!Spec
=============================================================================
