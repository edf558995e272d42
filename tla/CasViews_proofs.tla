---------------------------- MODULE CasViews_proofs ----------------------------
(***************************************************************************)
(* Proofs about CasViews and IndexIterators: the views of a CAS, and the   *)
(* indexes of a view as those who read them see them.                      *)
(*                                                                         *)
(* The views, for every number of sofas, names, texts, annotations and     *)
(* annotators.  The conjunction of the invariants of CasViews is           *)
(* inductive.  The count of the sofas makes the number of a new sofa free; *)
(* that every annotation leads to a sofa makes the views that are opened   *)
(* those of sofas; and that a view without a sofa is empty makes it fit to *)
(* be given to the next sofa of its number.                                *)
(*                                                                         *)
(* The indexes (from "Orders and recursions" on), for every hierarchy of   *)
(* types, every rank of the structures and every index.  What is merged    *)
(* into the cache of a composite index comes before all that is left to    *)
(* merge, and nothing is lost or shown twice.                              *)
(*                                                                         *)
(* The iterators (from "Places of an iterator" on).  A search by halves    *)
(* finds where an annotation stands, which is one place; what begins       *)
(* within its span comes right behind that place, so that the walk below   *)
(* an annotation is a walk over neighbours.                                *)
(***************************************************************************)
EXTENDS CasViews, IndexIterators, FiniteSetTheorems, FunctionTheorems, SequenceTheorems, TLAPS

\* getSofa(name) has one sofa to find, but for the name of the initial view.
OthersNamedOnce ==
    \A m, n \in Numbers :
        m # n /\ HasSofa(m) /\ sofaName[m] = sofaName[n] => sofaName[m] = InitialName

\* What holds of the sofas and of the views, the type apart.
SofaInv == SofasAreCounted /\ OthersNamedOnce
ViewInv == ViewsShowTheirSofas /\ EmptyUntilItsSofa /\ DocumentAnnotationFits
CasInv == SofaInv /\ ViewInv /\ AnnotationsHaveTheirSofa

-----------------------------------------------------------------------------
(* Helpers *)

(* A new sofa gets a number that no sofa has. *)
LEMMA NewSofaIsAdded ==
    ASSUME TypeOK, SofasAreCounted, NEW name \in Names, NewSofa(name)
    PROVE  /\ sofaCount + 1 \in Numbers \ {1}
           /\ ~HasSofa(sofaCount + 1)
           /\ sofaName' = [sofaName EXCEPT ![sofaCount + 1] = name]
           /\ sofaCount' = sofaCount + 1
BY CasAssumption DEF TypeOK, SofasAreCounted, NewSofa, AddSofa, Numbers

(* Only the name of the initial view can be there twice: getSofa(name) finds the sofa. *)
LEMMA FirstNamedIsTheNamed ==
    ASSUME OthersNamedOnce, NEW n \in Numbers, sofaName[n] # InitialName, HasSofa(n)
    PROVE  Named(sofaName[n]) = {n} /\ FirstNamed(sofaName[n]) = n
<1>1. Named(sofaName[n]) = {n}
  BY DEF OthersNamedOnce, Named, HasSofa
<1>2. n <= n
  BY DEF Numbers
<1>3. QED
  BY <1>1, <1>2 DEF FirstNamed

(* A name of a sofa is the name of one sofa, unless it is that of the initial view. *)
LEMMA NamedHasSofa ==
    ASSUME TypeOK, OthersNamedOnce, NEW name \in Names, name # InitialName, Named(name) # {}
    PROVE  /\ FirstNamed(name) \in Numbers /\ HasSofa(FirstNamed(name))
           /\ sofaName[FirstNamed(name)] = name
<1>1. PICK n \in Numbers : sofaName[n] = name
  BY DEF Named
<1>2. HasSofa(n)
  BY <1>1, CasAssumption DEF HasSofa
<1>3. QED
  BY <1>1, <1>2, FirstNamedIsTheNamed

(* The view that is opened for an annotation is that of a sofa. *)
LEMMA AnnotationsLeadToSofas ==
    ASSUME TypeOK, AnnotationsHaveTheirSofa, NEW s \in SofasOfAnnotations \ {NotCreated}, s # NullSofa
    PROVE  s \in Numbers /\ HasSofa(s)
<1>1. s \in NotCreated .. MaxSofas
  BY DEF TypeOK, SofasOfAnnotations
<1>2. s > NullSofa /\ s \in Numbers
  BY <1>1, CasAssumption DEF NotCreated, NullSofa, Numbers
<1>3. QED
  BY <1>2 DEF AnnotationsHaveTheirSofa

(* The number of the sofa of a view is a value of a sofa feature. *)
LEMMA OwnSofaType ==
    ASSUME NEW v \in Numbers
    PROVE  OwnSofa(v) \in NotCreated .. MaxSofas
BY CasAssumption DEF OwnSofa, Numbers, NullSofa, NotCreated

-----------------------------------------------------------------------------
(* Type correctness *)

\* The part of the type invariant that opening and updating views is about.
ViewTypes ==
    /\ views \subseteq Numbers
    /\ docText \in [Numbers -> AnyText]
    /\ docSofa \in [Numbers -> NotCreated .. MaxSofas]
    /\ docEnd \in [Numbers -> AnyText]
    /\ docIndexed \subseteq Numbers

LEMMA OpenViewType ==
    ASSUME ViewTypes, NEW n \in Numbers, NEW t \in AnyText, OpenView(n, t)
    PROVE  ViewTypes'
BY DEF ViewTypes, OpenView

LEMMA UpdateDocumentType ==
    ASSUME ViewTypes, NEW n \in Numbers, NEW t \in AnyText, UpdateDocument(n, t),
           views' \subseteq Numbers
    PROVE  ViewTypes'
<1>1. n \in NotCreated .. MaxSofas
  BY CasAssumption DEF Numbers, NotCreated
<1>2. docSofa' \in [Numbers -> NotCreated .. MaxSofas]
  <2>1. CASE docSofa[n] = NotCreated
    BY <1>1, <2>1 DEF ViewTypes, UpdateDocument
  <2>2. CASE docSofa[n] # NotCreated
    BY <2>2 DEF ViewTypes, UpdateDocument
  <2>3. QED
    BY <2>1, <2>2
<1>3. QED
  BY <1>2 DEF ViewTypes, UpdateDocument

LEMMA OpenViewOfType ==
    ASSUME TypeOK, AnnotationsHaveTheirSofa, NEW s \in SofasOfAnnotations \ {NotCreated}, OpenViewOf(s)
    PROVE  ViewTypes' /\ undefined' \in BOOLEAN
<1>1. CASE s = NullSofa
  BY <1>1 DEF OpenViewOf, docVars, TypeOK, ViewTypes
<1>2. CASE s # NullSofa
  <2>1. s \in Numbers /\ ViewTypes /\ sofaText[s] \in AnyText
    BY <1>2, AnnotationsLeadToSofas DEF TypeOK, ViewTypes
  <2>2. OpenView(s, sofaText[s]) /\ undefined' = undefined
    BY <1>2 DEF OpenViewOf
  <2>3. QED
    BY <2>1, <2>2, OpenViewType DEF TypeOK
<1>3. QED
  BY <1>1, <1>2

LEMMA EnsureSofaType ==
    ASSUME TypeOK, NEW v \in Numbers, EnsureSofa(v)
    PROVE  sofaName' \in [Numbers -> Names \cup {NoName}] /\ initialSofaCreated' \in BOOLEAN
<1>1. CASE HasSofa(v) \/ initialSofaCreated
  BY <1>1 DEF TypeOK, EnsureSofa
<1>2. CASE ~(HasSofa(v) \/ initialSofaCreated)
  <2>1. AddSofa(1, InitialName) /\ initialSofaCreated' = TRUE
    BY <1>2 DEF EnsureSofa
  <2>2. QED
    BY <2>1, CasAssumption DEF AddSofa, TypeOK
<1>3. QED
  BY <1>1, <1>2

LEMMA TypeStep ==
    ASSUME TypeOK, CasInv, [Next]_vars
    PROVE  TypeOK'
<1> USE CasAssumption DEF TypeOK, CasInv, SofaInv, sofaVars, docVars, annVars, AnyText
<1>1. CASE \E name \in Names : CreateSofa(name)
  BY <1>1, NewSofaIsAdded DEF CreateSofa, NewSofa
<1>2. CASE \E local \in Names : CreateView(local)
  <2>1. PICK local \in Names : CreateView(local)
    BY <1>2
  <2>2. SofaId[component][local] \in Names
    OBVIOUS
  <2>3. QED
    BY <2>1, <2>2, NewSofaIsAdded DEF CreateView, NewSofa, OpenView
<1>3. CASE \E local \in Names : GetView(local)
  <2>1. PICK local \in Names : GetView(local)
    BY <1>3
  <2>2. SofaId[component][local] \in Names
    OBVIOUS
  <2>3. FirstNamed(SofaId[component][local]) \in Numbers
    BY <2>1, <2>2, NamedHasSofa DEF GetView
  <2>4. QED
    BY <2>1, <2>3 DEF GetView, OpenView
<1>4. CASE \E n \in Numbers : GetViewOfSofa(n)
  BY <1>4 DEF GetViewOfSofa, OpenView
<1>5. CASE \E v \in Numbers : GetDocumentAnnotation(v)
  BY <1>5, OwnSofaType DEF GetDocumentAnnotation
<1>6. CASE \E c \in Components : SetCurrentComponentInfo(c)
  BY <1>6 DEF SetCurrentComponentInfo
<1>7. CASE \E v \in Numbers, t \in AnyText : SetDocumentText(v, t)
  <2>1. PICK v \in Numbers, t \in AnyText : SetDocumentText(v, t)
    BY <1>7
  <2>2. ViewTypes'
    BY <2>1, UpdateDocumentType DEF SetDocumentText, ViewTypes
  <2>3. sofaText' \in [Numbers -> AnyText]
    BY <2>1 DEF SetDocumentText
  <2>4. QED
    BY <2>1, <2>2, <2>3, EnsureSofaType DEF SetDocumentText, ViewTypes
<1>8. CASE \E n \in Numbers, t \in AnyText : SetLocalSofaData(n, t)
  <2>1. PICK n \in Numbers, t \in AnyText : SetLocalSofaData(n, t)
    BY <1>8
  <2>2. ViewTypes'
    BY <2>1, UpdateDocumentType, OpenViewType DEF SetLocalSofaData, UpdateView, ViewTypes
  <2>3. QED
    BY <2>1, <2>2 DEF SetLocalSofaData, ViewTypes
<1>9. CASE \E v \in Numbers, t \in AnyText, copy \in BOOLEAN : SetDocumentTextOld(v, t, copy)
  <2>1. PICK v \in Numbers, t \in AnyText, copy \in BOOLEAN : SetDocumentTextOld(v, t, copy)
    BY <1>9
  <2> DEFINE held == IF t = NoText /\ copy THEN docText[v] ELSE t
  <2>2. held \in AnyText
    OBVIOUS
  <2>3. ViewTypes'
    <3>1. CASE held = NoText
      BY <2>1, <3>1 DEF SetDocumentTextOld, ViewTypes
    <3>2. CASE held # NoText
      <4>1. UpdateDocument(v, held) /\ views' = views
        BY <2>1, <3>2 DEF SetDocumentTextOld
      <4>2. QED
        BY <2>2, <4>1, UpdateDocumentType DEF ViewTypes
    <3>3. QED
      BY <3>1, <3>2
  <2>4. sofaText' \in [Numbers -> AnyText]
    BY <2>1, <2>2 DEF SetDocumentTextOld
  <2>5. QED
    BY <2>1, <2>3, <2>4, EnsureSofaType DEF SetDocumentTextOld, ViewTypes
<1>10. CASE \E v \in Numbers, a \in Annotations : CreateAnnotation(v, a)
  BY <1>10, OwnSofaType DEF CreateAnnotation
<1>11. CASE \E v \in Numbers, a \in Annotations : AddFS(v, a)
  BY <1>11 DEF AddFS
<1>12. CASE \E s \in SofasOfAnnotations \ {NotCreated} : GetAnnotationView(s)
  <2>1. PICK s \in SofasOfAnnotations \ {NotCreated} : GetAnnotationView(s)
    BY <1>12
  <2>2. QED
    BY <2>1, OpenViewOfType DEF GetAnnotationView, ViewTypes
<1>13. CASE \E s \in SofasOfAnnotations \ {NotCreated} : \E v \in Numbers : FollowReference(v, s)
  <2>1. PICK s \in SofasOfAnnotations \ {NotCreated}, v \in Numbers : FollowReference(v, s)
    BY <1>13
  <2>2. QED
    BY <2>1, OpenViewOfType DEF FollowReference, ViewFor, ViewTypes
<1>14. CASE Reset
  <2>1. NotCreated \in NotCreated .. MaxSofas /\ 1 \in Numbers
    BY DEF NotCreated, Numbers
  <2>2. QED
    BY <1>14, <2>1 DEF Reset, EmptyViews, ResetIndexes, InitialCounted
<1>15. CASE Deserialize
  <2> PICK initial \in BOOLEAN, last \in Numbers :
        \E others \in [2 .. last -> Names \ {InitialName}], text \in [1 .. last -> AnyText] :
            DeserializeXmi(initial, last, others, text)
    BY <1>15 DEF Deserialize
  <2>1. PICK others \in [2 .. last -> Names \ {InitialName}], text \in [1 .. last -> AnyText] :
          DeserializeXmi(initial, last, others, text)
    OBVIOUS
  <2>2. \A n \in 2 .. last \cup (IF initial THEN {1} ELSE {}) : n \in Numbers /\ n \in 1 .. last
    BY DEF Numbers
  <2>3. sofaName' \in [Numbers -> Names \cup {NoName}] /\ sofaCount' \in Numbers
    BY <2>1 DEF DeserializeXmi, CountUpTo
  <2>4. sofaText' \in [Numbers -> AnyText] /\ docText' \in [Numbers -> AnyText]
        /\ docEnd' \in [Numbers -> AnyText]
    BY <2>1, <2>2 DEF DeserializeXmi
  <2>5. docSofa' \in [Numbers -> NotCreated .. MaxSofas]
    <3>1. \A n \in Numbers : n \in NotCreated .. MaxSofas
      BY DEF Numbers, NotCreated
    <3>2. QED
      BY <2>1, <3>1 DEF DeserializeXmi
  <2>6. views' \subseteq Numbers /\ docIndexed' \subseteq Numbers
    BY <2>1, <2>2 DEF DeserializeXmi
  <2>7. QED
    BY <2>1, <2>3, <2>4, <2>5, <2>6 DEF DeserializeXmi
<1>16. CASE UNCHANGED vars
  BY <1>16 DEF vars
<1>17. QED
  BY <1>1, <1>2, <1>3, <1>4, <1>5, <1>6, <1>7, <1>8, <1>9, <1>10, <1>11, <1>12, <1>13, <1>14,
     <1>15, <1>16 DEF Next

-----------------------------------------------------------------------------
(* Sofas *)

LEMMA NewSofaKeepsSofas ==
    ASSUME TypeOK, SofaInv, NEW name \in Names, NewSofa(name)
    PROVE  SofaInv'
<1>1. /\ sofaCount + 1 \in Numbers \ {1} /\ ~HasSofa(sofaCount + 1)
      /\ sofaName' = [sofaName EXCEPT ![sofaCount + 1] = name]
      /\ sofaCount' = sofaCount + 1
  BY NewSofaIsAdded DEF SofaInv
<1>2. SofasAreCounted'
  BY <1>1, CasAssumption DEF SofaInv, SofasAreCounted, TypeOK, NewSofa, HasSofa, Numbers
<1>3. OthersNamedOnce'
  BY <1>1 DEF SofaInv, OthersNamedOnce, TypeOK, NewSofa, NameIsFree, Named, HasSofa
<1>4. QED
  BY <1>2, <1>3 DEF SofaInv

LEMMA EnsureSofaKeepsSofas ==
    ASSUME TypeOK, SofaInv, NEW v \in Numbers, EnsureSofa(v), UNCHANGED sofaCount
    PROVE  SofaInv'
<1>1. CASE HasSofa(v) \/ initialSofaCreated
  BY <1>1 DEF EnsureSofa, SofaInv, SofasAreCounted, OthersNamedOnce, HasSofa
<1>2. CASE ~(HasSofa(v) \/ initialSofaCreated)
  <2>1. AddSofa(1, InitialName) /\ initialSofaCreated' = TRUE
    BY <1>2 DEF EnsureSofa
  <2>2. ~HasSofa(1) /\ 1 \in Numbers
    BY <1>2, CasAssumption DEF SofaInv, SofasAreCounted, Numbers
  <2>3. sofaName' = [sofaName EXCEPT ![1] = InitialName]
    BY <2>1, <2>2 DEF AddSofa
  <2>4. SofasAreCounted'
    BY <2>1, <2>2, <2>3, CasAssumption DEF SofaInv, SofasAreCounted, HasSofa, TypeOK
  <2>5. OthersNamedOnce'
    BY <2>2, <2>3 DEF SofaInv, OthersNamedOnce, HasSofa, TypeOK
  <2>6. QED
    BY <2>4, <2>5 DEF SofaInv
<1>3. QED
  BY <1>1, <1>2

(* What createInitialSofa() leaves of the sofas, for a view the application may use. *)
LEMMA EnsureSofaEnsures ==
    ASSUME TypeOK, SofaInv, NEW v \in Numbers, Usable(v), EnsureSofa(v)
    PROVE  /\ \A n \in Numbers : HasSofa(n) => sofaName'[n] = sofaName[n]
           /\ \A n \in Numbers : ~HasSofa(n) => sofaName'[n] = sofaName[n] \/ n = 1
           /\ HasSofa(v)'
<1>1. CASE HasSofa(v) \/ initialSofaCreated
  BY <1>1 DEF EnsureSofa, SofaInv, SofasAreCounted, Usable, HasSofa
<1>2. CASE ~(HasSofa(v) \/ initialSofaCreated)
  BY <1>2, CasAssumption DEF EnsureSofa, AddSofa, SofaInv, SofasAreCounted, Usable, HasSofa, TypeOK
<1>3. QED
  BY <1>1, <1>2

LEMMA SofaStep ==
    ASSUME TypeOK, CasInv, [Next]_vars
    PROVE  SofaInv'
<1> USE DEF CasInv, sofaVars
<1>1. CASE \E name \in Names : CreateSofa(name)
  BY <1>1, NewSofaKeepsSofas DEF CreateSofa
<1>2. CASE \E local \in Names : CreateView(local)
  <2>1. PICK local \in Names : CreateView(local)
    BY <1>2
  <2>2. SofaId[component][local] \in Names
    BY CasAssumption DEF TypeOK
  <2>3. QED
    BY <2>1, <2>2, NewSofaKeepsSofas DEF CreateView
<1>3. CASE \E v \in Numbers, t \in AnyText : SetDocumentText(v, t)
  BY <1>3, EnsureSofaKeepsSofas DEF SetDocumentText
<1>4. CASE \E v \in Numbers, t \in AnyText, copy \in BOOLEAN : SetDocumentTextOld(v, t, copy)
  BY <1>4, EnsureSofaKeepsSofas DEF SetDocumentTextOld
<1>5. CASE Reset
  BY <1>5, CasAssumption DEF Reset, InitialCounted, SofaInv, SofasAreCounted, OthersNamedOnce, HasSofa, Numbers
<1>6. CASE Deserialize
  <2> PICK initial \in BOOLEAN, last \in Numbers :
        \E others \in [2 .. last -> Names \ {InitialName}], text \in [1 .. last -> AnyText] :
            /\ \A m, n \in 2 .. last : others[m] = others[n] => m = n
            /\ DeserializeXmi(initial, last, others, text)
    BY <1>6 DEF Deserialize
  <2>1. PICK others \in [2 .. last -> Names \ {InitialName}], text \in [1 .. last -> AnyText] :
          /\ \A m, n \in 2 .. last : others[m] = others[n] => m = n
          /\ DeserializeXmi(initial, last, others, text)
    OBVIOUS
  <2>2. \A n \in Numbers : ~HasSofa(n)
    BY <2>1 DEF DeserializeXmi
  <2>3. ~initialSofaCreated /\ sofaCount = 1
    <3>1. ~initialSofaCreated
      BY <2>2, CasAssumption DEF SofaInv, SofasAreCounted, Numbers
    <3>2. sofaCount \in Numbers \ {1} => HasSofa(sofaCount)
      BY DEF SofaInv, SofasAreCounted, Numbers
    <3>3. QED
      BY <2>2, <3>1, <3>2 DEF TypeOK
  <2>4. sofaCount' = last
    BY <2>1, <2>3 DEF DeserializeXmi, CountUpTo, Numbers
  <2>5. \A n \in Numbers : sofaName'[n] = IF n \in 2 .. last THEN others[n]
                                         ELSE IF initial /\ n = 1 THEN InitialName ELSE NoName
    BY <2>1 DEF DeserializeXmi, Numbers
  <2>6. initialSofaCreated' = initial
    BY <2>1, <2>3 DEF DeserializeXmi
  <2>7. SofasAreCounted'
    <3>1. \A n \in 2 .. last : others[n] # NoName
      BY CasAssumption
    <3>2. \A n \in Numbers : HasSofa(n)' <=> n \in 2 .. last \/ (initial /\ n = 1)
      BY <2>5, <3>1, CasAssumption DEF HasSofa
    <3>3. QED
      BY <2>4, <2>5, <2>6, <3>2, CasAssumption DEF SofasAreCounted, Numbers
  <2>8. OthersNamedOnce'
    BY <2>1, <2>5 DEF OthersNamedOnce, HasSofa
  <2>9. QED
    BY <2>7, <2>8 DEF SofaInv
<1>7. CASE UNCHANGED <<sofaName, sofaCount, initialSofaCreated>>
  BY <1>7 DEF SofaInv, SofasAreCounted, OthersNamedOnce, HasSofa
<1>8. QED
  BY <1>1, <1>2, <1>3, <1>4, <1>5, <1>6, <1>7 DEF Next, vars, GetView, GetViewOfSofa, GetDocumentAnnotation,
     SetCurrentComponentInfo, SetLocalSofaData, CreateAnnotation, AddFS, GetAnnotationView, FollowReference

-----------------------------------------------------------------------------
(* Views *)

\* No sofa is taken away.
SofasStay == \A n \in Numbers : HasSofa(n) => HasSofa(n)'

LEMMA SofasStayInSteps ==
    ASSUME TypeOK, CasInv,
           \/ \E name \in Names : NewSofa(name)
           \/ \E v \in Numbers : Usable(v) /\ EnsureSofa(v)
           \/ UNCHANGED sofaName
    PROVE  SofasStay
<1>1. CASE \E name \in Names : NewSofa(name)
  BY <1>1, NewSofaIsAdded DEF CasInv, SofaInv, SofasStay, HasSofa, TypeOK
<1>2. CASE \E v \in Numbers : Usable(v) /\ EnsureSofa(v)
  BY <1>2, EnsureSofaEnsures DEF CasInv, SofasStay, HasSofa
<1>3. CASE UNCHANGED sofaName
  BY <1>3 DEF SofasStay, HasSofa
<1>4. QED
  BY <1>1, <1>2, <1>3

(* A view that is opened with the text of its sofa is as it should be. *)
LEMMA OpenViewKeepsViews ==
    ASSUME TypeOK, CasInv, SofasStay, UNCHANGED <<sofaText, index>>,
           NEW n \in Numbers, HasSofa(n)', OpenView(n, sofaText[n])
    PROVE  ViewInv'
<1> USE DEF TypeOK, CasInv, ViewInv, SofasStay, OpenView
<1>1. ViewsShowTheirSofas'
  BY DEF ViewsShowTheirSofas
<1>2. EmptyUntilItsSofa'
  BY DEF EmptyUntilItsSofa, HasSofa
<1>3. DocumentAnnotationFits'
  BY DEF DocumentAnnotationFits
<1>4. QED
  BY <1>1, <1>2, <1>3

(* So is a view whose text is set. *)
LEMMA UpdateDocumentKeepsViews ==
    ASSUME TypeOK, CasInv, SofasStay, UNCHANGED index,
           NEW n \in Numbers, NEW t \in AnyText, HasSofa(n)',
           sofaText' = [sofaText EXCEPT ![n] = t], views' = views \cup {n}, UpdateDocument(n, t)
    PROVE  ViewInv'
<1> USE DEF TypeOK, CasInv, ViewInv, SofasStay, UpdateDocument
<1>1. ViewsShowTheirSofas'
  BY DEF ViewsShowTheirSofas
<1>2. EmptyUntilItsSofa'
  BY DEF EmptyUntilItsSofa, HasSofa
<1>3. DocumentAnnotationFits'
  <2> SUFFICES ASSUME NEW m \in Numbers, sofaText'[m] # NoText
               PROVE  m \in views' \cap docIndexed' /\ docSofa'[m] # NotCreated /\ docEnd'[m] = sofaText'[m]
    BY DEF DocumentAnnotationFits
  <2>1. CASE m = n
    BY <2>1, CasAssumption DEF Numbers, NotCreated
  <2>2. CASE m # n
    BY <2>2 DEF DocumentAnnotationFits
  <2>3. QED
    BY <2>1, <2>2
<1>4. QED
  BY <1>1, <1>2, <1>3

(* Nothing is asked of a view whose sofa gets the empty text. *)
LEMMA EmptyTextKeepsViews ==
    ASSUME TypeOK, CasInv, SofasStay, UNCHANGED <<index, docSofa, docEnd, docIndexed>>,
           NEW n \in Numbers, HasSofa(n)', sofaText' = [sofaText EXCEPT ![n] = NoText],
           views' = views \cup {n}, \A m \in Numbers \ {n} : docText'[m] = docText[m]
    PROVE  ViewInv'
<1> USE DEF TypeOK, CasInv, ViewInv, SofasStay
<1>1. ViewsShowTheirSofas'
  BY DEF ViewsShowTheirSofas
<1>2. EmptyUntilItsSofa'
  BY DEF EmptyUntilItsSofa, HasSofa
<1>3. DocumentAnnotationFits'
  BY DEF DocumentAnnotationFits
<1>4. QED
  BY <1>1, <1>2, <1>3

(* Annotations touch no text. *)
LEMMA OtherStepsKeepViews ==
    ASSUME TypeOK, CasInv, SofasStay, UNCHANGED <<sofaText, views, docText, docIndexed>>,
           \A n \in Numbers : \/ docSofa'[n] = docSofa[n] /\ docEnd'[n] = docEnd[n]
                              \/ docSofa[n] = NotCreated /\ (n = 1 \/ HasSofa(n)),
           \A n \in Numbers : index'[n] = index[n] \/ n = 1 \/ HasSofa(n)
    PROVE  ViewInv'
<1> USE DEF TypeOK, CasInv, ViewInv, SofasStay
<1>1. ViewsShowTheirSofas'
  BY DEF ViewsShowTheirSofas
<1>2. EmptyUntilItsSofa'
  BY DEF EmptyUntilItsSofa
<1>3. DocumentAnnotationFits'
  BY DEF DocumentAnnotationFits
<1>4. QED
  BY <1>1, <1>2, <1>3

LEMMA OpenViewOfKeepsViews ==
    ASSUME TypeOK, CasInv, UNCHANGED <<sofaVars, index>>,
           NEW s \in SofasOfAnnotations \ {NotCreated}, OpenViewOf(s)
    PROVE  ViewInv'
<1>1. SofasStay
  BY SofasStayInSteps DEF sofaVars
<1>2. CASE s = NullSofa
  BY <1>1, <1>2, OtherStepsKeepViews DEF OpenViewOf, docVars, sofaVars
<1>3. CASE s # NullSofa
  <2>1. s \in Numbers /\ HasSofa(s) /\ HasSofa(s)'
    BY <1>3, AnnotationsLeadToSofas DEF CasInv, sofaVars, HasSofa
  <2>2. OpenView(s, sofaText[s])
    BY <1>3 DEF OpenViewOf
  <2>3. QED
    BY <1>1, <2>1, <2>2, OpenViewKeepsViews DEF sofaVars
<1>4. QED
  BY <1>2, <1>3

LEMMA ViewStep ==
    ASSUME TypeOK, CasInv, [Next]_vars
    PROVE  ViewInv'
<1> USE DEF sofaVars, docVars, annVars
<1>1. CASE \E name \in Names : CreateSofa(name)
  BY <1>1, SofasStayInSteps, OtherStepsKeepViews DEF CreateSofa, NewSofa
<1>2. CASE \E local \in Names : CreateView(local)
  <2>1. PICK local \in Names : CreateView(local)
    BY <1>2
  <2>2. NewSofa(SofaId[component][local]) /\ SofaId[component][local] \in Names
    BY <2>1, CasAssumption DEF CreateView, TypeOK
  <2> PICK n \in Numbers : n = sofaCount + 1
    BY <2>2, NewSofaIsAdded DEF CasInv, SofaInv
  <2>3. ~HasSofa(n) /\ HasSofa(n)'
    BY <2>2, NewSofaIsAdded, CasAssumption DEF CasInv, SofaInv, HasSofa, TypeOK
  <2>4. sofaText[n] = NoText
    BY <2>3 DEF CasInv, ViewInv, EmptyUntilItsSofa
  <2>5. OpenView(n, sofaText[n]) /\ UNCHANGED <<sofaText, index>>
    BY <2>1, <2>2, <2>4 DEF CreateView, NewSofa
  <2>6. SofasStay
    BY <2>2, SofasStayInSteps
  <2>7. QED
    BY <2>3, <2>5, <2>6, OpenViewKeepsViews
<1>3. CASE \E local \in Names : GetView(local)
  <2>1. PICK local \in Names : GetView(local)
    BY <1>3
  <2>2. SofaId[component][local] \in Names
    BY CasAssumption DEF TypeOK
  <2>3. PICK n \in Numbers : n = FirstNamed(SofaId[component][local]) /\ HasSofa(n)
    BY <2>1, <2>2, NamedHasSofa DEF GetView, CasInv, SofaInv
  <2>4. HasSofa(n)' /\ SofasStay /\ OpenView(n, sofaText[n])
    BY <2>1, <2>3, SofasStayInSteps DEF GetView, HasSofa
  <2>5. QED
    BY <2>1, <2>3, <2>4, OpenViewKeepsViews DEF GetView
<1>4. CASE \E n \in Numbers : GetViewOfSofa(n)
  BY <1>4, SofasStayInSteps, OpenViewKeepsViews DEF GetViewOfSofa, HasSofa
<1>5. CASE \E v \in Numbers : GetDocumentAnnotation(v)
  BY <1>5, SofasStayInSteps, OtherStepsKeepViews DEF GetDocumentAnnotation, Usable, TypeOK
<1>6. CASE \E c \in Components : SetCurrentComponentInfo(c)
  BY <1>6, SofasStayInSteps, OtherStepsKeepViews DEF SetCurrentComponentInfo
<1>7. CASE \E v \in Numbers, t \in AnyText : SetDocumentText(v, t)
  <2>1. PICK v \in Numbers, t \in AnyText : SetDocumentText(v, t)
    BY <1>7
  <2>2. SofasStay /\ HasSofa(v)' /\ views' = views \cup {v}
    BY <2>1, SofasStayInSteps, EnsureSofaEnsures DEF SetDocumentText, CasInv, Usable
  <2>3. CASE t = NoText
    BY <2>1, <2>2, <2>3, EmptyTextKeepsViews DEF SetDocumentText
  <2>4. CASE t # NoText
    BY <2>1, <2>2, <2>4, UpdateDocumentKeepsViews DEF SetDocumentText
  <2>5. QED
    BY <2>3, <2>4
<1>8. CASE \E n \in Numbers, t \in AnyText : SetLocalSofaData(n, t)
  <2>1. PICK n \in Numbers, t \in AnyText : SetLocalSofaData(n, t)
    BY <1>8
  <2>2. SofasStay /\ HasSofa(n)'
    BY <2>1, SofasStayInSteps DEF SetLocalSofaData, HasSofa
  <2>3. CASE t = NoText
    BY <2>1, <2>2, <2>3, EmptyTextKeepsViews DEF SetLocalSofaData, UpdateView, OpenView, TypeOK
  <2>4. CASE t # NoText
    BY <2>1, <2>2, <2>4, UpdateDocumentKeepsViews DEF SetLocalSofaData, UpdateView
  <2>5. QED
    BY <2>3, <2>4
<1>9. CASE \E v \in Numbers, t \in AnyText, copy \in BOOLEAN : SetDocumentTextOld(v, t, copy)
  <2>1. PICK v \in Numbers, t \in AnyText, copy \in BOOLEAN : SetDocumentTextOld(v, t, copy)
    BY <1>9
  <2> DEFINE held == IF t = NoText /\ copy THEN docText[v] ELSE t
  <2>2. SofasStay /\ HasSofa(v)' /\ views' = views \cup {v}
    BY <2>1, SofasStayInSteps, EnsureSofaEnsures DEF SetDocumentTextOld, CasInv, Usable
  <2>3. held \in AnyText /\ sofaText' = [sofaText EXCEPT ![v] = held] /\ UNCHANGED index
    BY <2>1 DEF SetDocumentTextOld, TypeOK
  <2>4. CASE held = NoText
    <3>1. docText' = [docText EXCEPT ![v] = NoText] /\ UNCHANGED <<docSofa, docEnd, docIndexed>>
      BY <2>1, <2>4 DEF SetDocumentTextOld
    <3>2. QED
      BY <2>2, <2>3, <2>4, <3>1, EmptyTextKeepsViews DEF TypeOK
  <2>5. CASE held # NoText
    <3>1. UpdateDocument(v, held)
      BY <2>1, <2>5 DEF SetDocumentTextOld
    <3>2. QED
      BY <2>2, <2>3, <3>1, UpdateDocumentKeepsViews
  <2>6. QED
    BY <2>4, <2>5
<1>10. CASE \E v \in Numbers, a \in Annotations : CreateAnnotation(v, a)
  BY <1>10, SofasStayInSteps, OtherStepsKeepViews DEF CreateAnnotation
<1>11. CASE \E v \in Numbers, a \in Annotations : AddFS(v, a)
  BY <1>11, SofasStayInSteps, OtherStepsKeepViews DEF AddFS, Usable, TypeOK
<1>12. CASE \E s \in SofasOfAnnotations \ {NotCreated} : GetAnnotationView(s)
  BY <1>12, OpenViewOfKeepsViews DEF GetAnnotationView
<1>13. CASE \E s \in SofasOfAnnotations \ {NotCreated} : \E v \in Numbers : FollowReference(v, s)
  BY <1>13, OpenViewOfKeepsViews DEF FollowReference, ViewFor
<1>14. CASE Reset
  BY <1>14 DEF Reset, EmptyViews, ResetIndexes, ViewInv, ViewsShowTheirSofas, EmptyUntilItsSofa, DocumentAnnotationFits
<1>15. CASE Deserialize
  <2> PICK initial \in BOOLEAN, last \in Numbers :
        \E others \in [2 .. last -> Names \ {InitialName}], text \in [1 .. last -> AnyText] :
            DeserializeXmi(initial, last, others, text)
    BY <1>15 DEF Deserialize
  <2>1. PICK others \in [2 .. last -> Names \ {InitialName}], text \in [1 .. last -> AnyText] :
          DeserializeXmi(initial, last, others, text)
    OBVIOUS
  <2> DEFINE loaded == 2 .. last \cup (IF initial THEN {1} ELSE {})
             filled == {n \in loaded : text[n] # NoText}
  <2>2. \A n \in Numbers : /\ ~HasSofa(n)
                           /\ sofaText[n] = NoText /\ docText[n] = NoText /\ n \notin docIndexed
                           /\ n # 1 => docSofa[n] = NotCreated /\ index[n] = {}
    BY <2>1 DEF DeserializeXmi, CasInv, ViewInv, EmptyUntilItsSofa
  <2>3. loaded \subseteq Numbers /\ \A n \in loaded : n \in Numbers /\ sofaName'[n] # NoName
    <3>1. 1 \in Numbers /\ \A n \in 2 .. last : n \in Numbers
      BY CasAssumption DEF Numbers
    <3>2. \A n \in 2 .. last : others[n] # NoName
      BY CasAssumption
    <3>3. QED
      BY <2>1, <3>1, <3>2, CasAssumption DEF DeserializeXmi
  <2>4. /\ views' = views \cup loaded /\ docIndexed' = docIndexed \cup filled /\ index' = index
        /\ \A n \in Numbers : /\ sofaText'[n] = IF n \in loaded THEN text[n] ELSE NoText
                              /\ docText'[n] = IF n \in filled \/ n \in loaded \ views
                                               THEN text[n] ELSE NoText
                              /\ docSofa'[n] = IF n \in filled THEN n ELSE docSofa[n]
                              /\ docEnd'[n] = IF n \in filled THEN text[n] ELSE docEnd[n]
    BY <2>1, <2>2 DEF DeserializeXmi, annVars
  <2> HIDE DEF loaded
  <2>5. ViewsShowTheirSofas'
    BY <2>4, TypeStep DEF ViewsShowTheirSofas, TypeOK
  <2>6. EmptyUntilItsSofa'
    BY <2>2, <2>3, <2>4 DEF EmptyUntilItsSofa, HasSofa
  <2>7. DocumentAnnotationFits'
    BY <2>3, <2>4, CasAssumption DEF DocumentAnnotationFits, Numbers, NotCreated
  <2>8. QED
    BY <2>5, <2>6, <2>7 DEF ViewInv
<1>16. CASE UNCHANGED vars
  BY <1>16, SofasStayInSteps, OtherStepsKeepViews DEF vars
<1>17. QED
  BY <1>1, <1>2, <1>3, <1>4, <1>5, <1>6, <1>7, <1>8, <1>9, <1>10, <1>11, <1>12, <1>13, <1>14,
     <1>15, <1>16 DEF Next

-----------------------------------------------------------------------------
(* Annotations *)

(* It is enough that a new sofa reference is that of the view, or none in the initial view. *)
LEMMA AnnotationsKeepTheirSofas ==
    ASSUME TypeOK, CasInv, SofasStay, ~undefined,
           \A a \in Annotations : \/ annSofa'[a] = annSofa[a]
                                  \/ annSofa'[a] \in Numbers /\ HasSofa(annSofa[a])'
                                  \/ annSofa'[a] \in {NullSofa, NotCreated},
           \A n \in Numbers : \/ docSofa'[n] = docSofa[n]
                              \/ docSofa'[n] = n /\ HasSofa(n)'
                              \/ n = 1 /\ docSofa'[n] = NullSofa,
           undefined' => /\ NullSofa \in SofasOfAnnotations
                         /\ UNCHANGED <<annSofa, docSofa>>
    PROVE  AnnotationsHaveTheirSofa'
<1> USE DEF CasInv, AnnotationsHaveTheirSofa
<1>1. ASSUME NEW s \in SofasOfAnnotations', s > NullSofa
      PROVE  HasSofa(s)'
  <2>1. CASE \E a \in Annotations : s = annSofa'[a]
    <3>1. PICK a \in Annotations : s = annSofa'[a]
      BY <2>1
    <3>2. CASE annSofa'[a] = annSofa[a]
      <4>1. s \in SofasOfAnnotations
        BY <3>1, <3>2 DEF SofasOfAnnotations
      <4>2. HasSofa(s) /\ s \in Numbers
        BY <4>1, <1>1, AnnotationsLeadToSofas, CasAssumption DEF NullSofa, NotCreated
      <4>3. QED
        BY <4>2 DEF SofasStay, HasSofa
    <3>3. CASE annSofa'[a] \in Numbers /\ HasSofa(annSofa[a])'
      BY <3>1, <3>3 DEF HasSofa
    <3>4. CASE annSofa'[a] \in {NullSofa, NotCreated}
      BY <1>1, <3>1, <3>4 DEF NullSofa, NotCreated
    <3>5. QED
      BY <3>2, <3>3, <3>4
  <2>2. CASE \E n \in Numbers : s = docSofa'[n]
    <3>1. PICK n \in Numbers : s = docSofa'[n]
      BY <2>2
    <3>2. CASE docSofa'[n] = docSofa[n]
      <4>1. s \in SofasOfAnnotations
        BY <3>1, <3>2 DEF SofasOfAnnotations
      <4>2. HasSofa(s) /\ s \in Numbers
        BY <4>1, <1>1, AnnotationsLeadToSofas, CasAssumption DEF NullSofa, NotCreated
      <4>3. QED
        BY <4>2 DEF SofasStay, HasSofa
    <3>3. CASE docSofa'[n] # docSofa[n]
      BY <1>1, <3>1, <3>3 DEF NullSofa, HasSofa
    <3>4. QED
      BY <3>2, <3>3
  <2>3. QED
    BY <2>1, <2>2 DEF SofasOfAnnotations
<1>2. \A n \in Numbers : docSofa'[n] \in {NotCreated, n} \cup (IF n = 1 THEN {NullSofa} ELSE {})
  OBVIOUS
<1>3. undefined' => NullSofa \in SofasOfAnnotations'
  BY DEF SofasOfAnnotations
<1>4. QED
  BY <1>1, <1>2, <1>3

LEMMA OwnSofaIsASofa ==
    ASSUME NEW v \in Numbers, Usable(v)
    PROVE  \/ OwnSofa(v) = v /\ HasSofa(v)
           \/ OwnSofa(v) = NullSofa /\ v = 1
BY DEF OwnSofa, Usable

LEMMA OpenViewOfKeepsAnnotations ==
    ASSUME TypeOK, CasInv, ~undefined, UNCHANGED <<sofaVars, annVars>>,
           NEW s \in SofasOfAnnotations \ {NotCreated}, OpenViewOf(s)
    PROVE  AnnotationsHaveTheirSofa'
<1>1. SofasStay
  BY SofasStayInSteps DEF sofaVars
<1>2. UNCHANGED <<annSofa, docSofa>> /\ (undefined' => NullSofa \in SofasOfAnnotations)
  BY DEF OpenViewOf, OpenView, docVars, annVars
<1>3. QED
  BY <1>1, <1>2, AnnotationsKeepTheirSofas

LEMMA AnnotationStep ==
    ASSUME TypeOK, CasInv, [Next]_vars
    PROVE  AnnotationsHaveTheirSofa'
<1> USE DEF sofaVars, docVars, annVars
<1>1. CASE UNCHANGED vars
  BY <1>1 DEF vars, CasInv, AnnotationsHaveTheirSofa, SofasOfAnnotations, HasSofa
<1>2. CASE Next
  <2>0. ~undefined
    BY <1>2 DEF Next
  <2>1. CASE \E name \in Names : CreateSofa(name)
    BY <2>0, <2>1, SofasStayInSteps, AnnotationsKeepTheirSofas DEF CreateSofa
  <2>2. CASE \E local \in Names : CreateView(local)
    <3>1. PICK local \in Names : CreateView(local)
      BY <2>2
    <3>2. SofaId[component][local] \in Names
      BY CasAssumption DEF TypeOK
    <3>3. SofasStay
      BY <3>1, <3>2, SofasStayInSteps DEF CreateView
    <3>4. QED
      BY <2>0, <3>1, <3>3, AnnotationsKeepTheirSofas DEF CreateView, OpenView
  <2>3. CASE \E local \in Names : GetView(local)
    BY <2>0, <2>3, SofasStayInSteps, AnnotationsKeepTheirSofas DEF GetView, OpenView
  <2>4. CASE \E n \in Numbers : GetViewOfSofa(n)
    BY <2>0, <2>4, SofasStayInSteps, AnnotationsKeepTheirSofas DEF GetViewOfSofa, OpenView
  <2>5. CASE \E v \in Numbers : GetDocumentAnnotation(v)
    <3>1. PICK v \in Numbers : GetDocumentAnnotation(v)
      BY <2>5
    <3>2. SofasStay /\ docSofa' = [docSofa EXCEPT ![v] = OwnSofa(v)]
      BY <3>1, SofasStayInSteps DEF GetDocumentAnnotation
    <3>3. \/ OwnSofa(v) = v /\ HasSofa(v)'
          \/ OwnSofa(v) = NullSofa /\ v = 1
      BY <3>1, OwnSofaIsASofa DEF GetDocumentAnnotation, HasSofa
    <3>4. QED
      BY <2>0, <3>1, <3>2, <3>3, AnnotationsKeepTheirSofas DEF GetDocumentAnnotation, TypeOK
  <2>6. CASE \E c \in Components : SetCurrentComponentInfo(c)
    BY <2>0, <2>6, SofasStayInSteps, AnnotationsKeepTheirSofas DEF SetCurrentComponentInfo
  <2>7. CASE \E v \in Numbers, t \in AnyText : SetDocumentText(v, t)
    <3>1. PICK v \in Numbers, t \in AnyText : SetDocumentText(v, t)
      BY <2>7
    <3>2. SofasStay /\ HasSofa(v)'
      BY <3>1, SofasStayInSteps, EnsureSofaEnsures DEF SetDocumentText, CasInv
    <3>3. docSofa' = docSofa \/ docSofa' = [docSofa EXCEPT ![v] = v]
      BY <3>1 DEF SetDocumentText, UpdateDocument
    <3>4. QED
      BY <2>0, <3>1, <3>2, <3>3, AnnotationsKeepTheirSofas DEF SetDocumentText, TypeOK
  <2>8. CASE \E n \in Numbers, t \in AnyText : SetLocalSofaData(n, t)
    <3>1. PICK n \in Numbers, t \in AnyText : SetLocalSofaData(n, t)
      BY <2>8
    <3>2. SofasStay /\ HasSofa(n)'
      BY <3>1, SofasStayInSteps DEF SetLocalSofaData, HasSofa
    <3>3. docSofa' = docSofa \/ docSofa' = [docSofa EXCEPT ![n] = n]
      BY <3>1 DEF SetLocalSofaData, UpdateView, OpenView, UpdateDocument
    <3>4. QED
      BY <2>0, <3>1, <3>2, <3>3, AnnotationsKeepTheirSofas DEF SetLocalSofaData, TypeOK
  <2>9. CASE \E v \in Numbers, t \in AnyText, copy \in BOOLEAN : SetDocumentTextOld(v, t, copy)
    <3>1. PICK v \in Numbers, t \in AnyText, copy \in BOOLEAN : SetDocumentTextOld(v, t, copy)
      BY <2>9
    <3>2. SofasStay /\ HasSofa(v)'
      BY <3>1, SofasStayInSteps, EnsureSofaEnsures DEF SetDocumentTextOld, CasInv
    <3>3. docSofa' = docSofa \/ docSofa' = [docSofa EXCEPT ![v] = v]
      BY <3>1 DEF SetDocumentTextOld, UpdateDocument
    <3>4. QED
      BY <2>0, <3>1, <3>2, <3>3, AnnotationsKeepTheirSofas DEF SetDocumentTextOld, TypeOK
  <2>10. CASE \E v \in Numbers, a \in Annotations : CreateAnnotation(v, a)
    <3>1. PICK v \in Numbers, a \in Annotations : CreateAnnotation(v, a)
      BY <2>10
    <3>2. SofasStay /\ annSofa' = [annSofa EXCEPT ![a] = OwnSofa(v)]
      BY <3>1, SofasStayInSteps DEF CreateAnnotation
    <3>3. OwnSofa(v) = NullSofa \/ (OwnSofa(v) = v /\ sofaName'[v] # NoName)
      BY <3>1, OwnSofaIsASofa DEF CreateAnnotation, HasSofa
    <3>4. \A b \in Annotations : \/ annSofa'[b] = annSofa[b]
                                 \/ annSofa'[b] \in Numbers /\ HasSofa(annSofa[b])'
                                 \/ annSofa'[b] \in {NullSofa, NotCreated}
      BY <3>2, <3>3 DEF HasSofa, TypeOK
    <3>5. QED
      BY <2>0, <3>1, <3>2, <3>4, AnnotationsKeepTheirSofas DEF CreateAnnotation
  <2>11. CASE \E v \in Numbers, a \in Annotations : AddFS(v, a)
    BY <2>0, <2>11, SofasStayInSteps, AnnotationsKeepTheirSofas DEF AddFS
  <2>12. CASE \E s \in SofasOfAnnotations \ {NotCreated} : GetAnnotationView(s)
    BY <2>0, <2>12, OpenViewOfKeepsAnnotations DEF GetAnnotationView
  <2>13. CASE \E s \in SofasOfAnnotations \ {NotCreated} : \E v \in Numbers : FollowReference(v, s)
    BY <2>0, <2>13, OpenViewOfKeepsAnnotations DEF FollowReference, ViewFor
  <2>14. CASE Reset
    <3>1. SofasOfAnnotations' \subseteq {NotCreated} /\ ~undefined'
      BY <2>0, <2>14 DEF Reset, EmptyViews, SofasOfAnnotations
    <3>2. \A n \in Numbers : docSofa'[n] = NotCreated
      BY <2>14 DEF Reset, EmptyViews
    <3>3. QED
      BY <3>1, <3>2 DEF AnnotationsHaveTheirSofa, NotCreated, NullSofa
  <2>15. CASE Deserialize
    <3>1. PICK initial \in BOOLEAN, last \in Numbers :
            \E others \in [2 .. last -> Names \ {InitialName}], text \in [1 .. last -> AnyText] :
                DeserializeXmi(initial, last, others, text)
      BY <2>15 DEF Deserialize
    <3>2. PICK others \in [2 .. last -> Names \ {InitialName}], text \in [1 .. last -> AnyText] :
            DeserializeXmi(initial, last, others, text)
      BY <3>1
    <3>3. SofasStay /\ UNCHANGED <<annSofa, undefined>>
      BY <3>2 DEF DeserializeXmi, SofasStay
    <3>4. \A n \in 2 .. last : others[n] # NoName
      BY CasAssumption
    <3>5. \A n \in Numbers : \/ docSofa'[n] = docSofa[n]
                             \/ docSofa'[n] = n /\ sofaName'[n] # NoName
      BY <3>2, <3>4, CasAssumption DEF DeserializeXmi
    <3>6. QED
      BY <2>0, <3>3, <3>5, AnnotationsKeepTheirSofas DEF HasSofa
  <2>16. QED
    BY <1>2, <2>1, <2>2, <2>3, <2>4, <2>5, <2>6, <2>7, <2>8, <2>9, <2>10, <2>11, <2>12, <2>13,
       <2>14, <2>15 DEF Next
<1>3. QED
  BY <1>1, <1>2

-----------------------------------------------------------------------------
(* Invariance *)

LEMMA Consistent == Spec => [](TypeOK /\ CasInv)
<1>1. Init => TypeOK
  <2>1. 1 \in Numbers /\ NotCreated \in NotCreated .. MaxSofas
    BY CasAssumption DEF Numbers, NotCreated
  <2> SUFFICES ASSUME Init PROVE TypeOK
    OBVIOUS
  <2>2. /\ sofaName \in [Numbers -> Names \cup {NoName}] /\ sofaText \in [Numbers -> AnyText]
        /\ docText \in [Numbers -> AnyText] /\ docEnd \in [Numbers -> AnyText]
        /\ docSofa \in [Numbers -> NotCreated .. MaxSofas]
        /\ annSofa \in [Annotations -> NotCreated .. MaxSofas]
        /\ index \in [Numbers -> SUBSET Annotations]
    BY <2>1 DEF Init, AnyText
  <2>3. /\ sofaCount \in Numbers /\ views \subseteq Numbers /\ docIndexed \subseteq Numbers
        /\ component \in Components \cup {NoComponent}
        /\ initialSofaCreated \in BOOLEAN /\ undefined \in BOOLEAN
    BY <2>1 DEF Init
  <2>4. QED
    BY <2>2, <2>3 DEF TypeOK
<1>2. Init => CasInv
  <2> SUFFICES ASSUME Init PROVE CasInv
    OBVIOUS
  <2> USE CasAssumption DEF Init
  <2>1. SofaInv
    BY DEF SofaInv, SofasAreCounted, OthersNamedOnce, HasSofa, Numbers
  <2>2. ViewInv
    BY DEF ViewInv, ViewsShowTheirSofas, EmptyUntilItsSofa, DocumentAnnotationFits
  <2>3. AnnotationsHaveTheirSofa
    BY DEF AnnotationsHaveTheirSofa, SofasOfAnnotations, NullSofa, NotCreated
  <2>4. QED
    BY <2>1, <2>2, <2>3 DEF CasInv
<1>3. TypeOK /\ CasInv /\ [Next]_vars => TypeOK' /\ CasInv'
  BY TypeStep, SofaStep, ViewStep, AnnotationStep DEF CasInv
<1>4. QED
  BY <1>1, <1>2, <1>3, PTL DEF Spec

(* The variables of a CAS keep their types; iv_sofaCount stays in its bound. *)
THEOREM TypeCorrect == Spec => []TypeOK
BY Consistent, PTL

(* createSofa(), createInitialSofa(), getView() and reset() number the sofas without a gap. *)
THEOREM SofasCounted == Spec => []SofasAreCounted
<1>1. CasInv => SofasAreCounted
  BY DEF CasInv, SofaInv
<1>2. QED
  BY <1>1, Consistent, PTL

(* The text of a sofa is copied to its view by whatever sets it. *)
THEOREM ViewsShowSofas == Spec => []ViewsShowTheirSofas
<1>1. CasInv => ViewsShowTheirSofas
  BY DEF CasInv, ViewInv
<1>2. QED
  BY <1>1, Consistent, PTL

(* reset() leaves nothing in a view that the next sofa of its number could find. *)
THEOREM ViewsWaitEmpty == Spec => []EmptyUntilItsSofa
<1>1. CasInv => EmptyUntilItsSofa
  BY DEF CasInv, ViewInv
<1>2. QED
  BY <1>1, Consistent, PTL

(* updateDocumentAnnotation() keeps the document annotation as long as the text. *)
THEOREM DocumentAnnotationsFit == Spec => []DocumentAnnotationFits
<1>1. CasInv => DocumentAnnotationFits
  BY DEF CasInv, ViewInv
<1>2. QED
  BY <1>1, Consistent, PTL

(* Annotations of the initial view from before its sofa are the only ones without a sofa. *)
THEOREM AnnotationsOnSofas == Spec => []AnnotationsHaveTheirSofa
<1>1. CasInv => AnnotationsHaveTheirSofa
  BY DEF CasInv
<1>2. QED
  BY <1>1, Consistent, PTL

(* Numbers, texts, document annotations and references agree in every view, for any number of *)
(* sofas and whatever was reset, loaded or looked up before.                                  *)
THEOREM ViewsAreKept == Spec => []ViewsKeepToTheirSofas
<1>1. SofasAreCounted /\ ViewsShowTheirSofas /\ EmptyUntilItsSofa /\ DocumentAnnotationFits
        /\ AnnotationsHaveTheirSofa => ViewsKeepToTheirSofas
  BY DEF ViewsKeepToTheirSofas
<1>2. QED
  BY <1>1, SofasCounted, ViewsShowSofas, ViewsWaitEmpty, DocumentAnnotationsFit, AnnotationsOnSofas, PTL

(* getCasForTyFS() finds the view with the text that the annotation is about. *)
THEOREM CoveredTextOfSofa == Spec => []CoveredTextIsOfItsSofa
<1>1. TypeOK /\ CasInv => CoveredTextIsOfItsSofa
  <2> SUFFICES ASSUME TypeOK, CasInv, NEW v \in Numbers,
                      NEW s \in SofasOfAnnotations \ {NotCreated, NullSofa}, sofaText[s] # NoText
               PROVE  Shown(ViewFor(v, s)) = sofaText[s]
    BY DEF CoveredTextIsOfItsSofa
  <2>1. s \in Numbers
    BY AnnotationsLeadToSofas DEF CasInv
  <2>2. ViewFor(v, s) = s
    BY DEF ViewFor, OwnSofa
  <2>3. QED
    BY <2>1, <2>2 DEF Shown, CasInv, ViewInv, ViewsShowTheirSofas
<1>2. QED
  BY <1>1, Consistent, PTL

-----------------------------------------------------------------------------
(* The directory *)

\* The sofa of number n is found by its name.
Listed(n) == HasSofa(n) /\ (n = 1 \/ sofaName[n] # InitialName)

\* Content, entry by entry.
ContentIsListed ==
    /\ Content = [name \in Names |-> Content[name]]
    /\ \A n \in Numbers : Listed(n) => Content[sofaName[n]] = Shown(n)
    /\ \A name \in Names : (\A n \in Numbers : Listed(n) => sofaName[n] # name) => Content[name] = NoName

LEMMA ContentListed == TypeOK /\ SofaInv => ContentIsListed
<1> SUFFICES ASSUME TypeOK, SofaInv PROVE ContentIsListed
  OBVIOUS
<1>1. Content = [name \in Names |-> Content[name]]
  BY DEF Content
<1>2. ASSUME NEW n \in Numbers, Listed(n)
      PROVE  Content[sofaName[n]] = Shown(n)
  <2>1. sofaName[n] \in Names
    BY <1>2 DEF Listed, HasSofa, TypeOK
  <2>2. CASE n = 1
    BY <1>2, <2>1, <2>2 DEF Listed, SofaInv, SofasAreCounted, Content
  <2>3. CASE n # 1
    BY <1>2, <2>1, <2>3, FirstNamedIsTheNamed DEF Listed, SofaInv, Content
  <2>4. QED
    BY <2>2, <2>3
<1>3. ASSUME NEW name \in Names, \A n \in Numbers : Listed(n) => sofaName[n] # name
      PROVE  Content[name] = NoName
  <2>1. CASE name = InitialName
    BY <1>3, <2>1, CasAssumption DEF Listed, SofaInv, SofasAreCounted, Content, Numbers
  <2>2. CASE name # InitialName
    <3>1. Named(name) = {}
      BY <1>3, <2>2, CasAssumption DEF Named, Listed, HasSofa
    <3>2. QED
      BY <2>2, <3>1 DEF Content
  <2>3. QED
    BY <2>1, <2>2
<1>4. QED
  BY <1>1, <1>2, <1>3 DEF ContentIsListed

LEMMA ContentListedNext == (TypeOK /\ SofaInv => ContentIsListed)'
BY ContentListed, PTL

\* What a step may do to the entry of the sofa of number n and leave the directory alone.
EntryStays(n) ==
    /\ Listed(n)' <=> Listed(n)
    /\ Listed(n) => sofaName'[n] = sofaName[n] /\ Shown(n)' = Shown(n)

LEMMA NoEntryChanges ==
    ASSUME TypeOK, SofaInv, TypeOK', SofaInv', \A n \in Numbers : EntryStays(n)
    PROVE  Content' = Content
<1>1. ContentIsListed /\ ContentIsListed'
  BY ContentListed, ContentListedNext
<1>2. ASSUME NEW name \in Names
      PROVE  Content'[name] = Content[name]
  <2>1. CASE \E n \in Numbers : Listed(n) /\ sofaName[n] = name
    BY <1>1, <2>1 DEF ContentIsListed, EntryStays
  <2>2. CASE \A n \in Numbers : Listed(n) => sofaName[n] # name
    BY <1>1, <2>2 DEF ContentIsListed, EntryStays
  <2>3. QED
    BY <2>1, <2>2
<1>3. QED
  BY <1>1, <1>2 DEF ContentIsListed

LEMMA OneEntryChanges ==
    ASSUME TypeOK, SofaInv, TypeOK', SofaInv', NEW n \in Numbers, NEW name \in Names,
           \A m \in Numbers \ {n} : EntryStays(m),
           Listed(n)', sofaName'[n] = name, Listed(n) => sofaName[n] = name
    PROVE  /\ Content' = [Content EXCEPT ![name] = Shown(n)']
           /\ Content[name] = IF Listed(n) THEN Shown(n) ELSE NoName
<1>1. ContentIsListed /\ ContentIsListed'
  BY ContentListed, ContentListedNext
<1>2. \A m \in Numbers \ {n} : Listed(m) => sofaName[m] # name
  <2> SUFFICES ASSUME NEW m \in Numbers \ {n}, Listed(m) PROVE sofaName[m] # name
    OBVIOUS
  <2>1. Listed(m)' /\ sofaName'[m] = sofaName[m]
    BY DEF EntryStays
  <2>2. QED
    BY <2>1 DEF Listed, HasSofa, SofaInv, OthersNamedOnce, SofasAreCounted
<1>3. Content'[name] = Shown(n)'
  BY <1>1 DEF ContentIsListed
<1>4. ASSUME NEW other \in Names \ {name}
      PROVE  Content'[other] = Content[other]
  <2>1. CASE \E m \in Numbers : Listed(m) /\ sofaName[m] = other
    BY <1>1, <2>1 DEF ContentIsListed, EntryStays
  <2>2. CASE \A m \in Numbers : Listed(m) => sofaName[m] # other
    BY <1>1, <2>2 DEF ContentIsListed, EntryStays
  <2>3. QED
    BY <2>1, <2>2
<1>5. Content' = [Content EXCEPT ![name] = Shown(n)']
  BY <1>1, <1>3, <1>4 DEF ContentIsListed
<1>6. Content[name] = IF Listed(n) THEN Shown(n) ELSE NoName
  BY <1>1, <1>2 DEF ContentIsListed
<1>7. QED
  BY <1>5, <1>6

-----------------------------------------------------------------------------
(* Refinement *)

(* A new sofa is an entry with no text, unless it is one more of InitialName. *)
LEMMA NewSofaCreates ==
    ASSUME TypeOK, CasInv, TypeOK', SofaInv', NEW name \in Names, NewSofa(name), UNCHANGED sofaText,
           NEW n \in Numbers, n = sofaCount + 1,
           \/ UNCHANGED <<views, docText>>
           \/ OpenView(n, NoText)
    PROVE  [Directory!Next]_Content
<1>1. /\ n # 1 /\ ~HasSofa(n) /\ sofaName' = [sofaName EXCEPT ![n] = name]
  BY NewSofaIsAdded DEF CasInv, SofaInv
<1>2. sofaText[n] = NoText /\ docText[n] = NoText
  BY <1>1 DEF CasInv, ViewInv, EmptyUntilItsSofa
<1>3. \A m \in Numbers \ {n} : EntryStays(m)
  BY <1>1 DEF EntryStays, Listed, HasSofa, Shown, OpenView, TypeOK
<1>4. CASE name = InitialName
  <2>1. EntryStays(n)
    BY <1>1, <1>4 DEF EntryStays, Listed, HasSofa, TypeOK
  <2>2. QED
    BY <1>3, <2>1, NoEntryChanges DEF CasInv
<1>5. CASE name # InitialName
  <2>1. Listed(n)' /\ ~Listed(n) /\ sofaName'[n] = name
    BY <1>1, <1>5, CasAssumption DEF Listed, HasSofa, TypeOK
  <2>2. Shown(n)' = NoText
    BY <1>2 DEF Shown, OpenView, TypeOK
  <2>3. Content' = [Content EXCEPT ![name] = NoText] /\ Content[name] = NoName
    BY <1>3, <2>1, <2>2, OneEntryChanges DEF CasInv
  <2>4. QED
    BY <2>3 DEF Directory!Next, Directory!Create
<1>6. QED
  BY <1>4, <1>5

(* Opening the view of a sofa shows the text the sofa has. *)
LEMMA OpenViewKeepsContent ==
    ASSUME TypeOK, CasInv, TypeOK', SofaInv', NEW n \in Numbers, OpenView(n, sofaText[n]),
           UNCHANGED <<sofaName, sofaText>>
    PROVE  Content' = Content
<1>1. \A m \in Numbers : EntryStays(m)
  BY DEF EntryStays, Listed, HasSofa, Shown, OpenView, TypeOK
<1>2. QED
  BY <1>1, NoEntryChanges DEF CasInv

LEMMA OpenViewOfKeepsContent ==
    ASSUME TypeOK, CasInv, TypeOK', SofaInv', UNCHANGED sofaVars,
           NEW s \in SofasOfAnnotations \ {NotCreated}, OpenViewOf(s)
    PROVE  Content' = Content
<1>1. CASE s = NullSofa
  <2>1. UNCHANGED <<sofaName, sofaText, views, docText>>
    BY <1>1 DEF OpenViewOf, docVars, sofaVars
  <2>2. \A m \in Numbers : EntryStays(m)
    BY <2>1 DEF EntryStays, Listed, HasSofa, Shown
  <2>3. QED
    BY <2>2, NoEntryChanges DEF CasInv
<1>2. CASE s # NullSofa
  <2>1. s \in Numbers
    BY <1>2, AnnotationsLeadToSofas DEF CasInv
  <2>2. OpenView(s, sofaText[s]) /\ UNCHANGED <<sofaName, sofaText>>
    BY <1>2 DEF OpenViewOf, sofaVars
  <2>3. QED
    BY <2>1, <2>2, OpenViewKeepsContent
<1>3. QED
  BY <1>1, <1>2

(* Setting the text of a sofa writes its entry, if it is listed, and no other. *)
LEMMA SetTextWrites ==
    ASSUME TypeOK, CasInv, TypeOK', SofaInv', NEW n \in Numbers, HasSofa(n)',
           \A m \in Numbers : HasSofa(m) => sofaName'[m] = sofaName[m],
           \A m \in Numbers \ {n} : ~HasSofa(m) => ~HasSofa(m)',
           ~HasSofa(n) => n = 1,
           \A m \in Numbers \ {n} : sofaText'[m] = sofaText[m] /\ docText'[m] = docText[m],
           views' = views \cup {n}
    PROVE  [Directory!Next]_Content
<1>1. \A m \in Numbers \ {n} : EntryStays(m)
  BY DEF EntryStays, Listed, HasSofa, Shown
<1>2. CASE ~Listed(n)'
  <2>1. EntryStays(n)
    BY <1>2 DEF EntryStays, Listed, HasSofa
  <2>2. QED
    BY <1>1, <2>1, NoEntryChanges DEF CasInv
<1>3. CASE Listed(n)'
  <2>1. PICK name \in Names : name = sofaName'[n]
    BY DEF HasSofa, TypeOK
  <2>2. Listed(n) => sofaName[n] = name
    BY <2>1 DEF Listed
  <2>3. Content' = [Content EXCEPT ![name] = Shown(n)'] /\ Content[name] = IF Listed(n) THEN Shown(n) ELSE NoName
    BY <1>1, <1>3, <2>1, <2>2, OneEntryChanges DEF CasInv
  <2>4. Content = [x \in Names |-> Content[x]]
    BY DEF Content
  <2>5. Content'[name] = Shown(n)'
    BY <2>3, <2>4
  <2>6. Shown(n)' \in Texts \cup {NoText}
    BY DEF Shown, TypeOK, AnyText
  <2>7. Content[name] # NoName \/ name = InitialName
    <3>1. CASE Listed(n)
      BY <2>3, <3>1, CasAssumption DEF Shown, TypeOK, AnyText
    <3>2. CASE ~Listed(n)
      BY <1>3, <2>1, <3>2 DEF Listed, HasSofa, SofaInv, SofasAreCounted
    <3>3. QED
      BY <3>1, <3>2
  <2>8. Directory!Write(name)
    BY <2>3, <2>5, <2>6, <2>7 DEF Directory!Write
  <2>9. QED
    BY <2>8 DEF Directory!Next
<1>4. QED
  BY <1>2, <1>3

LEMMA EnsuresOwnSofaOnly ==
    ASSUME TypeOK, CasInv, NEW v \in Numbers, Usable(v), EnsureSofa(v)
    PROVE  /\ \A m \in Numbers : HasSofa(m) => sofaName'[m] = sofaName[m]
           /\ \A m \in Numbers \ {v} : ~HasSofa(m) => ~HasSofa(m)'
           /\ HasSofa(v)' /\ (~HasSofa(v) => v = 1)
<1>1. HasSofa(v) => UNCHANGED sofaName
  BY DEF EnsureSofa
<1>2. ~HasSofa(v) => v = 1
  BY DEF Usable
<1>3. QED
  BY <1>1, <1>2, EnsureSofaEnsures DEF CasInv, HasSofa

LEMMA DirectoryStep ==
    ASSUME TypeOK, CasInv, TypeOK', SofaInv', [Next]_vars
    PROVE  [Directory!Next]_Content
<1> USE DEF sofaVars, docVars
<1>1. CASE \E name \in Names : CreateSofa(name)
  <2>1. PICK name \in Names : CreateSofa(name)
    BY <1>1
  <2>2. sofaCount + 1 \in Numbers
    BY <2>1, NewSofaIsAdded DEF CreateSofa, CasInv, SofaInv
  <2>3. QED
    BY <2>1, <2>2, NewSofaCreates DEF CreateSofa, NewSofa
<1>2. CASE \E local \in Names : CreateView(local)
  <2>1. PICK local \in Names : CreateView(local)
    BY <1>2
  <2>2. SofaId[component][local] \in Names
    BY CasAssumption DEF TypeOK
  <2>3. sofaCount + 1 \in Numbers
    BY <2>1, <2>2, NewSofaIsAdded DEF CreateView, CasInv, SofaInv
  <2>4. QED
    BY <2>1, <2>2, <2>3, NewSofaCreates DEF CreateView, NewSofa
<1>3. CASE \E local \in Names : GetView(local)
  <2>1. PICK local \in Names : GetView(local)
    BY <1>3
  <2>2. SofaId[component][local] \in Names
    BY CasAssumption DEF TypeOK
  <2>3. FirstNamed(SofaId[component][local]) \in Numbers
    BY <2>1, <2>2, NamedHasSofa DEF GetView, CasInv, SofaInv
  <2>4. QED
    BY <2>1, <2>3, OpenViewKeepsContent DEF GetView
<1>4. CASE \E n \in Numbers : GetViewOfSofa(n)
  BY <1>4, OpenViewKeepsContent DEF GetViewOfSofa
<1>5. CASE UNCHANGED <<sofaName, sofaText, views, docText>>
  <2>1. \A m \in Numbers : EntryStays(m)
    BY <1>5 DEF EntryStays, Listed, HasSofa, Shown
  <2>2. QED
    BY <2>1, NoEntryChanges DEF CasInv
<1>6. CASE \E v \in Numbers, t \in AnyText : SetDocumentText(v, t)
  <2>1. PICK v \in Numbers, t \in AnyText : SetDocumentText(v, t)
    BY <1>6
  <2>2. /\ \A m \in Numbers : HasSofa(m) => sofaName'[m] = sofaName[m]
        /\ \A m \in Numbers \ {v} : ~HasSofa(m) => ~HasSofa(m)'
        /\ HasSofa(v)' /\ (~HasSofa(v) => v = 1)
    BY <2>1, EnsuresOwnSofaOnly DEF SetDocumentText
  <2>3. \A m \in Numbers \ {v} : sofaText'[m] = sofaText[m] /\ docText'[m] = docText[m]
    BY <2>1 DEF SetDocumentText, UpdateDocument, TypeOK
  <2>4. views' = views \cup {v}
    BY <2>1 DEF SetDocumentText, Usable
  <2>5. QED
    BY <2>2, <2>3, <2>4, SetTextWrites
<1>7. CASE \E n \in Numbers, t \in AnyText : SetLocalSofaData(n, t)
  <2>1. PICK n \in Numbers, t \in AnyText : SetLocalSofaData(n, t)
    BY <1>7
  <2>2. /\ \A m \in Numbers : HasSofa(m) => sofaName'[m] = sofaName[m]
        /\ \A m \in Numbers \ {n} : ~HasSofa(m) => ~HasSofa(m)'
        /\ HasSofa(n)' /\ (~HasSofa(n) => n = 1)
    BY <2>1 DEF SetLocalSofaData, HasSofa
  <2>3. views' = views \cup {n}
    BY <2>1 DEF SetLocalSofaData, UpdateView, OpenView
  <2>4. \A m \in Numbers \ {n} : sofaText'[m] = sofaText[m] /\ docText'[m] = docText[m]
    BY <2>1 DEF SetLocalSofaData, UpdateView, OpenView, UpdateDocument, TypeOK
  <2>5. QED
    BY <2>2, <2>3, <2>4, SetTextWrites
<1>8. CASE \E v \in Numbers, t \in AnyText, copy \in BOOLEAN : SetDocumentTextOld(v, t, copy)
  <2>1. PICK v \in Numbers, t \in AnyText, copy \in BOOLEAN : SetDocumentTextOld(v, t, copy)
    BY <1>8
  <2>2. /\ \A m \in Numbers : HasSofa(m) => sofaName'[m] = sofaName[m]
        /\ \A m \in Numbers \ {v} : ~HasSofa(m) => ~HasSofa(m)'
        /\ HasSofa(v)' /\ (~HasSofa(v) => v = 1)
    BY <2>1, EnsuresOwnSofaOnly DEF SetDocumentTextOld
  <2>3. \A m \in Numbers \ {v} : sofaText'[m] = sofaText[m] /\ docText'[m] = docText[m]
    BY <2>1 DEF SetDocumentTextOld, UpdateDocument, TypeOK
  <2>4. views' = views \cup {v}
    BY <2>1 DEF SetDocumentTextOld, Usable
  <2>5. QED
    BY <2>2, <2>3, <2>4, SetTextWrites
<1>9. CASE \E s \in SofasOfAnnotations \ {NotCreated} : GetAnnotationView(s)
  BY <1>9, OpenViewOfKeepsContent DEF GetAnnotationView
<1>10. CASE \E s \in SofasOfAnnotations \ {NotCreated} : \E v \in Numbers : FollowReference(v, s)
  BY <1>10, OpenViewOfKeepsContent DEF FollowReference, ViewFor
<1>11. CASE Reset
  <2>1. \A n \in Numbers : ~Listed(n)'
    BY <1>11 DEF Reset, Listed, HasSofa
  <2>2. ContentIsListed'
    BY ContentListedNext
  <2>3. Content' = [name \in Names |-> NoName]
    BY <2>1, <2>2 DEF ContentIsListed
  <2>4. QED
    BY <2>3 DEF Directory!Next, Directory!Clear
<1>12. CASE Deserialize
  <2>1. \A n \in Numbers : ~Listed(n)
    BY <1>12 DEF Deserialize, DeserializeXmi, Listed
  <2>2. ContentIsListed /\ ContentIsListed'
    BY ContentListed, ContentListedNext DEF CasInv
  <2>3. \A name \in Names : Content[name] = NoName
    BY <2>1, <2>2 DEF ContentIsListed
  <2>4. ASSUME NEW name \in Names
        PROVE  Content'[name] \in Texts \cup {NoText, NoName}
    <3>1. \A n \in Numbers : Shown(n)' \in Texts \cup {NoText}
      BY DEF Shown, TypeOK, AnyText
    <3>2. QED
      BY <2>2, <3>1 DEF ContentIsListed
  <2>5. Content' \in [Names -> Texts \cup {NoText, NoName}]
    BY <2>2, <2>4 DEF ContentIsListed
  <2>6. QED
    BY <2>3, <2>5 DEF Directory!Next, Directory!Fill
<1>13. QED
  BY <1>1, <1>2, <1>3, <1>4, <1>5, <1>6, <1>7, <1>8, <1>9, <1>10, <1>11, <1>12
  DEF Next, vars, GetDocumentAnnotation, SetCurrentComponentInfo, CreateAnnotation, AddFS

(* A CAS is a directory from sofa names to documents: only setting the text of  *)
(* a sofa writes its document, only reset() takes documents away, and looking   *)
(* views up, annotating and following references leave every document alone.    *)
THEOREM DirectoryIsKept == Spec => KeepsDirectory
<1>1. Init => Directory!Init
  BY CasAssumption DEF Init, Directory!Init, Content, HasSofa, Named, Numbers
<1>2. QED
  BY <1>1, DirectoryStep, Consistent, PTL DEF Spec, KeepsDirectory, Directory!Spec, CasInv

-----------------------------------------------------------------------------
(* Orders and recursions over the first numbers *)

\* Some number of a set of them is the least.
LEMMA LeastExists ==
    ASSUME NEW T \in SUBSET Nat, T # {}
    PROVE  \E x \in T : \A y \in T : x <= y
<1>1. PICK x \in T : \A y \in T : ~(<<y, x>> \in OpToRel(<, Nat))
    BY WFMin, NatLessThanWellFounded
<1>2. \A y \in T : ~(y < x)
    <2>1. TAKE y \in T
    <2>2. <<y, x>> \in Nat \X Nat
        OBVIOUS
    <2> QED  BY <1>1, <2>2 DEF OpToRel
<1> QED  BY <1>2

\* What holds of 0 and goes from each number to the next holds of all up to a bound.
LEMMA UpTo ==
    ASSUME NEW n \in Nat, NEW P, 0 \in P, \A i \in 1 .. n : i - 1 \in P => i \in P
    PROVE  \A i \in 0 .. n : i \in P
<1> DEFINE bad == {i \in 0 .. n : i \notin P}
<1>1. bad = {}
    <2> SUFFICES ASSUME bad # {} PROVE FALSE
        OBVIOUS
    <2>1. PICK i \in bad : \A j \in bad : i <= j
        <3>1. bad \in SUBSET Nat
            OBVIOUS
        <3> HIDE DEF bad
        <3> QED  BY <3>1, LeastExists
    <2>2. i \in 1 .. n
        BY <2>1
    <2>3. i - 1 \in P
        BY <2>1, <2>2
    <2> QED  BY <2>1, <2>2, <2>3
<1> QED  BY <1>1

\* A set of numbers up to a bound has a greatest.
LEMMA GreatestExists ==
    ASSUME NEW n \in Nat, NEW T \in SUBSET (0 .. n), T # {}
    PROVE  \E x \in T : \A y \in T : y <= x
<1> DEFINE above == {x \in 0 .. n : \A y \in T : y <= x}
<1>1. above \in SUBSET Nat /\ n \in above
    OBVIOUS
<1>2. PICK x \in above : \A y \in above : x <= y
    <2> HIDE DEF above
    <2> QED  BY <1>1, LeastExists
<1>3. x \in T
    <2> SUFFICES ASSUME x \notin T PROVE FALSE
        OBVIOUS
    <2>1. \A y \in T : y <= x - 1
        BY <1>2
    <2>2. x - 1 \in 0 .. n
        <3>1. PICK y \in T : y <= x - 1
            BY <2>1
        <3>2. y \in Nat /\ x \in 0 .. n
            BY <1>2
        <3> QED  BY <3>1, <3>2
    <2>3. x - 1 \in above
        BY <2>1, <2>2
    <2>4. x \in Nat /\ x <= x - 1
        BY <2>3, <1>2
    <2> QED  BY <2>4
<1> QED  BY <1>2, <1>3

\* f is defined from one number to the next: first for 0, and for i what step[i] makes of its
\* value before.
Follows(f, n, first, step) == f = [i \in 0 .. n |-> IF i = 0 THEN first ELSE step[i][f[i - 1]]]

\* There is such a function, when good[i] is what the value of i may be, and step[i] takes a good
\* value of the number before to a good one of i.
LEMMA RecursionExists ==
    ASSUME NEW n \in Nat, NEW good, NEW step, NEW first \in good[0],
           \A i \in 1 .. n : \A x \in good[i - 1] : step[i][x] \in good[i]
    PROVE  \E f : Follows(f, n, first, step) /\ \A i \in 0 .. n : f[i] \in good[i]
<1> DEFINE is(f, k) ==
               /\ f = [i \in 0 .. k |-> IF i = 0 THEN first ELSE step[i][f[i - 1]]]
               /\ \A i \in 0 .. k : f[i] \in good[i]
           P == {k \in 0 .. n : \E f : is(f, k)}
<1>1. 0 \in P
    <2> DEFINE f == [i \in 0 .. 0 |-> first]
    <2>1. f = [i \in 0 .. 0 |-> IF i = 0 THEN first ELSE step[i][f[i - 1]]]
        OBVIOUS
    <2>2. \A i \in 0 .. 0 : f[i] \in good[i]
        OBVIOUS
    <2>3. is(f, 0)
        BY <2>1, <2>2
    <2> HIDE DEF is
    <2> QED  BY <2>3
<1>2. ASSUME NEW k \in 1 .. n, k - 1 \in P PROVE k \in P
    <2>1. PICK f : is(f, k - 1)
        BY <1>2
    <2> DEFINE g == [i \in 0 .. k |-> IF i = k THEN step[k][f[k - 1]] ELSE f[i]]
    <2>2. \A i \in 0 .. k - 1 : g[i] = f[i]
        OBVIOUS
    <2>3. \A i \in 1 .. k - 1 : f[i] = step[i][f[i - 1]]
        BY <2>1
    <2>4. f[0] = first
        BY <2>1
    <2>5. \A i \in 0 .. k : g[i] = IF i = 0 THEN first ELSE step[i][g[i - 1]]
        <3>1. ASSUME NEW i \in 0 .. k, i = k PROVE g[i] = step[i][g[i - 1]]
            BY <2>2, <3>1
        <3>2. ASSUME NEW i \in 1 .. k - 1 PROVE g[i] = step[i][g[i - 1]]
            BY <2>2, <2>3
        <3>3. g[0] = first
            BY <2>4, <2>2
        <3> HIDE DEF g
        <3> QED  BY <3>1, <3>2, <3>3
    <2>6. g = [i \in 0 .. k |-> IF i = 0 THEN first ELSE step[i][g[i - 1]]]
        <3>1. g = [i \in 0 .. k |-> g[i]]
            OBVIOUS
        <3> HIDE DEF g
        <3> QED  BY <3>1, <2>5
    <2>7. \A i \in 0 .. k : g[i] \in good[i]
        <3>1. f[k - 1] \in good[k - 1]
            BY <2>1
        <3>2. g[k] \in good[k]
            BY <3>1
        <3>3. \A i \in 0 .. k - 1 : g[i] \in good[i]
            BY <2>1, <2>2
        <3> HIDE DEF g
        <3> QED  BY <3>2, <3>3
    <2>8. is(g, k)
        BY <2>6, <2>7
    <2> HIDE DEF g, is
    <2> QED  BY <2>8
<1>3. n \in P
    <2> HIDE DEF P
    <2> QED  BY <1>1, <1>2, UpTo
<1>4. PICK f : is(f, n)
    BY <1>3
<1>5. Follows(f, n, first, step)
    BY <1>4 DEF Follows
<1> QED  BY <1>4, <1>5

StrictOrder(R, n) ==
    /\ \A i \in 1 .. n : <<i, i>> \notin R
    /\ \A a, b, c \in 1 .. n : <<a, b>> \in R /\ <<b, c>> \in R => <<a, c>> \in R

\* Among the last of a list of numbers is one that none of them is before.
LEMMA MinimalExists ==
    ASSUME NEW n \in Nat, NEW k \in 1 .. n, NEW p \in [1 .. n -> 1 .. n],
           NEW R, StrictOrder(R, n)
    PROVE  \E m \in k .. n : \A j \in k .. n : <<p[j], p[m]>> \notin R
<1> DEFINE P == {l \in 0 .. n - k : \E m \in k .. k + l : \A j \in k .. k + l : <<p[j], p[m]>> \notin R}
<1>1. 0 \in P
    <2>1. \A j \in k .. k + 0 : j = k /\ <<p[j], p[k]>> \notin R
        BY DEF StrictOrder
    <2> QED  BY <2>1
<1>2. ASSUME NEW l \in 1 .. n - k, l - 1 \in P PROVE l \in P
    <2>1. PICK m \in k .. k + (l - 1) : \A j \in k .. k + (l - 1) : <<p[j], p[m]>> \notin R
        BY <1>2
    <2>4. k + l \in 1 .. n /\ \A j \in k .. k + l : j \in 1 .. n /\ p[j] \in 1 .. n
        OBVIOUS
    <2>5. \A j \in k .. k + l : j = k + l \/ j \in k .. k + (l - 1)
        OBVIOUS
    <2>2. ASSUME <<p[k + l], p[m]>> \in R
          PROVE  \E a \in k .. k + l : \A j \in k .. k + l : <<p[j], p[a]>> \notin R
        <3>1. ASSUME NEW j \in k .. k + (l - 1) PROVE <<p[j], p[k + l]>> \notin R
            <4>1. p[j] \in 1 .. n /\ p[k + l] \in 1 .. n /\ p[m] \in 1 .. n
                BY <2>4
            <4>2. <<p[j], p[m]>> \notin R
                BY <2>1
            <4> QED  BY <4>1, <4>2, <2>2 DEF StrictOrder
        <3>2. \A j \in k .. k + l : <<p[j], p[k + l]>> \notin R
            BY <3>1, <2>4, <2>5 DEF StrictOrder
        <3>3. k + l \in k .. k + l
            OBVIOUS
        <3> QED  BY <3>2, <3>3
    <2>3. ASSUME <<p[k + l], p[m]>> \notin R
          PROVE  \E a \in k .. k + l : \A j \in k .. k + l : <<p[j], p[a]>> \notin R
        <3>1. \A j \in k .. k + l : <<p[j], p[m]>> \notin R
            BY <2>1, <2>3, <2>5
        <3>2. m \in k .. k + l
            OBVIOUS
        <3> QED  BY <3>1, <3>2
    <2> QED
        <3>1. \E a \in k .. k + l : \A j \in k .. k + l : <<p[j], p[a]>> \notin R
            BY <2>2, <2>3
        <3>2. l \in 0 .. n - k
            OBVIOUS
        <3> QED  BY <3>1, <3>2
<1>3. n - k \in P
    <2>1. n - k \in Nat
        OBVIOUS
    <2>2. \A i \in 0 .. n - k : i \in P
        <3> HIDE DEF P
        <3> QED  BY <2>1, <1>1, <1>2, UpTo
    <2> HIDE DEF P
    <2> QED  BY <2>1, <2>2
<1>4. k + (n - k) = n
    OBVIOUS
<1> QED  BY <1>3, <1>4

\* Two changed places are a permutation still.
LEMMA SwapIsBijection ==
    ASSUME NEW n \in Nat, NEW p \in Bijection(1 .. n, 1 .. n), NEW k \in 1 .. n, NEW m \in 1 .. n
    PROVE  [p EXCEPT ![k] = p[m], ![m] = p[k]] \in Bijection(1 .. n, 1 .. n)
<1> DEFINE q == [p EXCEPT ![k] = p[m], ![m] = p[k]]
<1>1. p \in [1 .. n -> 1 .. n] /\ q \in [1 .. n -> 1 .. n]
    BY DEF Bijection, Injection
<1>2. \A a, b \in 1 .. n : p[a] = p[b] => a = b
    BY <1>1 DEF Bijection, Injection, IsInjective
<1>3. \A a \in 1 .. n : q[a] = IF a = m THEN p[k] ELSE IF a = k THEN p[m] ELSE p[a]
    BY <1>1
<1>4. IsInjective(q)
    <2>1. \A a, b \in 1 .. n : q[a] = q[b] => a = b
        <3> HIDE DEF q
        <3> QED  BY <1>2, <1>3
    <2>2. DOMAIN q = 1 .. n
        BY <1>1
    <2> HIDE DEF q
    <2> QED  BY <2>1, <2>2 DEF IsInjective
<1>5. \A t \in 1 .. n : \E s \in 1 .. n : q[s] = t
    <2> TAKE t \in 1 .. n
    <2>1. PICK s \in 1 .. n : p[s] = t
        BY DEF Bijection, Surjection
    <2> QED  BY <2>1, <1>3
<1> QED  BY <1>1, <1>4, <1>5 DEF Bijection, Injection, Surjection

\* Whatever stands before whatever: there is an order with none before one in front of it.
LEMMA CanBeOrdered ==
    ASSUME NEW n \in Nat, NEW R, StrictOrder(R, n)
    PROVE  \E p \in Bijection(1 .. n, 1 .. n) :
              \A i, j \in 1 .. n : i < j => <<p[j], p[i]>> \notin R
<1> DEFINE upTo(p, k) == \A i \in 1 .. k : \A j \in 1 .. n : i < j => <<p[j], p[i]>> \notin R
           P == {k \in 0 .. n : \E p \in Bijection(1 .. n, 1 .. n) : upTo(p, k)}
<1>1. 0 \in P
    <2>1. [i \in 1 .. n |-> i] \in Bijection(1 .. n, 1 .. n)
        BY DEF Bijection, Injection, Surjection, IsInjective
    <2> QED  BY <2>1
<1>2. ASSUME NEW k \in 1 .. n, k - 1 \in P PROVE k \in P
    <2>1. PICK p \in Bijection(1 .. n, 1 .. n) : upTo(p, k - 1)
        BY <1>2
    <2>2. p \in [1 .. n -> 1 .. n]
        BY DEF Bijection, Injection
    <2>3. PICK m \in k .. n : \A j \in k .. n : <<p[j], p[m]>> \notin R
        BY <2>2, MinimalExists
    <2> DEFINE q == [p EXCEPT ![k] = p[m], ![m] = p[k]]
    <2>4. q \in Bijection(1 .. n, 1 .. n)
        BY SwapIsBijection
    <2>5. \A a \in 1 .. n : q[a] = IF a = m THEN p[k] ELSE IF a = k THEN p[m] ELSE p[a]
        BY <2>2
    <2> HIDE DEF q
    <2>6. ASSUME NEW i \in 1 .. k, NEW j \in 1 .. n, i < j PROVE <<q[j], q[i]>> \notin R
        <3>1. CASE i = k
            <4>1. q[i] = p[m]
                BY <2>5, <3>1
            <4>2. \E l \in k .. n : q[j] = p[l]
                BY <2>5, <3>1, <2>6
            <4> QED  BY <4>1, <4>2, <2>3
        <3>2. CASE i < k
            <4>1. q[i] = p[i]
                BY <2>5, <3>2
            <4>2. \E l \in i + 1 .. n : q[j] = p[l]
                BY <2>5, <3>2, <2>6
            <4> QED  BY <4>1, <4>2, <3>2, <2>1
        <3> QED  BY <3>1, <3>2
    <2> QED  BY <2>4, <2>6
<1>3. n \in P
    <2> HIDE DEF P
    <2> QED  BY <1>1, <1>2, UpTo
<1> QED  BY <1>3

-----------------------------------------------------------------------------
(* Merging *)

\* The comparator without equality puts what is of a lower rank first, and of the same rank the
\* lower address.
LEMMA ComesBefore ==
    ASSUME NEW a \in FS, NEW b \in FS
    PROVE  CompareWithoutEquality(a, b) > 0 <=> Key[a] < Key[b] \/ (Key[a] = Key[b] /\ a < b)
<1>1. Key[a] \in Int /\ Key[b] \in Int /\ a \in Nat /\ b \in Nat
    BY IteratorAssumption
<1> QED  BY <1>1 DEF CompareWithoutEquality, Compare

\* ComesBefore makes the order of the iterators strict: it is one that a sort can follow.
LEMMA BeforeIsStrict ==
    ASSUME NEW a \in FS, NEW b \in FS, NEW c \in FS
    PROVE  /\ ~(CompareWithoutEquality(a, a) > 0)
           /\ CompareWithoutEquality(a, b) > 0 /\ CompareWithoutEquality(b, c) > 0
                => CompareWithoutEquality(a, c) > 0
           /\ a = b \/ CompareWithoutEquality(a, b) > 0 \/ CompareWithoutEquality(b, a) > 0
<1>1. \A x \in FS : Key[x] \in Int /\ x \in Nat
    BY IteratorAssumption
<1> DEFINE before(x, y) == Key[x] < Key[y] \/ (Key[x] = Key[y] /\ x < y)
<1>2. ~before(a, a) /\ (before(a, b) /\ before(b, c) => before(a, c)) /\ (a = b \/ before(a, b) \/ before(b, a))
    BY <1>1
<1>3. \A x, y \in FS : CompareWithoutEquality(x, y) > 0 <=> before(x, y)
    BY ComesBefore
<1> HIDE DEF before
<1> QED  BY <1>2, <1>3

\* A function over the first numbers is a sequence of as many members.
LEMMA FunctionIsSequence ==
    ASSUME NEW S, NEW n \in Nat, NEW f \in [1 .. n -> S]
    PROVE  f \in Seq(S) /\ Len(f) = n /\ DOMAIN f = 1 .. n
OBVIOUS

\* A sequence without repetition has as many places as members.
LEMMA PlacesAreMembers ==
    ASSUME NEW S, NEW s \in Seq(S), IsInjective(s)
    PROVE  IsFiniteSet(ToSet(s)) /\ Cardinality(ToSet(s)) = Len(s)
<1>1. Len(s) \in Nat /\ DOMAIN s = 1 .. Len(s)
    OBVIOUS
<1>2. s \in Bijection(1 .. Len(s), ToSet(s))
    <2>1. s \in [1 .. Len(s) -> ToSet(s)]
        BY <1>1 DEF ToSet
    <2>2. \A x \in ToSet(s) : \E i \in 1 .. Len(s) : s[i] = x
        BY <1>1 DEF ToSet
    <2> QED  BY <2>1, <2>2 DEF Bijection, Injection, Surjection
<1>3. IsFiniteSet(1 .. Len(s)) /\ Cardinality(1 .. Len(s)) = Len(s)
    BY <1>1, FS_Interval
<1> QED  BY <1>2, <1>3, FS_Bijection DEF ExistsBijection

Rising(s) == \A a, b \in DOMAIN s : a < b => Key[s[a]] <= Key[s[b]]

\* Iterators over different structures; each in its order besides; all they have; and that the
\* iterators are sorted.
Distinct(its) ==
    /\ \A i \in DOMAIN its : IsInjective(its[i])
    /\ \A i, j \in DOMAIN its : i # j => \A x \in ToSet(its[i]) : x \notin ToSet(its[j])
Apart(its) == Distinct(its) /\ \A i \in DOMAIN its : Rising(its[i])
AllOf(its) == UNION {ToSet(its[i]) : i \in DOMAIN its}
Sorted(its) == \A i, j \in DOMAIN its : i < j => ~IteratorBefore(its[j], its[i])

\* The sort can be done, and moves the iterators only.
LEMMA InOrderSorts ==
    ASSUME NEW its \in Seq(Seq(FS)), Apart(its)
    PROVE  /\ InOrder(its) \in Seq(Seq(FS)) /\ Len(InOrder(its)) = Len(its)
           /\ Apart(InOrder(its)) /\ Sorted(InOrder(its))
           /\ AllOf(InOrder(its)) = AllOf(its)
<1> DEFINE n == Len(its)
           R == {ij \in (1 .. n) \X (1 .. n) : IteratorBefore(its[ij[1]], its[ij[2]])}
           order == CHOOSE p \in Orders(its) : TRUE
<1>1. n \in Nat /\ DOMAIN its = 1 .. n /\ \A i \in 1 .. n : its[i] \in Seq(FS)
    OBVIOUS
<1>2. \A i \in 1 .. n : its[i] # << >> => Head(its[i]) \in FS
    BY <1>1
<1>3. StrictOrder(R, n)
    <2>1. ASSUME NEW i \in 1 .. n PROVE <<i, i>> \notin R
        <3>1. ASSUME IteratorBefore(its[i], its[i]) PROVE FALSE
            BY <3>1, <1>2, BeforeIsStrict DEF IteratorBefore
        <3> QED  BY <3>1
    <2>2. ASSUME NEW a \in 1 .. n, NEW b \in 1 .. n, NEW c \in 1 .. n,
                 IteratorBefore(its[a], its[b]), IteratorBefore(its[b], its[c])
          PROVE  IteratorBefore(its[a], its[c])
        <3>1. its[a] # << >> /\ its[b] # << >>
            BY <2>2 DEF IteratorBefore
        <3>2. CASE its[c] = << >>
            BY <3>1, <3>2 DEF IteratorBefore
        <3>3. CASE its[c] # << >>
            <4> DEFINE x == Head(its[a])
                       y == Head(its[b])
                       z == Head(its[c])
            <4>1. x \in FS /\ y \in FS /\ z \in FS
                BY <3>1, <3>3, <1>2
            <4>2. CompareWithoutEquality(x, y) > 0 /\ CompareWithoutEquality(y, z) > 0
                BY <2>2, <3>1, <3>3 DEF IteratorBefore
            <4>4. CompareWithoutEquality(x, z) > 0
                <5> HIDE DEF x, y, z
                <5> QED  BY <4>1, <4>2, BeforeIsStrict
            <4> QED  BY <3>1, <4>4 DEF IteratorBefore
        <3> QED  BY <3>2, <3>3
    <2>3. \A a, b, c \in 1 .. n : <<a, b>> \in R /\ <<b, c>> \in R => <<a, c>> \in R
        BY <2>2
    <2> HIDE DEF R, n
    <2> QED  BY <2>1, <2>3 DEF StrictOrder
<1>4. \A i, j \in 1 .. n : <<i, j>> \in R <=> IteratorBefore(its[i], its[j])
    OBVIOUS
<1>5. PICK p \in Bijection(1 .. n, 1 .. n) : \A i, j \in 1 .. n : i < j => <<p[j], p[i]>> \notin R
    <2> HIDE DEF R, n
    <2> QED  BY <1>1, <1>3, CanBeOrdered
<1>6. p \in Orders(its)
    <2>1. p \in [1 .. n -> 1 .. n]
        BY <1>5 DEF Bijection, Injection
    <2>2. \A i, j \in 1 .. n : i < j => ~IteratorBefore(its[p[j]], its[p[i]])
        <3> HIDE DEF R, n
        <3> QED  BY <1>4, <1>5, <2>1
    <2> QED  BY <1>1, <1>5, <2>2 DEF Orders
<1>7. /\ order \in Bijection(1 .. n, 1 .. n)
      /\ \A i, j \in 1 .. n : i < j => ~IteratorBefore(its[order[j]], its[order[i]])
    <2>1. order \in Orders(its)
        BY <1>6
    <2> HIDE DEF order
    <2> QED  BY <2>1, <1>1 DEF Orders
<1>8. InOrder(its) = [i \in 1 .. n |-> its[order[i]]]
    BY <1>1 DEF InOrder
<1> HIDE DEF order, R
<1>9. /\ order \in [1 .. n -> 1 .. n]
      /\ \A i, j \in 1 .. n : order[i] = order[j] => i = j
      /\ \A j \in 1 .. n : \E i \in 1 .. n : order[i] = j
    <2>1. order \in [1 .. n -> 1 .. n]
        BY <1>7 DEF Bijection, Injection
    <2>2. \A i, j \in 1 .. n : order[i] = order[j] => i = j
        BY <2>1, <1>7 DEF Bijection, Injection, IsInjective
    <2>3. \A j \in 1 .. n : \E i \in 1 .. n : order[i] = j
        BY <1>7 DEF Bijection, Surjection
    <2> QED  BY <2>1, <2>2, <2>3
<1> DEFINE o == InOrder(its)
<1>10. o \in [1 .. n -> Seq(FS)] /\ \A i \in 1 .. n : o[i] = its[order[i]]
    BY <1>1, <1>8, <1>9
<1> HIDE DEF o
<1>11. o \in Seq(Seq(FS)) /\ Len(o) = n /\ DOMAIN o = 1 .. n
    <2>1. n \in Nat
        OBVIOUS
    <2> HIDE DEF n
    <2> QED  BY <2>1, <1>10, FunctionIsSequence
<1>12. Apart(o)
    <2>1. \A i \in 1 .. n : Rising(o[i]) /\ IsInjective(o[i])
        BY <1>1, <1>9, <1>10 DEF Apart, Distinct
    <2>2. ASSUME NEW i \in 1 .. n, NEW j \in 1 .. n, i # j
          PROVE  \A x \in ToSet(o[i]) : x \notin ToSet(o[j])
        <3>1. order[i] \in 1 .. n /\ order[j] \in 1 .. n /\ order[i] # order[j]
            BY <1>9, <2>2
        <3> QED  BY <3>1, <1>1, <1>10 DEF Apart, Distinct
    <2> QED  BY <1>11, <2>1, <2>2 DEF Apart, Distinct
<1>13. Sorted(o)
    BY <1>7, <1>10, <1>11 DEF Sorted
<1>14. AllOf(o) = AllOf(its)
    <2>1. \A i \in 1 .. n : \E j \in 1 .. n : o[i] = its[j]
        BY <1>9, <1>10
    <2>2. ASSUME NEW j \in 1 .. n PROVE \E i \in 1 .. n : o[i] = its[j]
        <3>1. PICK i \in 1 .. n : order[i] = j
            BY <1>9
        <3> QED  BY <3>1, <1>10
    <2>3. {ToSet(o[i]) : i \in 1 .. n} = {ToSet(its[i]) : i \in 1 .. n}
        BY <2>1, <2>2
    <2> QED  BY <2>3, <1>1, <1>11 DEF AllOf
<1> QED  BY <1>11, <1>12, <1>13, <1>14 DEF o

\* A merge that has come to m: what is in the cache is before all that is left.
Merging(m, H) ==
    /\ m \in [its : Seq(Seq(FS)), cache : Seq(FS)]
    /\ m.its # << >>
    /\ Apart(m.its)
    /\ Rising(m.cache) /\ IsInjective(m.cache)
    /\ \A x \in ToSet(m.cache) : \A y \in AllOf(m.its) : x # y /\ Key[x] <= Key[y]
    /\ H = ToSet(m.cache) \cup AllOf(m.its)

\* A sequence in two parts
LEMMA CutInTwo ==
    ASSUME NEW S, NEW s \in Seq(S), NEW n \in 0 .. Len(s)
    PROVE  LET front == SubSeq(s, 1, n)
               rest == SubSeq(s, n + 1, Len(s))
           IN  /\ front \in Seq(S) /\ rest \in Seq(S) /\ Len(front) = n /\ Len(rest) = Len(s) - n
               /\ \A i \in 1 .. n : front[i] = s[i]
               /\ \A i \in 1 .. Len(s) - n : rest[i] = s[n + i]
               /\ ToSet(s) = ToSet(front) \cup ToSet(rest)
<1> DEFINE front == SubSeq(s, 1, n)
           rest == SubSeq(s, n + 1, Len(s))
<1>1. Len(s) \in Nat /\ n \in Nat /\ \A i \in 1 .. Len(s) : s[i] \in S
    OBVIOUS
<1>2. front \in Seq(S) /\ Len(front) = n /\ \A i \in 1 .. n : front[i] = s[i]
    BY <1>1, SubSeqProperties
<1>3. rest \in Seq(S) /\ Len(rest) = Len(s) - n /\ \A i \in 1 .. Len(s) - n : rest[i] = s[n + i]
    <2>1. \A i \in n + 1 .. Len(s) : s[i] \in S
        BY <1>1
    <2>2. /\ rest \in Seq(S)
          /\ Len(rest) = IF n + 1 <= Len(s) THEN Len(s) - (n + 1) + 1 ELSE 0
          /\ \A i \in 1 .. Len(s) - (n + 1) + 1 : rest[i] = s[(n + 1) + i - 1]
        <3>1. n + 1 \in Int /\ Len(s) \in Int
            BY <1>1
        <3> QED  BY <2>1, <3>1, SubSeqProperties
    <2> HIDE DEF rest
    <2>3. \A i \in 1 .. Len(s) - n : (n + 1) + i - 1 = n + i /\ i \in 1 .. Len(s) - (n + 1) + 1
        BY <1>1
    <2>4. \A i \in 1 .. Len(s) - n : rest[i] = s[n + i]
        BY <2>2, <2>3
    <2> QED  BY <1>1, <2>2, <2>4
<1> HIDE DEF front, rest
<1>4. DOMAIN front = 1 .. n /\ DOMAIN rest = 1 .. Len(s) - n /\ DOMAIN s = 1 .. Len(s)
    BY <1>1, <1>2, <1>3
<1>5. ToSet(s) = ToSet(front) \cup ToSet(rest)
    <2>1. ASSUME NEW i \in 1 .. Len(s) PROVE s[i] \in ToSet(front) \cup ToSet(rest)
        <3>1. CASE i <= n
            BY <3>1, <1>1, <1>2, <1>4 DEF ToSet
        <3>2. CASE i > n
            <4>1. i - n \in 1 .. Len(s) - n /\ s[i] = rest[i - n]
                BY <3>2, <1>1, <1>3
            <4> QED  BY <4>1, <1>4 DEF ToSet
        <3> QED  BY <1>1, <3>1, <3>2
    <2>2. \A i \in 1 .. n : front[i] \in ToSet(s)
        BY <1>1, <1>2, <1>4 DEF ToSet
    <2>3. ASSUME NEW i \in 1 .. Len(s) - n PROVE rest[i] \in ToSet(s)
        <3>1. n + i \in 1 .. Len(s) /\ rest[i] = s[n + i]
            BY <1>1, <1>3
        <3> QED  BY <3>1, <1>4 DEF ToSet
    <2>4. ToSet(s) \subseteq ToSet(front) \cup ToSet(rest)
        BY <2>1, <1>4 DEF ToSet
    <2>5. ToSet(front) \subseteq ToSet(s)
        BY <2>2, <1>4 DEF ToSet
    <2>6. ToSet(rest) \subseteq ToSet(s)
        BY <2>3, <1>4 DEF ToSet
    <2> QED  BY <2>4, <2>5, <2>6
<1> QED  BY <1>2, <1>3, <1>5 DEF front, rest

\* One sequence behind another
LEMMA JoinedAre ==
    ASSUME NEW S, NEW s \in Seq(S), NEW t \in Seq(S)
    PROVE  /\ s \o t \in Seq(S) /\ Len(s \o t) = Len(s) + Len(t)
           /\ \A i \in 1 .. Len(s) : (s \o t)[i] = s[i]
           /\ \A i \in Len(s) + 1 .. Len(s) + Len(t) : (s \o t)[i] = t[i - Len(s)]
           /\ ToSet(s \o t) = ToSet(s) \cup ToSet(t)
<1> DEFINE u == s \o t
<1>1. /\ u \in Seq(S) /\ Len(u) = Len(s) + Len(t)
      /\ \A i \in 1 .. Len(s) + Len(t) : u[i] = IF i <= Len(s) THEN s[i] ELSE t[i - Len(s)]
    BY ConcatProperties
<1>2. Len(s) \in Nat /\ Len(t) \in Nat /\ DOMAIN s = 1 .. Len(s) /\ DOMAIN t = 1 .. Len(t)
    OBVIOUS
<1> HIDE DEF u
<1>3. DOMAIN u = 1 .. Len(s) + Len(t)
    BY <1>1
<1>4. ToSet(u) \subseteq ToSet(s) \cup ToSet(t)
    <2>1. ASSUME NEW i \in 1 .. Len(s) + Len(t) PROVE u[i] \in ToSet(s) \cup ToSet(t)
        <3>1. CASE i <= Len(s)
            BY <3>1, <1>1, <1>2 DEF ToSet
        <3>2. CASE i > Len(s)
            <4>1. i - Len(s) \in 1 .. Len(t) /\ u[i] = t[i - Len(s)]
                BY <3>2, <1>1, <1>2
            <4> QED  BY <4>1, <1>2 DEF ToSet
        <3> QED  BY <1>2, <3>1, <3>2
    <2> QED  BY <2>1, <1>3 DEF ToSet
<1>5. ToSet(s) \subseteq ToSet(u)
    BY <1>1, <1>2, <1>3 DEF ToSet
<1>6. ToSet(t) \subseteq ToSet(u)
    <2>1. ASSUME NEW i \in 1 .. Len(t) PROVE t[i] \in ToSet(u)
        <3>1. Len(s) + i \in 1 .. Len(s) + Len(t) /\ u[Len(s) + i] = t[i]
            <4>1. Len(s) + i \in 1 .. Len(s) + Len(t) /\ ~(Len(s) + i <= Len(s)) /\ (Len(s) + i) - Len(s) = i
                BY <1>2
            <4>2. u[Len(s) + i] = t[(Len(s) + i) - Len(s)]
                BY <1>1, <4>1
            <4> QED  BY <4>1, <4>2
        <3> QED  BY <3>1, <1>3 DEF ToSet
    <2> QED  BY <2>1, <1>2 DEF ToSet
<1>7. \A i \in 1 .. Len(s) : u[i] = s[i]
    BY <1>1, <1>2
<1>8. \A i \in Len(s) + 1 .. Len(s) + Len(t) : u[i] = t[i - Len(s)]
    BY <1>1, <1>2
<1> QED  BY <1>1, <1>4, <1>5, <1>6, <1>7, <1>8 DEF u

\* What the first iterator has up to a place may go into the cache when nothing else is before it.
LEMMA TakeKeeps ==
    ASSUME NEW H, NEW m, Merging(m, H), NEW n \in 0 .. Len(m.its[1]),
           \A i \in DOMAIN m.its : i # 1 =>
              \A a \in 1 .. n : \A y \in ToSet(m.its[i]) : Key[m.its[1][a]] <= Key[y]
    PROVE  /\ Merging(Take(m, n), H)
           /\ Len(Take(m, n).cache) = Len(m.cache) + n
           /\ Len(Take(m, n).its) = Len(m.its)
           /\ \A i \in DOMAIN m.its : i # 1 => Take(m, n).its[i] = m.its[i]
           /\ n = Len(m.its[1]) => Take(m, n).its[1] = << >>
<1> DEFINE k == Len(m.its)
           s == m.its[1]
           front == SubSeq(s, 1, n)
           rest == SubSeq(s, n + 1, Len(s))
           its == [m.its EXCEPT ![1] = rest]
           cache == m.cache \o front
<1>1. /\ m.its \in Seq(Seq(FS)) /\ m.cache \in Seq(FS) /\ m.its # << >>
      /\ k \in Nat \ {0} /\ DOMAIN m.its = 1 .. k /\ 1 \in 1 .. k /\ s \in Seq(FS) /\ Len(s) \in Nat
      /\ n \in 0 .. Len(s)
    BY DEF Merging
<1>2. Take(m, n) = [its |-> its, cache |-> cache]
    BY DEF Take
<1>3. /\ front \in Seq(FS) /\ rest \in Seq(FS) /\ Len(front) = n /\ Len(rest) = Len(s) - n
      /\ \A i \in 1 .. n : front[i] = s[i]
      /\ \A i \in 1 .. Len(s) - n : rest[i] = s[n + i]
      /\ ToSet(s) = ToSet(front) \cup ToSet(rest)
    <2> HIDE DEF s
    <2> QED  BY <1>1, CutInTwo
<1> HIDE DEF front, rest
<1>4. /\ cache \in Seq(FS) /\ Len(cache) = Len(m.cache) + n
      /\ \A i \in 1 .. Len(m.cache) : cache[i] = m.cache[i]
      /\ \A i \in Len(m.cache) + 1 .. Len(m.cache) + n : cache[i] = front[i - Len(m.cache)]
      /\ ToSet(cache) = ToSet(m.cache) \cup ToSet(front)
    <2>1. /\ cache \in Seq(FS) /\ Len(cache) = Len(m.cache) + Len(front)
          /\ \A i \in 1 .. Len(m.cache) : cache[i] = m.cache[i]
          /\ \A i \in Len(m.cache) + 1 .. Len(m.cache) + Len(front) : cache[i] = front[i - Len(m.cache)]
          /\ ToSet(cache) = ToSet(m.cache) \cup ToSet(front)
        <3>1. m.cache \in Seq(FS) /\ front \in Seq(FS)
            BY <1>1, <1>3
        <3>2. \A x, y \in Seq(FS) :
                 /\ x \o y \in Seq(FS) /\ Len(x \o y) = Len(x) + Len(y)
                 /\ \A i \in 1 .. Len(x) : (x \o y)[i] = x[i]
                 /\ \A i \in Len(x) + 1 .. Len(x) + Len(y) : (x \o y)[i] = y[i - Len(x)]
                 /\ ToSet(x \o y) = ToSet(x) \cup ToSet(y)
            BY JoinedAre
        <3> QED  BY <3>1, <3>2, Zenon
    <2>2. Len(front) = n
        BY <1>3
    <2> HIDE DEF cache
    <2> QED  BY <2>1, <2>2
<1>5. /\ its \in Seq(Seq(FS)) /\ Len(its) = k /\ its[1] = rest
      /\ \A i \in 1 .. k : i # 1 => its[i] = m.its[i]
    BY <1>1, <1>3
<1> HIDE DEF its, cache
<1>6. DOMAIN its = 1 .. k /\ its # << >>
    BY <1>1, <1>5
<1>7. Rising(s) /\ IsInjective(s) /\ DOMAIN s = 1 .. Len(s)
    <2>1. Apart(m.its) /\ Distinct(m.its)
        BY DEF Merging, Apart
    <2>2. Rising(s) /\ IsInjective(s)
        BY <2>1, <1>1 DEF Apart, Distinct
    <2> HIDE DEF s
    <2> QED  BY <2>2, <1>1
<1>8. /\ \A a, b \in 1 .. Len(s) : a < b => Key[s[a]] <= Key[s[b]]
      /\ \A a, b \in 1 .. Len(s) : s[a] = s[b] => a = b
    <2> HIDE DEF s
    <2> QED  BY <1>7 DEF Rising, IsInjective
<1>9. DOMAIN rest = 1 .. Len(s) - n /\ DOMAIN front = 1 .. n /\ DOMAIN m.cache = 1 .. Len(m.cache)
      /\ Len(m.cache) \in Nat
    BY <1>1, <1>3
<1>10. \A x \in ToSet(front) : \E a \in 1 .. n : x = s[a] /\ a \in 1 .. Len(s)
    <2>1. \A a \in 1 .. n : front[a] = s[a] /\ a \in 1 .. Len(s)
        BY <1>1, <1>3
    <2> HIDE DEF s
    <2> QED  BY <2>1, <1>9 DEF ToSet
<1>11. \A x \in ToSet(rest) : \E a \in n + 1 .. Len(s) : x = s[a] /\ a \in 1 .. Len(s)
    <2>1. \A i \in 1 .. Len(s) - n : n + i \in n + 1 .. Len(s) /\ n + i \in 1 .. Len(s) /\ rest[i] = s[n + i]
        BY <1>1, <1>3
    <2> QED  BY <2>1, <1>9 DEF ToSet
<1>12. \A x \in ToSet(front) : \A y \in ToSet(rest) : x # y /\ Key[x] <= Key[y]
    <2> TAKE x \in ToSet(front)
    <2> TAKE y \in ToSet(rest)
    <2>1. PICK a \in 1 .. n : x = s[a] /\ a \in 1 .. Len(s)
        BY <1>10
    <2>2. PICK b \in n + 1 .. Len(s) : y = s[b] /\ b \in 1 .. Len(s)
        BY <1>11
    <2>3. a < b
        BY <1>1
    <2> HIDE DEF s
    <2> QED  BY <2>1, <2>2, <2>3, <1>8
<1>13. Apart(its)
    <2>1. Rising(rest) /\ IsInjective(rest)
        <3>1. \A i \in 1 .. Len(s) - n : n + i \in 1 .. Len(s) /\ rest[i] = s[n + i] /\ i \in Int
            BY <1>1, <1>3
        <3>2. \A a, b \in 1 .. Len(s) - n : a < b => n + a < n + b
            OBVIOUS
        <3>3. \A a, b \in 1 .. Len(s) - n : n + a = n + b => a = b
            OBVIOUS
        <3> HIDE DEF s
        <3>4. ASSUME NEW a \in 1 .. Len(s) - n, NEW b \in 1 .. Len(s) - n, a < b
              PROVE  Key[rest[a]] <= Key[rest[b]]
            <4>1. n + a \in 1 .. Len(s) /\ n + b \in 1 .. Len(s) /\ n + a < n + b
                BY <3>1, <3>2, <3>4
            <4>2. Key[s[n + a]] <= Key[s[n + b]]
                BY <4>1, <1>8
            <4> QED  BY <4>2, <3>1
        <3>5. \A a, b \in 1 .. Len(s) - n : rest[a] = rest[b] => a = b
            BY <3>1, <3>3, <1>8
        <3> QED  BY <3>4, <3>5, <1>9 DEF Rising, IsInjective
    <2>2. \A i \in 1 .. k : Rising(its[i]) /\ IsInjective(its[i])
        BY <2>1, <1>1, <1>5 DEF Merging, Apart, Distinct
    <2>3. \A i \in 1 .. k : ToSet(its[i]) \subseteq ToSet(m.its[i])
        BY <1>3, <1>5
    <2>4. \A i, j \in 1 .. k : i # j => \A x \in ToSet(m.its[i]) : x \notin ToSet(m.its[j])
        BY <1>1 DEF Merging, Apart, Distinct
    <2> QED  BY <2>2, <2>3, <2>4, <1>6 DEF Apart, Distinct
<1>14. AllOf(m.its) = ToSet(front) \cup AllOf(its)
    <2>1. \A i \in 1 .. k : i # 1 => ToSet(its[i]) = ToSet(m.its[i])
        BY <1>5
    <2>2. ToSet(m.its[1]) = ToSet(front) \cup ToSet(its[1])
        BY <1>3, <1>5
    <2>3. AllOf(m.its) \subseteq ToSet(front) \cup AllOf(its)
        <3>1. SUFFICES ASSUME NEW x \in AllOf(m.its) PROVE x \in ToSet(front) \cup AllOf(its)
            OBVIOUS
        <3>2. PICK i \in 1 .. k : x \in ToSet(m.its[i])
            BY <3>1, <1>1 DEF AllOf
        <3> QED  BY <3>2, <2>1, <2>2, <1>6 DEF AllOf
    <2>4. \A i \in 1 .. k : ToSet(its[i]) \subseteq AllOf(m.its)
        BY <2>1, <2>2, <1>1 DEF AllOf
    <2>5. ToSet(front) \subseteq AllOf(m.its)
        BY <2>2, <1>1 DEF AllOf
    <2>6. AllOf(its) \subseteq AllOf(m.its)
        BY <2>4, <1>6 DEF AllOf
    <2> QED  BY <2>3, <2>5, <2>6
<1>15. \A x \in ToSet(front) : \A y \in AllOf(its) : x # y /\ Key[x] <= Key[y]
    <2> TAKE x \in ToSet(front)
    <2> TAKE y \in AllOf(its)
    <2>1. PICK i \in 1 .. k : y \in ToSet(its[i])
        BY <1>6 DEF AllOf
    <2>2. CASE i = 1
        BY <2>1, <2>2, <1>5, <1>12
    <2>3. CASE i # 1
        <3>1. y \in ToSet(m.its[i]) /\ x \in ToSet(m.its[1])
            BY <2>1, <2>3, <1>3, <1>5
        <3>2. x # y
            BY <3>1, <2>3, <1>1 DEF Merging, Apart, Distinct
        <3>3. PICK a \in 1 .. n : x = m.its[1][a]
            BY <1>10
        <3>4. Key[x] <= Key[y]
            BY <3>1, <3>3, <2>3, <1>1
        <3> QED  BY <3>2, <3>4
    <2> QED  BY <2>2, <2>3
<1>16. \A x \in ToSet(m.cache) : \A y \in AllOf(m.its) : x # y /\ Key[x] <= Key[y]
    BY DEF Merging
<1>17. \A x \in ToSet(cache) : \A y \in AllOf(its) : x # y /\ Key[x] <= Key[y]
    BY <1>4, <1>14, <1>15, <1>16
<1>18. Rising(cache) /\ IsInjective(cache)
    <2> DEFINE c == Len(m.cache)
    <2>1. DOMAIN cache = 1 .. c + n /\ c \in Nat /\ n \in Nat
        BY <1>1, <1>4, <1>9
    <2>2. \A i \in 1 .. c : cache[i] = m.cache[i] /\ cache[i] \in ToSet(m.cache)
        BY <1>4, <1>9 DEF ToSet
    <2>3. \A i \in c + 1 .. c + n : cache[i] = s[i - c] /\ i - c \in 1 .. Len(s) /\ cache[i] \in ToSet(front)
        <3>1. \A i \in c + 1 .. c + n : i - c \in 1 .. n
            BY <2>1
        <3>2. \A i \in 1 .. n : i \in 1 .. Len(s)
            BY <1>1
        <3> HIDE DEF c, s
        <3> QED  BY <3>1, <3>2, <1>3, <1>4, <1>9 DEF ToSet, c
    <2>4. \A a, b \in 1 .. c : a < b => Key[m.cache[a]] <= Key[m.cache[b]]
        BY <1>9 DEF Merging, Rising
    <2>5. \A a, b \in 1 .. c : m.cache[a] = m.cache[b] => a = b
        BY <1>9 DEF Merging, IsInjective
    <2>6. ToSet(front) \subseteq AllOf(m.its)
        BY <1>14
    <2> HIDE DEF c, s
    <2>7. ASSUME NEW a \in 1 .. c + n, NEW b \in 1 .. c + n, a < b
          PROVE  Key[cache[a]] <= Key[cache[b]] /\ cache[a] # cache[b]
        <3>1. CASE b <= c
            <4>1. a \in 1 .. c /\ b \in 1 .. c
                BY <3>1, <2>1, <2>7
            <4> QED  BY <4>1, <2>2, <2>4, <2>5, <2>7
        <3>2. CASE a <= c /\ b > c
            <4>1. a \in 1 .. c /\ b \in c + 1 .. c + n
                BY <3>2, <2>1
            <4> QED  BY <4>1, <2>2, <2>3, <2>6, <1>16
        <3>3. CASE a > c
            <4>1. a \in c + 1 .. c + n /\ b \in c + 1 .. c + n
                BY <3>3, <2>1, <2>7
            <4>2. a - c < b - c
                BY <2>1, <2>7
            <4>3. a - c \in 1 .. Len(s) /\ b - c \in 1 .. Len(s) /\ cache[a] = s[a - c] /\ cache[b] = s[b - c]
                BY <4>1, <2>3
            <4>4. Key[s[a - c]] <= Key[s[b - c]] /\ s[a - c] # s[b - c]
                BY <4>2, <4>3, <1>8
            <4> QED  BY <4>3, <4>4
        <3> QED  BY <2>1, <3>1, <3>2, <3>3
    <2>8. \A a, b \in 1 .. c + n : a < b \/ b < a \/ a = b
        BY <2>1
    <2>9. \A a, b \in DOMAIN cache : cache[a] = cache[b] => a = b
        BY <2>1, <2>7, <2>8
    <2> QED  BY <2>1, <2>7, <2>9 DEF Rising, IsInjective
<1>19. H = ToSet(cache) \cup AllOf(its)
    BY <1>4, <1>14 DEF Merging
<1>20. Merging(Take(m, n), H)
    <2>1. Take(m, n).its = its /\ Take(m, n).cache = cache /\ Take(m, n) \in [its : Seq(Seq(FS)), cache : Seq(FS)]
        BY <1>2, <1>4, <1>5
    <2> QED  BY <2>1, <1>6, <1>13, <1>17, <1>18, <1>19 DEF Merging
<1>21. n = Len(s) => its[1] = << >>
    BY <1>1, <1>3, <1>5
<1> QED  BY <1>1, <1>2, <1>4, <1>5, <1>20, <1>21

\* The first iterator has something that comes before all of the second.
LEMMA RunIs ==
    ASSUME NEW its \in Seq(Seq(FS)), Len(its) >= 2, its[1] # << >>, its[2] # << >>,
           CompareWithoutEquality(Head(its[1]), Head(its[2])) > 0
    PROVE  /\ Run(its) \in 1 .. Len(its[1])
           /\ \A a \in 1 .. Run(its) : CompareWithoutEquality(its[1][a], Head(its[2])) > 0
<1> DEFINE s == its[1]
           y == Head(its[2])
           first(n) == \A i \in 1 .. n : CompareWithoutEquality(s[i], y) > 0
           is(n) == first(n) /\ (n < Len(s) => ~first(n + 1))
           late == {i \in 1 .. Len(s) : ~(CompareWithoutEquality(s[i], y) > 0)}
<1>1. Len(s) \in Nat \ {0} /\ Head(s) = s[1]
    <2>1. s \in Seq(FS) /\ s # << >>
        OBVIOUS
    <2> HIDE DEF s
    <2> QED  BY <2>1
<1>2. Run(its) = CHOOSE n \in 0 .. Len(s) : is(n)
    BY DEF Run
<1>3. CompareWithoutEquality(s[1], y) > 0
    BY <1>1
<1> HIDE DEF s, y
<1>4. \E n \in 0 .. Len(s) : is(n)
    <2>1. CASE late = {}
        <3>1. first(Len(s))
            BY <2>1
        <3>2. is(Len(s)) /\ Len(s) \in 0 .. Len(s)
            BY <3>1, <1>1
        <3> HIDE DEF is
        <3> QED  BY <3>2
    <2>2. CASE late # {}
        <3>1. late \in SUBSET Nat
            OBVIOUS
        <3>2. PICK l \in late : \A i \in late : l <= i
            <4> HIDE DEF late
            <4> QED  BY <2>2, <3>1, LeastExists
        <3>3. l \in 1 .. Len(s) /\ l - 1 \in 0 .. Len(s) /\ (l - 1) + 1 = l
            BY <3>2, <1>1
        <3>4. first(l - 1)
            BY <3>2, <3>3
        <3>5. ~first(l)
            BY <3>2, <3>3
        <3>6. ~first((l - 1) + 1)
            BY <3>3, <3>5
        <3>7. is(l - 1)
            BY <3>4, <3>6
        <3> HIDE DEF is
        <3> QED  BY <3>3, <3>7
    <2> QED  BY <2>1, <2>2
<1> DEFINE r == CHOOSE n \in 0 .. Len(s) : is(n)
<1>5. r \in 0 .. Len(s) /\ is(r)
    <2> HIDE DEF is
    <2> QED  BY <1>4
<1> HIDE DEF r
<1>6. r # 0
    <2>1. ASSUME r = 0 PROVE FALSE
        <3>1. ~first(1)
            BY <2>1, <1>1, <1>5
        <3> QED  BY <3>1, <1>3
    <2> QED  BY <2>1
<1>7. Run(its) = r
    BY <1>2 DEF r
<1> QED  BY <1>5, <1>6, <1>7 DEF s, y

\* A turn puts something more into the cache, and leaves the iterators sorted.
LEMMA TurnKeeps ==
    ASSUME NEW H, IsFiniteSet(H), NEW m, Merging(m, H), Sorted(m.its), Len(m.cache) # Cardinality(H)
    PROVE  Merging(Turn(m), H) /\ Sorted(Turn(m).its) /\ Len(Turn(m).cache) > Len(m.cache)
<1> DEFINE its == m.its
           k == Len(its)
<1>1. /\ its \in Seq(Seq(FS)) /\ m.cache \in Seq(FS) /\ its # << >> /\ k \in Nat \ {0} /\ DOMAIN its = 1 .. k
      /\ \A i \in 1 .. k : its[i] \in Seq(FS) /\ DOMAIN its[i] = 1 .. Len(its[i]) /\ Len(its[i]) \in Nat
      /\ Len(m.cache) \in Nat
    <2>1. its \in Seq(Seq(FS)) /\ m.cache \in Seq(FS) /\ its # << >>
        BY DEF Merging
    <2> HIDE DEF its
    <2> QED  BY <2>1
<1>2. \A i, j \in 1 .. k : i < j => ~IteratorBefore(its[j], its[i])
    BY <1>1 DEF Sorted
<1> HIDE DEF its
<1>3. \E i \in 1 .. k : its[i] # << >>
    <2> SUFFICES ASSUME \A i \in 1 .. k : its[i] = << >> PROVE FALSE
        OBVIOUS
    <2>1. AllOf(m.its) = {}
        BY <1>1 DEF AllOf, ToSet, its
    <2>2. H = ToSet(m.cache)
        BY <2>1 DEF Merging
    <2>3. Cardinality(H) = Len(m.cache)
        BY <1>1, <2>2, PlacesAreMembers DEF Merging
    <2> QED  BY <2>3
<1>4. its[1] # << >> /\ 1 \in 1 .. k
    <2>1. PICK i \in 1 .. k : its[i] # << >>
        BY <1>3
    <2>2. i = 1 \/ ~IteratorBefore(its[i], its[1])
        BY <1>1, <1>2
    <2> QED  BY <1>1, <2>1, <2>2 DEF IteratorBefore
<1>5. Len(its[1]) \in 1 .. Len(its[1]) /\ Len(its[1]) \in 0 .. Len(its[1])
    <2>1. its[1] \in Seq(FS)
        BY <1>1, <1>4
    <2> QED  BY <2>1, <1>4
<1>6. CASE k = 1 \/ its[2] = << >>
    <2>1. \A i \in 1 .. k : i # 1 => its[i] = << >>
        <3> SUFFICES ASSUME NEW i \in 1 .. k, i # 1 PROVE its[i] = << >>
            OBVIOUS
        <3>1. i = 2 \/ (2 < i /\ 2 \in 1 .. k)
            BY <1>1
        <3>2. its[2] = << >>
            <4>1. k # 1
                BY <1>1
            <4> QED  BY <4>1, <1>6
        <3>3. i = 2 \/ ~IteratorBefore(its[i], its[2])
            BY <3>1, <1>2
        <3> QED  BY <3>2, <3>3 DEF IteratorBefore
    <2>3. \A i \in 1 .. k : i # 1 => ToSet(its[i]) = {}
        BY <2>1 DEF ToSet
    <2> DEFINE n == Len(m.its[1])
               t == Take(m, n)
    <2>2. Turn(m) = t
        BY <1>6 DEF Turn, its
    <2>4. /\ Merging(t, H) /\ Len(t.cache) = Len(m.cache) + n /\ Len(t.its) = k
          /\ \A i \in 1 .. k : i # 1 => t.its[i] = its[i]
          /\ t.its[1] = << >>
        <3>1. \A i \in DOMAIN m.its : i # 1 =>
                 \A a \in 1 .. n : \A y \in ToSet(m.its[i]) : Key[m.its[1][a]] <= Key[y]
            BY <1>1, <2>3 DEF its
        <3>2. n \in 0 .. Len(m.its[1])
            BY <1>5 DEF its
        <3>3. /\ Merging(t, H) /\ Len(t.cache) = Len(m.cache) + n /\ Len(t.its) = Len(m.its)
              /\ \A i \in DOMAIN m.its : i # 1 => t.its[i] = m.its[i]
              /\ n = Len(m.its[1]) => t.its[1] = << >>
            <4> HIDE DEF n
            <4> QED  BY <3>1, <3>2, TakeKeeps
        <3> HIDE DEF t
        <3> QED  BY <3>3, <1>1 DEF its
    <2>5. n \in Nat \ {0}
        BY <1>5 DEF its
    <2> HIDE DEF t, n
    <2>6. Sorted(t.its)
        <3>1. DOMAIN t.its = 1 .. k
            BY <2>4 DEF Merging
        <3>2. \A i \in 1 .. k : t.its[i] = << >>
            BY <2>1, <2>4
        <3> QED  BY <3>1, <3>2 DEF Sorted, IteratorBefore
    <2>7. Len(t.cache) > Len(m.cache)
        BY <1>1, <2>4, <2>5
    <2> QED  BY <2>2, <2>4, <2>6, <2>7
<1>7. CASE k # 1 /\ its[2] # << >>
    <2>1. 2 \in 1 .. k /\ k >= 2
        BY <1>1, <1>7
    <2>2. Head(its[1]) \in FS /\ Head(its[2]) \in FS
        BY <1>1, <1>4, <1>7, <2>1
    <2>3. Head(its[1]) # Head(its[2])
        <3>1. Head(its[1]) \in ToSet(its[1])
            <4>1. Head(its[1]) = its[1][1] /\ 1 \in DOMAIN its[1]
                BY <1>1, <1>4, <1>5
            <4> QED  BY <4>1 DEF ToSet
        <3>2. Head(its[2]) \in ToSet(its[2])
            <4>1. its[2] \in Seq(FS) /\ its[2] # << >>
                BY <1>1, <1>7, <2>1
            <4>2. Head(its[2]) = its[2][1] /\ 1 \in DOMAIN its[2]
                BY <4>1
            <4> QED  BY <4>2 DEF ToSet
        <3>3. Apart(its)
            BY DEF Merging, its
        <3>4. \A x \in ToSet(its[1]) : x \notin ToSet(its[2])
            <4>1. 1 \in DOMAIN its /\ 2 \in DOMAIN its /\ 1 # 2
                BY <1>1, <2>1
            <4>2. \A i, j \in DOMAIN its : i # j => \A x \in ToSet(its[i]) : x \notin ToSet(its[j])
                BY <3>3 DEF Apart, Distinct
            <4> QED  BY <4>1, <4>2, Zenon
        <3> QED  BY <3>1, <3>2, <3>4
    <2>4. CompareWithoutEquality(Head(its[1]), Head(its[2])) > 0
        <3>1. ~IteratorBefore(its[2], its[1])
            BY <1>2, <1>4, <2>1
        <3>2. ~(CompareWithoutEquality(Head(its[2]), Head(its[1])) > 0)
            BY <3>1, <1>7 DEF IteratorBefore
        <3> QED  BY <3>2, <2>2, <2>3, BeforeIsStrict
    <2> DEFINE r == Run(m.its)
               t == Take(m, r)
    <2>5. /\ r \in 1 .. Len(its[1])
          /\ \A a \in 1 .. r : CompareWithoutEquality(its[1][a], Head(its[2])) > 0
        BY <1>1, <1>4, <1>7, <2>1, <2>4, RunIs DEF its
    <2> HIDE DEF r
    <2>6. ASSUME NEW i \in 1 .. k, i # 1, NEW a \in 1 .. r, NEW y \in ToSet(its[i])
          PROVE  Key[its[1][a]] <= Key[y]
        <3> DEFINE h == Head(its[2])
        <3>1. its[1][a] \in FS
            BY <1>1, <1>4, <2>5
        <3>2. PICK b \in 1 .. Len(its[i]) : y = its[i][b]
            BY <1>1 DEF ToSet
        <3>3. its[i] # << >> /\ Head(its[i]) = its[i][1] /\ its[i][1] \in FS /\ 1 \in 1 .. Len(its[i]) /\ y \in FS
            <4>1. its[i] \in Seq(FS) /\ Len(its[i]) \in Nat \ {0}
                BY <1>1, <3>2
            <4> QED  BY <3>2, <4>1
        <3>4. Key[h] <= Key[its[i][1]]
            <4>1. CASE i = 2
                <5>1. Key[h] \in Int
                    BY <2>2, IteratorAssumption
                <5> QED  BY <4>1, <5>1, <3>3
            <4>2. CASE i # 2
                <5>1. 2 < i
                    BY <1>1, <2>6, <4>2
                <5>2. ~IteratorBefore(its[i], its[2])
                    BY <1>2, <2>1, <5>1
                <5>3. ~(CompareWithoutEquality(its[i][1], h) > 0)
                    BY <5>2, <3>3 DEF IteratorBefore
                <5>4. ~(Key[its[i][1]] < Key[h])
                    BY <5>3, <3>3, <2>2, ComesBefore
                <5>5. Key[h] \in Int /\ Key[its[i][1]] \in Int
                    BY <2>2, <3>3, IteratorAssumption
                <5> HIDE DEF h
                <5> QED  BY <5>4, <5>5
            <4> QED  BY <4>1, <4>2
        <3>5. Key[its[i][1]] <= Key[y]
            <4>1. Rising(its[i])
                BY <1>1 DEF Merging, Apart, Distinct, its
            <4>2. Key[y] \in Int
                BY <3>3, IteratorAssumption
            <4>3. CASE b = 1
                BY <4>2, <4>3, <3>2
            <4>4. CASE b # 1
                <5>1. 1 \in DOMAIN its[i] /\ b \in DOMAIN its[i] /\ 1 < b
                    BY <4>4, <1>1, <3>2, <3>3
                <5> QED  BY <4>1, <5>1, <3>2 DEF Rising
            <4> QED  BY <4>3, <4>4
        <3>6. Key[its[1][a]] <= Key[h]
            <4>1. CompareWithoutEquality(its[1][a], h) > 0
                BY <2>5
            <4>2. Key[its[1][a]] \in Int /\ Key[h] \in Int
                BY <3>1, <2>2, IteratorAssumption
            <4>3. Key[its[1][a]] < Key[h] \/ Key[its[1][a]] = Key[h]
                BY <4>1, <3>1, <2>2, ComesBefore
            <4> HIDE DEF h
            <4> QED  BY <4>2, <4>3
        <3>7. Key[its[1][a]] \in Int /\ Key[h] \in Int /\ Key[its[i][1]] \in Int /\ Key[y] \in Int
            BY <3>1, <3>3, <2>2, IteratorAssumption
        <3> HIDE DEF h
        <3> QED  BY <3>4, <3>5, <3>6, <3>7
    <2>7. Merging(t, H) /\ Len(t.cache) = Len(m.cache) + r /\ Len(t.its) = Len(m.its)
        <3>1. r \in 0 .. Len(m.its[1])
            BY <2>5 DEF its
        <3>2. \A i \in DOMAIN m.its : i # 1 =>
                 \A a \in 1 .. r : \A y \in ToSet(m.its[i]) : Key[m.its[1][a]] <= Key[y]
            BY <2>6, <1>1 DEF its
        <3> QED  BY <3>1, <3>2, TakeKeeps
    <2>8. Turn(m) = [t EXCEPT !.its = InOrder(@)]
        BY <1>7 DEF Turn, InOrderAgain, its, r
    <2> HIDE DEF t
    <2>9. /\ t \in [its : Seq(Seq(FS)), cache : Seq(FS)] /\ t.its \in Seq(Seq(FS)) /\ t.its # << >>
          /\ Apart(t.its)
        BY <2>7 DEF Merging
    <2> DEFINE o == InOrder(t.its)
    <2>10. /\ o \in Seq(Seq(FS)) /\ Len(o) = Len(t.its) /\ Apart(o) /\ Sorted(o) /\ AllOf(o) = AllOf(t.its)
        BY <2>9, InOrderSorts
    <2> HIDE DEF o
    <2>11. o # << >>
        BY <2>9, <2>10
    <2>12. /\ Turn(m) \in [its : Seq(Seq(FS)), cache : Seq(FS)]
           /\ Turn(m).its = o /\ Turn(m).cache = t.cache
        BY <2>8, <2>9, <2>10 DEF o
    <2>13. Merging(Turn(m), H)
        BY <2>7, <2>10, <2>11, <2>12 DEF Merging
    <2>14. Len(t.cache) > Len(m.cache)
        BY <1>1, <2>5, <2>7
    <2> QED  BY <2>10, <2>12, <2>13, <2>14
<1> QED  BY <1>6, <1>7

-----------------------------------------------------------------------------
(* What the containers hold *)

\* What the first of the iterators have
FirstOf(its, i) == UNION {ToSet(its[j]) : j \in 1 .. i}

\* With one iterator more come that iterator's members.
LEMMA FirstGrows ==
    ASSUME NEW its \in Seq(Seq(FS)), Distinct(its)
    PROVE  /\ FirstOf(its, 0) = {} /\ FirstOf(its, Len(its)) = AllOf(its)
           /\ \A i \in 0 .. Len(its) : IsFiniteSet(FirstOf(its, i))
           /\ \A i \in 1 .. Len(its) :
                /\ FirstOf(its, i) = FirstOf(its, i - 1) \cup ToSet(its[i])
                /\ Cardinality(FirstOf(its, i)) = Cardinality(FirstOf(its, i - 1)) + Len(its[i])
<1> DEFINE n == Len(its)
<1>1. n \in Nat /\ DOMAIN its = 1 .. n /\ \A i \in 1 .. n : its[i] \in Seq(FS)
    OBVIOUS
<1> HIDE DEF n
<1>2. FirstOf(its, 0) = {}
    BY DEF FirstOf
<1>3. FirstOf(its, n) = AllOf(its)
    BY <1>1 DEF FirstOf, AllOf
<1>4. ASSUME NEW i \in 0 .. n PROVE IsFiniteSet(FirstOf(its, i))
    <2>1. \A j \in 1 .. i : j \in 1 .. n
        BY <1>1
    <2>2. \A j \in 1 .. n : ToSet(its[j]) \subseteq FS
        <3> SUFFICES ASSUME NEW j \in 1 .. n PROVE ToSet(its[j]) \subseteq FS
            OBVIOUS
        <3>1. its[j] \in Seq(FS)
            BY <1>1
        <3> QED  BY <3>1 DEF ToSet
    <2>3. FirstOf(its, i) \subseteq FS
        BY <2>1, <2>2 DEF FirstOf
    <2> QED  BY <2>3, IteratorAssumption, FS_Subset
<1>5. ASSUME NEW i \in 1 .. n PROVE FirstOf(its, i) = FirstOf(its, i - 1) \cup ToSet(its[i])
    <2>1. \A j \in 1 .. i : j = i \/ j \in 1 .. i - 1
        BY <1>1
    <2>2. \A j \in 1 .. i - 1 : j \in 1 .. i
        BY <1>1
    <2>3. i \in 1 .. i
        BY <1>1
    <2>4. FirstOf(its, i) \subseteq FirstOf(its, i - 1) \cup ToSet(its[i])
        BY <2>1 DEF FirstOf
    <2>5. FirstOf(its, i - 1) \cup ToSet(its[i]) \subseteq FirstOf(its, i)
        BY <2>2, <2>3 DEF FirstOf
    <2> QED  BY <2>4, <2>5
<1>6. ASSUME NEW i \in 1 .. n
      PROVE  Cardinality(FirstOf(its, i)) = Cardinality(FirstOf(its, i - 1)) + Len(its[i])
    <2>1. IsFiniteSet(FirstOf(its, i - 1))
        <3>1. i - 1 \in 0 .. n
            BY <1>1
        <3> QED  BY <3>1, <1>4
    <2>2. IsFiniteSet(ToSet(its[i])) /\ Cardinality(ToSet(its[i])) = Len(its[i])
        <3>1. its[i] \in Seq(FS) /\ IsInjective(its[i])
            BY <1>1 DEF Distinct
        <3> QED  BY <3>1, PlacesAreMembers
    <2>3. FirstOf(its, i - 1) \cap ToSet(its[i]) = {}
        <3>1. \A j \in 1 .. i - 1 : j \in 1 .. n /\ j # i
            BY <1>1
        <3>2. \A j \in 1 .. i - 1 : \A x \in ToSet(its[j]) : x \notin ToSet(its[i])
            BY <3>1, <1>1 DEF Distinct
        <3> QED  BY <3>2 DEF FirstOf
    <2>4. Cardinality(FirstOf(its, i - 1)) \in Nat
        BY <2>1, FS_CardinalityType
    <2>5. Len(its[i]) \in Nat
        BY <1>1
    <2>6. Cardinality(FirstOf(its, i - 1) \cup ToSet(its[i])) =
             Cardinality(FirstOf(its, i - 1)) + Len(its[i]) - Cardinality({})
        BY <2>1, <2>2, <2>3, FS_Union
    <2>7. Cardinality({}) = 0
        BY FS_EmptySet
    <2>8. Cardinality(FirstOf(its, i - 1) \cup ToSet(its[i])) = Cardinality(FirstOf(its, i - 1)) + Len(its[i])
        BY <2>4, <2>5, <2>6, <2>7
    <2> QED  BY <2>8, <1>5
<1> QED  BY <1>1, <1>2, <1>3, <1>4, <1>5, <1>6 DEF n

\* The single indexes of an index have different structures, each in the order of its kind.
Loaded ==
    /\ kind \in {"ordered", "set", "bag"}
    /\ types \in Indexes
    /\ \A t \in ToSet(types) : single[t] \in Contents(t, kind)

\* So they are when the index holds what Contents says of each of its components.
LEMMA ComponentsFit ==
    ASSUME Loaded
    PROVE  /\ types # << >> /\ Len(types) \in Nat /\ DOMAIN types = 1 .. Len(types)
           /\ SingleIndexes \in Seq(Seq(FS)) /\ Len(SingleIndexes) = Len(types)
           /\ \A i \in 1 .. Len(types) : SingleIndexes[i] = single[types[i]]
           /\ Distinct(SingleIndexes) /\ (kind = "ordered" => Apart(SingleIndexes))
           /\ Held = AllOf(SingleIndexes) /\ Held \subseteq FS /\ IsFiniteSet(Held)
<1> DEFINE n == Len(types)
<1>1. types # << >> /\ n \in Nat /\ DOMAIN types = 1 .. n /\ IsInjective(types)
    BY IteratorAssumption DEF Loaded
<1>2. \A i \in 1 .. n : types[i] \in ToSet(types)
    BY <1>1 DEF ToSet
<1>3. \A i \in 1 .. n : SingleIndexes[i] = single[types[i]]
    BY <1>1 DEF SingleIndexes
<1>4. ASSUME NEW i \in 1 .. n
      PROVE  /\ SingleIndexes[i] \in Seq(FS) /\ IsInjective(SingleIndexes[i])
             /\ \A x \in ToSet(SingleIndexes[i]) : x \in FS /\ FSType[x] = types[i]
             /\ kind = "ordered" => Rising(SingleIndexes[i])
    <2> DEFINE s == single[types[i]]
               of == {f \in FS : FSType[f] = types[i]}
    <2>1. s \in Contents(types[i], kind)
        BY <1>2 DEF Loaded
    <2> HIDE DEF s
    <2>2. PICK l \in 0 .. Cardinality(FS) : s \in [1 .. l -> of]
        BY <2>1 DEF Contents
    <2>3. \A a, b \in DOMAIN s : a < b =>
             /\ s[a] # s[b]
             /\ kind = "ordered" => Compare(s[a], s[b]) >= 0
        BY <2>1 DEF Contents
    <2>4. l \in Nat /\ DOMAIN s = 1 .. l
        BY <2>2
    <2>5. s \in Seq(of) /\ \A a \in 1 .. l : s[a] \in of
        BY <2>2, <2>4, FunctionIsSequence
    <2>6. s \in Seq(FS)
        <3>1. s \in [1 .. l -> FS]
            BY <2>2
        <3> QED  BY <3>1, <2>4, FunctionIsSequence
    <2>7. IsInjective(s)
        <3>1. \A a, b \in 1 .. l : a = b \/ a < b \/ b < a
            BY <2>4
        <3>2. \A a, b \in 1 .. l : a < b => s[a] # s[b]
            BY <2>3, <2>4
        <3>3. \A a, b \in 1 .. l : s[a] = s[b] => a = b
            BY <3>1, <3>2
        <3> QED  BY <3>3, <2>4 DEF IsInjective
    <2>8. \A x \in ToSet(s) : x \in FS /\ FSType[x] = types[i]
        BY <2>4, <2>5 DEF ToSet
    <2>9. ASSUME kind = "ordered" PROVE Rising(s)
        <3>1. \A a \in 1 .. l : s[a] \in FS /\ Key[s[a]] \in Int
            BY <2>5, IteratorAssumption
        <3>2. \A a, b \in 1 .. l : a < b => Key[s[a]] <= Key[s[b]]
            BY <2>3, <2>4, <2>9, <3>1 DEF Compare
        <3> QED  BY <3>2, <2>4 DEF Rising
    <2> QED  BY <2>6, <2>7, <2>8, <2>9, <1>3 DEF s
<1>5. DOMAIN SingleIndexes = 1 .. n
    BY <1>1 DEF SingleIndexes
<1>6. SingleIndexes \in Seq(Seq(FS)) /\ Len(SingleIndexes) = n
    <2>1. SingleIndexes \in [1 .. n -> Seq(FS)]
        BY <1>1, <1>3, <1>4 DEF SingleIndexes
    <2> HIDE DEF n
    <2> QED  BY <1>1, <2>1, FunctionIsSequence
<1>7. Distinct(SingleIndexes)
    <2>1. ASSUME NEW i \in 1 .. n, NEW j \in 1 .. n, i # j, NEW x \in ToSet(SingleIndexes[i]), x \in ToSet(SingleIndexes[j])
          PROVE  FALSE
        <3>1. types[i] = types[j]
            BY <1>4, <2>1
        <3> QED  BY <3>1, <2>1, <1>1 DEF IsInjective
    <2> QED  BY <2>1, <1>4, <1>5 DEF Distinct
<1>8. kind = "ordered" => Apart(SingleIndexes)
    BY <1>4, <1>5, <1>7 DEF Apart
<1>9. Held = AllOf(SingleIndexes)
    <2>1. AllOf(SingleIndexes) = UNION {ToSet(single[types[i]]) : i \in 1 .. n}
        BY <1>3, <1>5 DEF AllOf
    <2>2. ToSet(types) = {types[i] : i \in 1 .. n}
        BY <1>1 DEF ToSet
    <2> QED  BY <2>1, <2>2 DEF Held
<1>10. Held \subseteq FS
    BY <1>4, <1>5, <1>9 DEF AllOf
<1>11. IsFiniteSet(Held)
    BY <1>10, IteratorAssumption, FS_Subset
<1> QED  BY <1>1, <1>3, <1>6, <1>7, <1>8, <1>9, <1>10, <1>11

\* The sizes of the single indexes add up to the number of structures they hold.
LEMMA SizeIsExact ==
    ASSUME Loaded
    PROVE  GetSize = Cardinality(Held)
<1> DEFINE n == Len(types)
           body(f, i) == IF i = 0 THEN 0 ELSE f[i - 1] + Len(SingleIndexes[i])
           size == CHOOSE f : f = [i \in 0 .. n |-> body(f, i)]
           exact == [i \in 0 .. n |-> Cardinality(FirstOf(SingleIndexes, i))]
<1>1. n \in Nat /\ SingleIndexes \in Seq(Seq(FS)) /\ Len(SingleIndexes) = n /\ Distinct(SingleIndexes) /\ Held = AllOf(SingleIndexes)
    BY ComponentsFit
<1>2. GetSize = size[n]
    BY DEF GetSize
<1>3. /\ FirstOf(SingleIndexes, 0) = {} /\ FirstOf(SingleIndexes, n) = Held
      /\ \A i \in 1 .. n : Cardinality(FirstOf(SingleIndexes, i)) =
                           Cardinality(FirstOf(SingleIndexes, i - 1)) + Len(SingleIndexes[i])
    BY <1>1, FirstGrows
<1> HIDE DEF n
<1>4. \A i \in 0 .. n : exact[i] = body(exact, i)
    <2>1. ASSUME NEW i \in 1 .. n PROVE exact[i] = exact[i - 1] + Len(SingleIndexes[i])
        <3>1. i \in 0 .. n /\ i - 1 \in 0 .. n
            BY <1>1
        <3> QED  BY <3>1, <1>3
    <2>2. exact[0] = 0
        <3>1. 0 \in 0 .. n
            BY <1>1
        <3> QED  BY <3>1, <1>3, FS_EmptySet
    <2> HIDE DEF exact
    <2> QED  BY <2>1, <2>2, <1>1
<1>5. size = [i \in 0 .. n |-> body(size, i)]
    <2>1. exact = [i \in 0 .. n |-> body(exact, i)]
        <3>1. exact = [i \in 0 .. n |-> exact[i]]
            OBVIOUS
        <3> HIDE DEF body, exact
        <3> QED  BY <1>4, <3>1
    <2>2. \E f : f = [i \in 0 .. n |-> body(f, i)]
        <3> HIDE DEF body, exact
        <3> QED  BY <2>1
    <2> HIDE DEF body
    <2> QED  BY <2>2
<1> HIDE DEF size, exact
<1>6. \A i \in 0 .. n : size[i] = body(size, i)
    <2> HIDE DEF body
    <2> QED  BY <1>5
<1> DEFINE same == {i \in 0 .. n : size[i] = exact[i]}
<1>7. 0 \in same
    BY <1>1, <1>4, <1>6
<1>8. \A i \in 1 .. n : i - 1 \in same => i \in same
    <2> SUFFICES ASSUME NEW i \in 1 .. n, i - 1 \in same PROVE i \in same
        OBVIOUS
    <2>1. i \in 0 .. n /\ i # 0
        BY <1>1
    <2>2. size[i] = size[i - 1] + Len(SingleIndexes[i]) /\ exact[i] = exact[i - 1] + Len(SingleIndexes[i])
        BY <2>1, <1>4, <1>6
    <2> QED  BY <2>1, <2>2
<1>9. n \in same
    <2>1. n \in 0 .. n
        BY <1>1
    <2> HIDE DEF same
    <2> QED  BY <2>1, <1>1, <1>7, <1>8, UpTo
<1>10. size[n] = Cardinality(Held)
    <2>1. exact[n] = Cardinality(FirstOf(SingleIndexes, n))
        BY <1>1 DEF exact
    <2> QED  BY <2>1, <1>3, <1>9
<1> QED  BY <1>2, <1>10 DEF n

\* What a container may be: each structure once, in the order of the index.
Fills(s) ==
    /\ s \in Seq(FS) /\ ToSet(s) = Held /\ Len(s) = GetSize
    /\ kind = "ordered" => Rising(s)

\* The merge comes to its end, with everything in order.
LEMMA MergeFills ==
    ASSUME Loaded, kind = "ordered"
    PROVE  Fills(Merge)
<1> DEFINE n == GetSize
           start == [its |-> InOrder(SingleIndexes), cache |-> << >>]
           body(f, i) == IF i = 0 THEN start
                         ELSE IF Len(f[i - 1].cache) = n THEN f[i - 1] ELSE Turn(f[i - 1])
           after == CHOOSE f : f = [i \in 0 .. n |-> body(f, i)]
           good == [i \in 0 .. n |-> {m \in [its : Seq(Seq(FS)), cache : Seq(FS)] :
                                         Merging(m, Held) /\ Sorted(m.its) /\ Len(m.cache) >= i}]
           step == [i \in 1 .. n |-> [m \in good[i - 1] |-> IF Len(m.cache) = n THEN m ELSE Turn(m)]]
<1>1. /\ SingleIndexes \in Seq(Seq(FS)) /\ SingleIndexes # << >> /\ Apart(SingleIndexes) /\ Held = AllOf(SingleIndexes)
      /\ IsFiniteSet(Held)
    BY ComponentsFit
<1>2. n = Cardinality(Held) /\ n \in Nat
    BY <1>1, SizeIsExact, FS_CardinalityType
<1>3. Merge = after[n].cache
    BY DEF Merge
<1> HIDE DEF n
<1>4. start \in good[0]
    <2> DEFINE o == InOrder(SingleIndexes)
    <2>1. /\ o \in Seq(Seq(FS)) /\ Len(o) = Len(SingleIndexes) /\ Apart(o) /\ Sorted(o) /\ AllOf(o) = Held
        BY <1>1, InOrderSorts
    <2> HIDE DEF o
    <2>2. o # << >>
        BY <1>1, <2>1
    <2>3. << >> \in Seq(FS) /\ Len(<< >>) = 0 /\ ToSet(<< >>) = {} /\ Rising(<< >>) /\ IsInjective(<< >>)
        BY DEF ToSet, Rising, IsInjective
    <2> DEFINE m == [its |-> o, cache |-> << >>]
    <2>4. m \in [its : Seq(Seq(FS)), cache : Seq(FS)] /\ m.its = o /\ m.cache = << >>
        BY <2>1, <2>3
    <2> HIDE DEF m
    <2>5. Merging(m, Held)
        BY <2>1, <2>2, <2>3, <2>4 DEF Merging
    <2>6. m \in good[0]
        <3>1. 0 \in 0 .. n /\ Len(m.cache) >= 0
            BY <1>2, <2>3, <2>4
        <3> QED  BY <3>1, <2>1, <2>4, <2>5
    <2> HIDE DEF good
    <2> QED  BY <2>6 DEF m, o
<1>5. ASSUME NEW i \in 1 .. n, NEW m \in good[i - 1]
      PROVE  (IF Len(m.cache) = n THEN m ELSE Turn(m)) \in good[i]
    <2>1. i \in 0 .. n /\ i - 1 \in 0 .. n
        BY <1>2
    <2>2. /\ m \in [its : Seq(Seq(FS)), cache : Seq(FS)]
          /\ Merging(m, Held) /\ Sorted(m.its) /\ Len(m.cache) >= i - 1
        BY <2>1
    <2>3. CASE Len(m.cache) = n
        <3>1. Len(m.cache) >= i
            BY <2>1, <2>3, <1>2
        <3> QED  BY <2>1, <2>2, <2>3, <3>1
    <2>4. CASE Len(m.cache) # n
        <3>1. Merging(Turn(m), Held) /\ Sorted(Turn(m).its) /\ Len(Turn(m).cache) > Len(m.cache)
            BY <1>1, <1>2, <2>2, <2>4, TurnKeeps
        <3>2. Turn(m) \in [its : Seq(Seq(FS)), cache : Seq(FS)] /\ Len(m.cache) \in Nat
            BY <2>2, <3>1 DEF Merging
        <3>3. Len(Turn(m).cache) \in Nat
            BY <3>2
        <3>4. Len(Turn(m).cache) >= i
            BY <2>1, <2>2, <3>1, <3>2, <3>3
        <3> QED  BY <2>1, <2>4, <3>1, <3>2, <3>4
    <2> QED  BY <2>3, <2>4
<1>6. \A i \in 1 .. n : \A m \in good[i - 1] :
         step[i][m] \in good[i] /\ step[i][m] = IF Len(m.cache) = n THEN m ELSE Turn(m)
    <2>1. \A i \in 1 .. n : \A m \in good[i - 1] : step[i][m] = IF Len(m.cache) = n THEN m ELSE Turn(m)
        <3> HIDE DEF good
        <3> QED  OBVIOUS
    <2> HIDE DEF step, good
    <2> QED  BY <1>5, <2>1
<1> HIDE DEF good, step, start
<1>7. PICK f : Follows(f, n, start, step) /\ \A i \in 0 .. n : f[i] \in good[i]
    <2>1. \A i \in 1 .. n : \A m \in good[i - 1] : step[i][m] \in good[i]
        BY <1>6
    <2> QED  BY <2>1, <1>2, <1>4, RecursionExists
<1>8. f = [i \in 0 .. n |-> body(f, i)]
    <2>1. ASSUME NEW i \in 1 .. n PROVE step[i][f[i - 1]] = body(f, i)
        <3>1. f[i - 1] \in good[i - 1] /\ i # 0
            BY <1>2, <1>7
        <3>2. step[i][f[i - 1]] = IF Len(f[i - 1].cache) = n THEN f[i - 1] ELSE Turn(f[i - 1])
            BY <1>6, <3>1
        <3> QED  BY <3>1, <3>2
    <2>2. \A i \in 0 .. n : i = 0 \/ i \in 1 .. n
        BY <1>2
    <2>3. \A i \in 0 .. n : (IF i = 0 THEN start ELSE step[i][f[i - 1]]) = body(f, i)
        BY <2>1, <2>2
    <2> HIDE DEF body
    <2>4. f = [i \in 0 .. n |-> IF i = 0 THEN start ELSE step[i][f[i - 1]]]
        BY <1>7 DEF Follows
    <2> QED  BY <2>4, <2>3
<1>9. after = [i \in 0 .. n |-> body(after, i)]
    <2> HIDE DEF body
    <2> QED  BY <1>8
<1> HIDE DEF after
<1>10. /\ after[0] = start
       /\ \A i \in 1 .. n : after[i] = IF Len(after[i - 1].cache) = n THEN after[i - 1] ELSE Turn(after[i - 1])
    <2>1. \A i \in 0 .. n : after[i] = body(after, i)
        <3> HIDE DEF body
        <3> QED  BY <1>9
    <2>2. 0 \in 0 .. n /\ \A i \in 1 .. n : i \in 0 .. n /\ i # 0
        BY <1>2
    <2> QED  BY <2>1, <2>2
<1> DEFINE kept == {i \in 0 .. n : after[i] \in good[i]}
<1>11. 0 \in kept
    BY <1>2, <1>4, <1>10
<1>12. \A i \in 1 .. n : i - 1 \in kept => i \in kept
    BY <1>2, <1>5, <1>10
<1>13. n \in kept
    <2>1. n \in 0 .. n
        BY <1>2
    <2> HIDE DEF kept
    <2> QED  BY <2>1, <1>2, <1>11, <1>12, UpTo
<1>14. Merging(after[n], Held) /\ Len(after[n].cache) >= n
    <2>1. n \in 0 .. n /\ after[n] \in good[n]
        BY <1>2, <1>13
    <2> HIDE DEF kept
    <2> QED  BY <2>1 DEF good
<1> DEFINE c == after[n].cache
<1>15. c \in Seq(FS) /\ Rising(c) /\ IsInjective(c) /\ ToSet(c) \subseteq Held
    BY <1>14 DEF Merging
<1> HIDE DEF c
<1>16. IsFiniteSet(ToSet(c)) /\ Cardinality(ToSet(c)) = Len(c)
    BY <1>15, PlacesAreMembers
<1>17. Cardinality(ToSet(c)) <= Cardinality(Held) /\ (Cardinality(Held) = Cardinality(ToSet(c)) => Held = ToSet(c))
    BY <1>1, <1>15, FS_Subset
<1>18. Len(c) = n /\ Held = ToSet(c)
    <2>1. Len(c) \in Nat /\ Len(c) >= n
        BY <1>14, <1>15 DEF c
    <2> QED  BY <2>1, <1>2, <1>16, <1>17
<1>19. Merge = c
    BY <1>3 DEF c
<1> QED  BY <1>15, <1>18, <1>19 DEF Fills, n

\* What the single indexes hold, one behind the other, is all they hold.
LEMMA FlattenFills ==
    ASSUME Loaded, kind = "bag"
    PROVE  Fills(FlattenSeq(SingleIndexes))
<1> DEFINE n == Len(SingleIndexes)
           body(f, i) == IF i = 1 THEN SingleIndexes[i] ELSE f[i - 1] \o SingleIndexes[i]
           flatten == CHOOSE f : f = [i \in 1 .. n |-> body(f, i)]
           held(i) == FirstOf(SingleIndexes, i)
           good == [i \in 0 .. n - 1 |-> {s \in Seq(FS) : ToSet(s) = held(i + 1) /\ Len(s) = Cardinality(held(i + 1))}]
           step == [i \in 1 .. n - 1 |-> [s \in good[i - 1] |-> s \o SingleIndexes[i + 1]]]
<1>1. /\ SingleIndexes \in Seq(Seq(FS)) /\ SingleIndexes # << >> /\ Distinct(SingleIndexes) /\ Held = AllOf(SingleIndexes)
      /\ n \in Nat \ {0} /\ \A i \in 1 .. n : SingleIndexes[i] \in Seq(FS)
    <2>1. SingleIndexes \in Seq(Seq(FS)) /\ SingleIndexes # << >> /\ Distinct(SingleIndexes) /\ Held = AllOf(SingleIndexes)
        BY ComponentsFit
    <2> QED  BY <2>1
<1>2. FlattenSeq(SingleIndexes) = flatten[n]
    BY <1>1 DEF FlattenSeq
<1>3. /\ held(0) = {} /\ held(n) = Held /\ \A i \in 0 .. n : IsFiniteSet(held(i))
      /\ \A i \in 1 .. n : /\ held(i) = held(i - 1) \cup ToSet(SingleIndexes[i])
                           /\ Cardinality(held(i)) = Cardinality(held(i - 1)) + Len(SingleIndexes[i])
    BY <1>1, FirstGrows
<1> HIDE DEF n, held
<1>4. SingleIndexes[1] \in good[0]
    <2>1. 1 \in 1 .. n /\ 0 \in 0 .. n - 1 /\ 1 - 1 = 0 /\ 0 + 1 = 1
        BY <1>1
    <2>2. held(1) = held(0) \cup ToSet(SingleIndexes[1]) /\ Cardinality(held(1)) = Cardinality(held(0)) + Len(SingleIndexes[1])
        BY <1>3, <2>1
    <2>3. Cardinality({}) = 0
        BY FS_EmptySet
    <2>4. SingleIndexes[1] \in Seq(FS) /\ Len(SingleIndexes[1]) \in Nat
        BY <1>1, <2>1
    <2>6. held(0) = {}
        BY <1>3
    <2>5. ToSet(SingleIndexes[1]) = held(1) /\ Len(SingleIndexes[1]) = Cardinality(held(1))
        <3>1. ToSet(SingleIndexes[1]) = held(1)
            BY <2>2, <2>6
        <3>2. Cardinality(held(0)) = 0
            BY <2>3, <2>6
        <3>3. Len(SingleIndexes[1]) = Cardinality(held(1))
            BY <2>2, <2>4, <3>2
        <3> QED  BY <3>1, <3>3
    <2> QED  BY <2>1, <2>4, <2>5
<1>5. ASSUME NEW i \in 1 .. n - 1, NEW s \in good[i - 1]
      PROVE  s \o SingleIndexes[i + 1] \in good[i]
    <2>1. i \in 0 .. n - 1 /\ i - 1 \in 0 .. n - 1 /\ i + 1 \in 1 .. n /\ (i - 1) + 1 = i /\ (i + 1) - 1 = i
        BY <1>1
    <2>2. s \in Seq(FS) /\ ToSet(s) = held(i) /\ Len(s) = Cardinality(held(i))
        BY <2>1
    <2>3. SingleIndexes[i + 1] \in Seq(FS)
        BY <1>1, <2>1
    <2>4. /\ held(i + 1) = held(i) \cup ToSet(SingleIndexes[i + 1])
          /\ Cardinality(held(i + 1)) = Cardinality(held(i)) + Len(SingleIndexes[i + 1])
        BY <1>3, <2>1
    <2> DEFINE u == s \o SingleIndexes[i + 1]
    <2>5. u \in Seq(FS) /\ Len(u) = Len(s) + Len(SingleIndexes[i + 1]) /\ ToSet(u) = ToSet(s) \cup ToSet(SingleIndexes[i + 1])
        <3>1. \A x, y \in Seq(FS) :
                 x \o y \in Seq(FS) /\ Len(x \o y) = Len(x) + Len(y) /\ ToSet(x \o y) = ToSet(x) \cup ToSet(y)
            BY JoinedAre
        <3> QED  BY <2>2, <2>3, <3>1, Zenon
    <2> HIDE DEF u
    <2>6. u \in good[i]
        BY <2>1, <2>2, <2>4, <2>5
    <2> QED  BY <2>6 DEF u
<1>6. \A i \in 1 .. n - 1 : \A s \in good[i - 1] :
         step[i][s] = s \o SingleIndexes[i + 1]
    <2> HIDE DEF good
    <2> QED  OBVIOUS
<1> HIDE DEF good, step
<1>7. \A i \in 1 .. n - 1 : \A s \in good[i - 1] : step[i][s] \in good[i]
    BY <1>5, <1>6
<1>8. PICK f : Follows(f, n - 1, SingleIndexes[1], step) /\ \A i \in 0 .. n - 1 : f[i] \in good[i]
    <2>1. n - 1 \in Nat
        BY <1>1
    <2> QED  BY <2>1, <1>4, <1>7, RecursionExists
<1> DEFINE g == [i \in 1 .. n |-> f[i - 1]]
<1>9. g = [i \in 1 .. n |-> body(g, i)]
    <2>1. ASSUME NEW i \in 1 .. n PROVE g[i] = body(g, i)
        <3>1. CASE i = 1
            <4>1. 0 \in 0 .. n - 1 /\ i - 1 = 0
                BY <1>1, <3>1
            <4>2. f[0] = SingleIndexes[1]
                BY <1>8, <4>1 DEF Follows
            <4> QED  BY <3>1, <4>1, <4>2
        <3>2. CASE i # 1
            <4>1. i - 1 \in 1 .. n - 1 /\ i - 1 \in 0 .. n - 1 /\ i - 1 # 0 /\ (i - 1) - 1 \in 0 .. n - 1
                  /\ i - 1 \in 1 .. n /\ (i - 1) + 1 = i
                BY <1>1, <3>2
            <4>2. f[i - 1] = step[i - 1][f[(i - 1) - 1]]
                BY <1>8, <4>1 DEF Follows
            <4>3. f[(i - 1) - 1] \in good[(i - 1) - 1]
                BY <1>8, <4>1
            <4>4. f[i - 1] = f[(i - 1) - 1] \o SingleIndexes[i]
                BY <1>6, <4>1, <4>2, <4>3
            <4>5. g[i - 1] = f[(i - 1) - 1] /\ g[i] = f[i - 1]
                BY <4>1
            <4> HIDE DEF g
            <4> QED  BY <3>2, <4>4, <4>5
        <3> QED  BY <3>1, <3>2
    <2>2. g = [i \in 1 .. n |-> g[i]]
        OBVIOUS
    <2> HIDE DEF g, body
    <2> QED  BY <2>1, <2>2
<1>10. flatten = [i \in 1 .. n |-> body(flatten, i)]
    <2> HIDE DEF body, g
    <2> QED  BY <1>9
<1> HIDE DEF flatten, g
<1>11. \A i \in 1 .. n : flatten[i] = body(flatten, i)
    <2> HIDE DEF body
    <2> QED  BY <1>10
<1> DEFINE kept == {i \in 0 .. n - 1 : flatten[i + 1] \in good[i]}
<1>12. 0 \in kept
    <2>1. 1 \in 1 .. n /\ 0 \in 0 .. n - 1 /\ 0 + 1 = 1
        BY <1>1
    <2>2. flatten[1] = SingleIndexes[1]
        BY <2>1, <1>11
    <2> QED  BY <2>1, <2>2, <1>4
<1>13. ASSUME NEW i \in 1 .. n - 1, i - 1 \in kept PROVE i \in kept
    <2>1. i \in 0 .. n - 1 /\ i + 1 \in 1 .. n /\ i + 1 # 1 /\ (i + 1) - 1 = i /\ (i - 1) + 1 = i
        BY <1>1
    <2>2. flatten[i] \in good[i - 1]
        BY <2>1, <1>13
    <2>3. flatten[i + 1] = flatten[i] \o SingleIndexes[i + 1]
        BY <2>1, <1>11
    <2> QED  BY <2>1, <2>2, <2>3, <1>5
<1>14. n - 1 \in kept
    <2>1. n - 1 \in Nat /\ n - 1 \in 0 .. n - 1
        BY <1>1
    <2> HIDE DEF kept
    <2> QED  BY <2>1, <1>12, <1>13, UpTo
<1>15. flatten[n] \in Seq(FS) /\ ToSet(flatten[n]) = Held /\ Len(flatten[n]) = Cardinality(Held)
    <2>1. n - 1 \in 0 .. n - 1 /\ (n - 1) + 1 = n
        BY <1>1
    <2>2. flatten[n] \in good[n - 1]
        BY <2>1, <1>14
    <2> QED  BY <2>1, <2>2, <1>3 DEF good
<1> QED  BY <1>2, <1>15, SizeIsExact DEF Fills

\* A finite set of numbers can be listed from the least to the greatest.
LEMMA AscendingLists ==
    ASSUME NEW S \in SUBSET Nat, IsFiniteSet(S)
    PROVE  /\ Ascending(S) \in [1 .. Cardinality(S) -> S]
           /\ \A i, j \in 1 .. Cardinality(S) : i < j => Ascending(S)[i] < Ascending(S)[j]
           /\ \A x \in S : \E i \in 1 .. Cardinality(S) : Ascending(S)[i] = x
<1> DEFINE n == Cardinality(S)
           is(s) == \A i, j \in DOMAIN s : i < j => s[i] < s[j]
<1>1. n \in Nat
    BY FS_CardinalityType
<1>2. PICK e \in Bijection(1 .. n, S) : TRUE
    BY FS_CardinalityType DEF ExistsBijection
<1> HIDE DEF n
<1>3. /\ e \in [1 .. n -> S] /\ \A i, j \in 1 .. n : e[i] = e[j] => i = j
      /\ \A i \in 1 .. n : e[i] \in Nat
    <2>1. e \in [1 .. n -> S]
        BY DEF Bijection, Injection
    <2>2. \A i, j \in 1 .. n : e[i] = e[j] => i = j
        BY <2>1 DEF Bijection, Injection, IsInjective
    <2> QED  BY <2>1, <2>2
<1> DEFINE R == {ij \in (1 .. n) \X (1 .. n) : e[ij[1]] < e[ij[2]]}
<1>4. \A i, j \in 1 .. n : <<i, j>> \in R <=> e[i] < e[j]
    OBVIOUS
<1>5. StrictOrder(R, n)
    <2>1. \A i \in 1 .. n : ~(e[i] < e[i])
        BY <1>3
    <2>2. \A a, b, c \in 1 .. n : e[a] < e[b] /\ e[b] < e[c] => e[a] < e[c]
        <3> SUFFICES ASSUME NEW a \in 1 .. n, NEW b \in 1 .. n, NEW c \in 1 .. n, e[a] < e[b], e[b] < e[c]
                     PROVE  e[a] < e[c]
            OBVIOUS
        <3>1. e[a] \in Nat /\ e[b] \in Nat /\ e[c] \in Nat
            BY <1>3
        <3> QED  BY <3>1
    <2> HIDE DEF R
    <2> QED  BY <1>4, <2>1, <2>2 DEF StrictOrder
<1> HIDE DEF R
<1>6. PICK p \in Bijection(1 .. n, 1 .. n) : \A i, j \in 1 .. n : i < j => <<p[j], p[i]>> \notin R
    BY <1>1, <1>5, CanBeOrdered
<1>7. p \in [1 .. n -> 1 .. n] /\ \A i, j \in 1 .. n : p[i] = p[j] => i = j
    <2>1. p \in [1 .. n -> 1 .. n]
        BY DEF Bijection, Injection
    <2> QED  BY <2>1 DEF Bijection, Injection, IsInjective
<1> DEFINE s == [i \in 1 .. n |-> e[p[i]]]
<1>8. s \in [1 .. n -> S] /\ is(s)
    <2>1. s \in [1 .. n -> S]
        BY <1>3, <1>7
    <2>2. ASSUME NEW i \in 1 .. n, NEW j \in 1 .. n, i < j PROVE s[i] < s[j]
        <3>1. p[i] \in 1 .. n /\ p[j] \in 1 .. n /\ p[i] # p[j]
            BY <1>7, <2>2
        <3>2. ~(e[p[j]] < e[p[i]])
            BY <1>4, <1>6, <2>2, <3>1
        <3>3. e[p[i]] # e[p[j]] /\ e[p[i]] \in Nat /\ e[p[j]] \in Nat
            BY <1>3, <3>1
        <3>4. e[p[i]] < e[p[j]]
            BY <3>2, <3>3
        <3> QED  BY <3>4
    <2>3. DOMAIN s = 1 .. n
        OBVIOUS
    <2> HIDE DEF s
    <2> QED  BY <2>1, <2>2, <2>3
<1> DEFINE a == Ascending(S)
<1>9. a \in [1 .. n -> S] /\ is(a)
    <2>1. a = CHOOSE t \in [1 .. n -> S] : is(t)
        BY DEF Ascending, n
    <2> HIDE DEF is, s, a
    <2> QED  BY <1>8, <2>1
<1> HIDE DEF a, s
<1>10. \A i, j \in 1 .. n : i < j => a[i] < a[j]
    BY <1>9
<1>11. a \in Injection(1 .. n, S)
    <2>1. ASSUME NEW i \in 1 .. n, NEW j \in 1 .. n, i # j PROVE a[i] # a[j]
        <3>1. i < j \/ j < i
            BY <2>1
        <3>2. a[i] \in Nat /\ a[j] \in Nat
            BY <1>9
        <3> QED  BY <3>1, <3>2, <1>10
    <2>2. IsInjective(a)
        BY <2>1, <1>9 DEF IsInjective
    <2> QED  BY <2>2, <1>9 DEF Injection
<1>12. a \in Surjection(1 .. n, S)
    <2>1. Cardinality(1 .. n) = Cardinality(S)
        BY <1>1, FS_Interval DEF n
    <2> QED  BY <1>11, <2>1, FS_Injection
<1>13. \A x \in S : \E i \in 1 .. n : a[i] = x
    BY <1>12 DEF Surjection
<1> QED  BY <1>9, <1>10, <1>13 DEF a, n

\* So the cache of a set index is filled too.
LEMMA AscendingFills ==
    ASSUME Loaded, kind = "set"
    PROVE  Fills(Ascending(Held))
<1> DEFINE n == Cardinality(Held)
           a == Ascending(Held)
<1>1. Held \subseteq FS /\ IsFiniteSet(Held)
    BY ComponentsFit
<1>2. Held \in SUBSET Nat
    BY <1>1, IteratorAssumption
<1>3. n \in Nat
    BY <1>1, FS_CardinalityType
<1>4. a \in [1 .. n -> Held] /\ \A x \in Held : \E i \in 1 .. n : a[i] = x
    BY <1>1, <1>2, AscendingLists
<1> HIDE DEF n, a
<1>5. a \in Seq(FS) /\ Len(a) = n /\ DOMAIN a = 1 .. n
    <2>1. a \in [1 .. n -> FS]
        BY <1>1, <1>4
    <2> QED  BY <2>1, <1>3, FunctionIsSequence
<1>6. ToSet(a) = Held
    BY <1>4, <1>5 DEF ToSet
<1> QED  BY <1>5, <1>6, SizeIsExact DEF Fills, a, n

\* Whatever the kind of the index: its container has each of its structures, and as many.
LEMMA ContainerFills ==
    ASSUME Loaded
    PROVE  Fills(Container)
<1>1. CASE Len(types) = 1
    <2> DEFINE s == single[types[1]]
    <2>1. /\ SingleIndexes \in Seq(Seq(FS)) /\ Len(SingleIndexes) = 1 /\ SingleIndexes[1] = s
          /\ Distinct(SingleIndexes) /\ (kind = "ordered" => Apart(SingleIndexes))
          /\ Held = AllOf(SingleIndexes)
        BY <1>1, ComponentsFit
    <2> HIDE DEF s
    <2>2. DOMAIN SingleIndexes = {1} /\ s \in Seq(FS)
        BY <2>1
    <2>3. IsInjective(s) /\ (kind = "ordered" => Rising(s)) /\ Held = ToSet(s)
        BY <2>1, <2>2 DEF Distinct, Apart, AllOf
    <2>4. Len(s) = GetSize
        BY <2>2, <2>3, PlacesAreMembers, SizeIsExact
    <2>5. Container = s
        BY <1>1 DEF Container, s
    <2> QED  BY <2>2, <2>3, <2>4, <2>5 DEF Fills
<1>2. CASE Len(types) # 1
    <2>1. Container = ClearAndFillCache
        BY <1>2 DEF Container
    <2>2. CASE kind = "ordered"
        BY <2>1, <2>2, MergeFills DEF ClearAndFillCache
    <2>3. CASE kind = "set"
        BY <2>1, <2>3, AscendingFills DEF ClearAndFillCache
    <2>4. CASE kind = "bag"
        BY <2>1, <2>4, FlattenFills DEF ClearAndFillCache
    <2> QED  BY <2>2, <2>3, <2>4 DEF Loaded
<1> QED  BY <1>1, <1>2

\* A single index finds a structure exactly when it holds one that is like it.
LEMMA FindInIs ==
    ASSUME NEW s \in Seq(FS), NEW fs \in FS
    PROVE  FindIn(s, fs) # 0 <=> \E x \in ToSet(s) : IF kind = "bag" THEN x = fs ELSE Compare(fs, x) = 0
<1> DEFINE hit(x) == IF kind = "bag" THEN x = fs ELSE Compare(fs, x) = 0
           at == {i \in DOMAIN s : hit(s[i])}
<1>1. FindIn(s, fs) = IF at = {} THEN 0 ELSE s[CHOOSE i \in at : \A j \in at : i <= j]
    BY DEF FindIn
<1>2. DOMAIN s \subseteq Nat /\ \A i \in DOMAIN s : s[i] \in FS
    OBVIOUS
<1>3. 0 \notin FS
    BY IteratorAssumption
<1>4. (\E x \in ToSet(s) : hit(x)) <=> at # {}
    BY DEF ToSet
<1>5. CASE at = {}
    BY <1>1, <1>4, <1>5
<1>6. CASE at # {}
    <2>1. \E i \in at : \A j \in at : i <= j
        <3>1. at \in SUBSET Nat
            BY <1>2
        <3> HIDE DEF at
        <3> QED  BY <3>1, <1>6, LeastExists
    <2> DEFINE least == CHOOSE i \in at : \A j \in at : i <= j
    <2>2. least \in at
        <3> HIDE DEF at
        <3> QED  BY <2>1
    <2>3. FindIn(s, fs) = s[least]
        BY <1>1, <1>6
    <2> HIDE DEF least
    <2>4. s[least] # 0
        BY <1>2, <1>3, <2>2
    <2> QED  BY <1>4, <1>6, <2>3, <2>4
<1> QED  BY <1>5, <1>6

\* And an index one of whose components does.
LEMMA FindIs ==
    ASSUME Loaded, NEW fs \in FS
    PROVE  Find(fs) # 0 <=> \E x \in Held : IF kind = "bag" THEN x = fs ELSE Compare(fs, x) = 0
<1> DEFINE n == Len(types)
           like(x) == IF kind = "bag" THEN x = fs ELSE Compare(fs, x) = 0
           found == {i \in DOMAIN SingleIndexes : FindIn(SingleIndexes[i], fs) # 0}
<1>1. n \in Nat /\ DOMAIN SingleIndexes = 1 .. n /\ Held = AllOf(SingleIndexes)
    BY ComponentsFit
<1>2. \A i \in 1 .. n : SingleIndexes[i] \in Seq(FS)
    BY ComponentsFit
<1>3. Find(fs) = IF found = {} THEN 0
                 ELSE FindIn(SingleIndexes[CHOOSE i \in found : \A j \in found : i <= j], fs)
    BY DEF Find
<1> HIDE DEF n
<1>4. \A i \in 1 .. n : FindIn(SingleIndexes[i], fs) # 0 <=> \E x \in ToSet(SingleIndexes[i]) : like(x)
    BY <1>2, FindInIs
<1>5. (\E x \in Held : like(x)) <=> found # {}
    <2> HIDE DEF like
    <2> QED  BY <1>1, <1>4 DEF AllOf
<1>6. CASE found = {}
    BY <1>3, <1>5, <1>6
<1>7. CASE found # {}
    <2>1. \E i \in found : \A j \in found : i <= j
        <3>1. found \in SUBSET Nat
            BY <1>1
        <3> HIDE DEF found
        <3> QED  BY <3>1, <1>7, LeastExists
    <2> DEFINE least == CHOOSE i \in found : \A j \in found : i <= j
    <2>2. least \in found
        <3> HIDE DEF found
        <3> QED  BY <2>1
    <2>3. Find(fs) = FindIn(SingleIndexes[least], fs)
        BY <1>3, <1>7
    <2> HIDE DEF least
    <2>4. FindIn(SingleIndexes[least], fs) # 0
        BY <2>2
    <2> QED  BY <1>5, <1>7, <2>3, <2>4
<1> QED  BY <1>6, <1>7

\* In the order of an annotation index the search for what covers an annotation stops in the right
\* place.
LEMMA CoveringIs ==
    ASSUME NEW s \in Seq(FS), Rising(s), NEW an \in FS
    PROVE  LET found == FirstCoveringAnnotation(s, an)
               others == {x \in ToSet(s) : FSType[x] # FSType[an] /\ Covers(x, an)}
           IN IF found = 0 THEN others = {}
              ELSE found \in others /\ \A x \in others : BeginPosition[x] <= BeginPosition[found]
<1> DEFINE found == FirstCoveringAnnotation(s, an)
           others == {x \in ToSet(s) : FSType[x] # FSType[an] /\ Covers(x, an)}
           behind == {i \in DOMAIN s : BeginPosition[s[i]] > BeginPosition[an]}
           covering == {i \in DOMAIN s : /\ Covers(s[i], an) /\ FSType[s[i]] # FSType[an]
                                         /\ \A j \in behind : i < j}
           n == Len(s)
<1>1. n \in Nat /\ DOMAIN s = 1 .. n /\ \A i \in 1 .. n : s[i] \in FS
    OBVIOUS
<1>2. found = IF covering = {} THEN 0 ELSE s[CHOOSE i \in covering : \A j \in covering : j <= i]
    BY DEF FirstCoveringAnnotation
<1>3. \A x \in FS : BeginPosition[x] \in Nat /\ Key[x] \in Int /\ x # 0
    BY SpanAssumption, IteratorAssumption
<1> HIDE DEF n
<1>4. ASSUME NEW i \in 1 .. n, NEW j \in 1 .. n, BeginPosition[s[i]] < BeginPosition[s[j]]
      PROVE  i < j
    <2>1. s[i] \in FS /\ s[j] \in FS
        BY <1>1
    <2>2. Key[s[i]] < Key[s[j]]
        BY <2>1, <1>4, SpanAssumption
    <2>3. ~(j < i) /\ i # j
        <3>1. j < i => Key[s[j]] <= Key[s[i]]
            BY <1>1 DEF Rising
        <3>2. Key[s[i]] \in Int /\ Key[s[j]] \in Int
            BY <1>3, <2>1
        <3> QED  BY <2>2, <3>1, <3>2
    <2> QED  BY <2>3, <1>1
<1>5. covering = {i \in 1 .. n : s[i] \in others}
    <2>1. ASSUME NEW i \in 1 .. n, s[i] \in others, NEW j \in behind PROVE i < j
        <3>1. BeginPosition[s[i]] <= BeginPosition[an]
            BY <2>1 DEF Covers
        <3>2. j \in 1 .. n /\ BeginPosition[s[j]] > BeginPosition[an]
            BY <1>1
        <3>3. BeginPosition[s[i]] \in Nat /\ BeginPosition[s[j]] \in Nat /\ BeginPosition[an] \in Nat
            BY <1>1, <1>3, <3>2
        <3>4. BeginPosition[s[i]] < BeginPosition[s[j]]
            BY <3>1, <3>2, <3>3
        <3> QED  BY <3>2, <3>4, <1>4
    <2>2. \A i \in 1 .. n : s[i] \in ToSet(s)
        BY <1>1 DEF ToSet
    <2> HIDE DEF behind
    <2> QED  BY <2>1, <2>2, <1>1
<1>6. \A x \in others : \E i \in covering : x = s[i]
    <2>1. \A x \in ToSet(s) : \E i \in 1 .. n : x = s[i]
        BY <1>1 DEF ToSet
    <2> HIDE DEF covering
    <2> QED  BY <2>1, <1>5
<1>7. CASE covering = {}
    <2> HIDE DEF covering
    <2> QED  BY <1>2, <1>6, <1>7
<1>8. CASE covering # {}
    <2> DEFINE last == CHOOSE i \in covering : \A j \in covering : j <= i
    <2>1. last \in covering /\ \A j \in covering : j <= last
        <3>1. covering \in SUBSET (0 .. n)
            BY <1>1, <1>5
        <3> HIDE DEF covering
        <3> QED  BY <1>1, <1>8, <3>1, GreatestExists
    <2>2. found = s[last]
        <3> HIDE DEF covering
        <3> QED  BY <1>2, <1>8
    <2> HIDE DEF last, covering
    <2>3. last \in 1 .. n /\ s[last] \in others /\ s[last] \in FS /\ found # 0
        BY <1>1, <1>3, <1>5, <2>1, <2>2
    <2>4. ASSUME NEW x \in others PROVE BeginPosition[x] <= BeginPosition[found]
        <3>1. PICK i \in covering : x = s[i]
            BY <1>6
        <3>2. i \in 1 .. n /\ ~(last < i) /\ x \in FS
            BY <1>1, <1>5, <2>1, <2>3, <3>1
        <3>3. ~(BeginPosition[s[last]] < BeginPosition[s[i]])
            BY <1>4, <2>3, <3>2
        <3>4. BeginPosition[s[last]] \in Nat /\ BeginPosition[s[i]] \in Nat
            BY <1>1, <1>3, <2>3, <3>2
        <3> QED  BY <3>1, <3>3, <3>4, <2>2
    <2> QED  BY <2>2, <2>3, <2>4
<1> QED  BY <1>7, <1>8

-----------------------------------------------------------------------------
(* The invariant *)

\* What an iterator walks over: nothing before it is made, then all of the index.
IteratorFits ==
    /\ Loaded
    /\ seq \in Seq(FS)
    /\ kind = "ordered" => Rising(seq)
    /\ pos # 0 \/ walk # "plain" => ToSet(seq) = Held /\ Len(seq) = Cardinality(Held)

\* It holds of every index that can be made, ...
LEMMA IteratorInitFits == IteratorInit /\ SubInit => IteratorFits
<1> SUFFICES ASSUME IteratorInit, SubInit PROVE IteratorFits
    OBVIOUS
<1>1. Loaded
    BY DEF IteratorInit, Loaded
<1>2. seq = << >> /\ pos = 0 /\ walk = "plain"
    BY DEF IteratorInit, SubInit
<1>3. << >> \in Seq(FS) /\ Rising(<< >>)
    BY DEF Rising
<1> QED  BY <1>1, <1>2, <1>3 DEF IteratorFits

\* Whoever makes an iterator gets the container of the index.
LEMMA IteratorStepFits == IteratorFits /\ [PlainNext \/ SubIteratorNext]_<<iteratorVars, subVars>> => IteratorFits'
<1> SUFFICES ASSUME IteratorFits, [PlainNext \/ SubIteratorNext]_<<iteratorVars, subVars>>
             PROVE  IteratorFits'
    OBVIOUS
<1>1. ASSUME Constant PROVE Loaded' /\ Held' = Held /\ kind' = kind
    BY <1>1 DEF Constant, IteratorFits, Loaded, Held
<1>2. ASSUME Constant, seq' = Container PROVE IteratorFits'
    <2>1. Fills(Container) /\ IsFiniteSet(Held)
        BY ContainerFills, ComponentsFit DEF IteratorFits
    <2>2. Container \in Seq(FS) /\ (kind = "ordered" => Rising(Container)) /\ ToSet(Container) = Held
          /\ Len(Container) = Cardinality(Held)
        BY <2>1, SizeIsExact DEF Fills, IteratorFits
    <2> QED  BY <1>1, <1>2, <2>2 DEF IteratorFits, Rising
<1>3. ASSUME Constant, seq' = seq, pos' # 0 \/ walk' # "plain" => pos # 0 \/ walk # "plain" PROVE IteratorFits'
    BY <1>1, <1>3 DEF IteratorFits, Rising
<1>4. ASSUME NEW p, Moves(p), pos # 0 \/ walk # "plain" PROVE IteratorFits'
    BY <1>3, <1>4 DEF Moves
<1>5. CASE PlainNext
    <2>1. ASSUME NEW f, NEW b, CreateIterator(f, b) PROVE IteratorFits'
        BY <1>2, <2>1 DEF CreateIterator
    <2>2. IsValid => pos # 0
        BY DEF IsValid
    <2>3. ASSUME NEW fs \in FS, MoveTo(fs) PROVE IteratorFits'
        BY <2>3, <1>4 DEF MoveTo
    <2>4. CASE MoveToFirst \/ MoveToLast
        BY <2>4, <1>4 DEF MoveToFirst, MoveToLast
    <2>5. CASE MoveToNext \/ MoveToPrevious
        BY <2>2, <2>5, <1>4 DEF MoveToNext, MoveToPrevious
    <2>6. CASE PeekNext
        BY <2>2, <2>6, <1>4 DEF PeekNext
    <2>7. CASE PeekPrevious
        BY <2>2, <2>7, <1>4 DEF PeekPrevious
    <2> QED  BY <1>5, <2>1, <2>3, <2>4, <2>5, <2>6, <2>7
             DEF PlainNext, IteratorNext, TypeSetIterator, FilteredIterator
<1>6. CASE SubIteratorNext
    <2>1. ASSUME NEW an, NEW w, CreateSubIterator(an, w) PROVE IteratorFits'
        BY <1>2, <2>1 DEF CreateSubIterator, Constant
    <2>2. Walking => walk # "plain"
        BY DEF Walking
    <2>3. CASE SubMoveToFirst
        BY <2>2, <2>3, <1>4 DEF SubMoveToFirst
    <2>4. CASE SubMoveToNext
        BY <2>2, <2>4, <1>4 DEF SubMoveToNext
    <2>5. CASE SubMoveToLast
        BY <2>2, <2>5, <1>4 DEF SubMoveToLast
    <2>6. CASE SubMoveToPrevious
        BY <2>2, <2>6, <1>4 DEF SubMoveToPrevious
    <2>7. ASSUME NEW fs, SubMoveTo(fs) PROVE IteratorFits'
        BY <2>2, <2>7, <1>4 DEF SubMoveTo
    <2> QED  BY <1>6, <2>1, <2>3, <2>4, <2>5, <2>6, <2>7 DEF SubIteratorNext
<1>7. CASE UNCHANGED <<iteratorVars, subVars>>
    <2>1. Constant /\ seq' = seq /\ pos' = pos /\ walk' = walk
        BY <1>7 DEF iteratorVars, subVars, Constant
    <2> QED  BY <2>1, <1>3
<1> QED  BY <1>5, <1>6, <1>7

\* ... and says that the index is read as it should.
LEMMA FitsIsRead == IteratorFits => IndexesRead
<1> SUFFICES ASSUME IteratorFits PROVE IndexesRead
    OBVIOUS
<1>1. IndexesReadAlike
    <2> SUFFICES ASSUME pos # 0
                 PROVE  /\ ToSet(seq) = Held /\ Len(seq) = GetSize
                        /\ kind = "ordered" => \A i, j \in DOMAIN seq : i < j => Compare(seq[i], seq[j]) >= 0
                        /\ \A fs \in FS : Find(fs) # 0 <=>
                              \E x \in Held : IF kind = "bag" THEN x = fs ELSE Compare(fs, x) = 0
        BY DEF IndexesReadAlike
    <2>1. ToSet(seq) = Held /\ Len(seq) = GetSize
        BY SizeIsExact DEF IteratorFits
    <2>2. ASSUME kind = "ordered", NEW i \in DOMAIN seq, NEW j \in DOMAIN seq, i < j
          PROVE  Compare(seq[i], seq[j]) >= 0
        <3>1. seq[i] \in FS /\ seq[j] \in FS
            BY DEF IteratorFits
        <3>2. Key[seq[i]] \in Int /\ Key[seq[j]] \in Int /\ Key[seq[i]] <= Key[seq[j]]
            BY <3>1, <2>2, IteratorAssumption DEF IteratorFits, Rising
        <3> QED  BY <3>2 DEF Compare
    <2>3. \A fs \in FS : Find(fs) # 0 <=>
             \E x \in Held : IF kind = "bag" THEN x = fs ELSE Compare(fs, x) = 0
        BY FindIs DEF IteratorFits
    <2> QED  BY <2>1, <2>2, <2>3
<1>2. CoveringIsNearest
    <2>1. kind = "ordered" => seq \in Seq(FS) /\ Rising(seq)
        BY DEF IteratorFits
    <2> QED  BY <2>1, CoveringIs DEF CoveringIsNearest
<1> QED  BY <1>1, <1>2 DEF IndexesRead

\* However many types and structures an index has, in whatever order they came and whatever the
\* comparator says of them: its readers get each structure once, an ordered index merges its
\* components by the comparator (OrderedCompositeIndex::clearAndFillCache() in
\* lowlevel_internal_indexes.cpp), find() answers when there is something to find, and
\* getFirstCoveringAnnotation() (cas.cpp) gives the nearest.
THEOREM IndexesAreRead == IteratorSpec => []IndexesRead
<1>1. IteratorSpec => []IteratorFits
    BY IteratorInitFits, IteratorStepFits, PTL DEF IteratorSpec
<1> QED  BY <1>1, FitsIsRead, PTL

-----------------------------------------------------------------------------
(* Places of an iterator *)

\* A sequence with as many members as places has each member once.
LEMMA EachOnce ==
    ASSUME NEW s \in Seq(FS), Cardinality(ToSet(s)) = Len(s)
    PROVE  IsInjective(s)
<1>1. Len(s) \in Nat /\ DOMAIN s = 1 .. Len(s) /\ ToSet(s) = {s[i] : i \in 1 .. Len(s)}
    BY DEF ToSet
<1>2. IsFiniteSet(1 .. Len(s)) /\ Cardinality(1 .. Len(s)) = Len(s)
    <2>1. PICK n \in Nat : n = Len(s)
        BY <1>1
    <2>2. 1 \in Int /\ n \in Int
        OBVIOUS
    <2>3. IsFiniteSet(1 .. n) /\ Cardinality(1 .. n) = IF 1 > n THEN 0 ELSE n - 1 + 1
        BY <2>2, FS_Interval, Zenon
    <2>4. Cardinality(1 .. n) = n
        BY <2>3
    <2> QED  BY <2>1, <2>3, <2>4
<1>3. s \in Surjection(1 .. Len(s), ToSet(s))
    <2>1. s \in [1 .. Len(s) -> ToSet(s)]
        <3>1. s \in [1 .. Len(s) -> FS]
            BY LenProperties
        <3>2. \A i \in 1 .. Len(s) : s[i] \in ToSet(s)
            BY <1>1
        <3> QED  BY <3>1, <3>2
    <2>2. \A x \in ToSet(s) : \E i \in 1 .. Len(s) : s[i] = x
        BY <1>1
    <2> QED  BY <2>1, <2>2 DEF Surjection
<1>4. s \in Injection(1 .. Len(s), ToSet(s))
    BY <1>2, <1>3, FS_SurjSameCardinalityImpliesInj
<1> QED  BY <1>1, <1>4 DEF Injection, IsInjective

\* The least and the greatest of some places are what they are called.
LEMMA LeastIs ==
    ASSUME Len(seq) \in Nat, NEW S \in SUBSET (1 .. Len(seq)), S # {}
    PROVE  /\ Least(S) \in S /\ \A j \in S : Least(S) <= j
           /\ \A i \in S : (\A j \in S : i <= j) => Least(S) = i
<1>1. PICK i \in S : \A j \in S : i <= j
    <2>1. S \in SUBSET Nat
        OBVIOUS
    <2> QED  BY <2>1, LeastExists
<1>2. Least(S) \in S /\ \A j \in S : Least(S) <= j
    BY <1>1 DEF Least
<1>3. ASSUME NEW k \in S, \A j \in S : k <= j PROVE Least(S) = k
    <2>1. PICK l \in S : l = Least(S)
        BY <1>2
    <2>2. l <= k /\ k <= l /\ k \in Nat /\ l \in Nat
        BY <1>2, <1>3, <2>1
    <2> QED  BY <2>1, <2>2
<1> QED  BY <1>2, <1>3

\* The greatest of some places.
LEMMA GreatestIs ==
    ASSUME Len(seq) \in Nat, NEW S \in SUBSET (1 .. Len(seq)), S # {}
    PROVE  /\ Greatest(S) \in S /\ \A j \in S : j <= Greatest(S)
           /\ \A i \in S : (\A j \in S : j <= i) => Greatest(S) = i
<1>1. PICK i \in S : \A j \in S : j <= i
    <2>1. S \in SUBSET (0 .. Len(seq))
        OBVIOUS
    <2> QED  BY <2>1, GreatestExists
<1>2. Greatest(S) \in S /\ \A j \in S : j <= Greatest(S)
    BY <1>1 DEF Greatest
<1>3. ASSUME NEW k \in S, \A j \in S : j <= k PROVE Greatest(S) = k
    <2>1. PICK l \in S : l = Greatest(S)
        BY <1>2
    <2>2. l <= k /\ k <= l /\ k \in Nat /\ l \in Nat
        BY <1>2, <1>3, <2>1
    <2> QED  BY <2>1, <2>2
<1> QED  BY <1>2, <1>3

\* The places that an iterator does not skip
Stopping == {i \in DOMAIN seq : Stops(seq[i])}

\* Skipping leads to the next of them, ...
LEMMA ForwardIs ==
    ASSUME seq \in Seq(FS), NEW p \in Nat \ {0}
    PROVE  /\ SkipForward(p) = Least({i \in Stopping : i >= p})
           /\ SkipForward(p) \in 1 .. End
<1> DEFINE S == {i \in Stopping : i >= p}
<1>1. Len(seq) \in Nat /\ DOMAIN seq = 1 .. Len(seq)
    OBVIOUS
<1>2. S \in SUBSET (1 .. Len(seq)) /\ S = {q \in p .. Len(seq) : Stops(seq[q])}
    BY <1>1 DEF Stopping
<1>3. CASE S = {}
    <2>1. SkipForward(p) = End
        BY <1>2, <1>3 DEF SkipForward
    <2>2. Least(S) = End
        BY <1>3 DEF Least
    <2> QED  BY <2>1, <2>2, <1>1 DEF End
<1>4. CASE S # {}
    <2>1. PICK l : l = Least(S)
        OBVIOUS
    <2>2. l \in S /\ \A j \in S : l <= j
        BY <2>1, <1>1, <1>2, <1>4, LeastIs
    <2> DEFINE at(q) == Stops(seq[q]) /\ \A r \in p .. q - 1 : ~Stops(seq[r])
    <2>3. l \in p .. Len(seq) /\ at(l)
        <3>1. l \in p .. Len(seq) /\ Stops(seq[l])
            BY <1>2, <2>2
        <3>2. ASSUME NEW r \in p .. l - 1, Stops(seq[r]) PROVE FALSE
            <4>1. r \in p .. Len(seq)
                BY <1>1, <3>1, <3>2
            <4>2. r \in S /\ r < l
                BY <1>2, <4>1, <3>1, <3>2
            <4> QED  BY <4>2, <2>2, <3>1
        <3> QED  BY <3>1, <3>2
    <2>4. ASSUME NEW q \in p .. Len(seq), at(q) PROVE q = l
        <3>1. q \in S /\ l <= q
            BY <1>2, <2>2, <2>4
        <3>2. ~(l < q)
            <4>1. l < q => l \in p .. q - 1
                BY <2>3, <2>4, <1>1
            <4> QED  BY <4>1, <2>3, <2>4
        <3> QED  BY <3>1, <3>2, <2>3
    <2>5. SkipForward(p) = l
        <3>1. SkipForward(p) = CHOOSE q \in p .. Len(seq) : at(q)
            BY <2>3 DEF SkipForward
        <3> HIDE DEF at
        <3> QED  BY <3>1, <2>3, <2>4
    <2>6. l \in 1 .. End
        BY <2>3, <1>1 DEF End
    <2> QED  BY <2>1, <2>5, <2>6
<1> QED  BY <1>3, <1>4

\* ... or to the one before.
LEMMA BackwardIs ==
    ASSUME seq \in Seq(FS)
    PROVE  /\ \A p \in 1 .. Len(seq) : /\ SkipBackward(p) = Greatest({i \in Stopping : i <= p})
                                       /\ SkipBackward(p) \in 1 .. End
           /\ SkipBackward(End) = End /\ End \in Nat \ {0}
<1>1. Len(seq) \in Nat /\ DOMAIN seq = 1 .. Len(seq)
    OBVIOUS
<1>2. SkipBackward(End) = End /\ End \in Nat \ {0}
    BY <1>1 DEF SkipBackward, End
<1>3. ASSUME NEW p \in 1 .. Len(seq)
      PROVE  /\ SkipBackward(p) = Greatest({i \in Stopping : i <= p})
             /\ SkipBackward(p) \in 1 .. End
    <2> DEFINE S == {i \in Stopping : i <= p}
    <2>1. S \in SUBSET (1 .. Len(seq)) /\ S = {q \in 1 .. p : Stops(seq[q])} /\ p # End
        BY <1>1, <1>3 DEF Stopping, End
    <2>2. CASE S = {}
        <3>1. SkipBackward(p) = End
            BY <2>1, <2>2 DEF SkipBackward
        <3>2. Greatest(S) = End
            BY <2>2 DEF Greatest
        <3> QED  BY <3>1, <3>2, <1>2
    <2>3. CASE S # {}
        <3>1. PICK l : l = Greatest(S)
            OBVIOUS
        <3>2. l \in S /\ \A j \in S : j <= l
            BY <3>1, <1>1, <2>1, <2>3, GreatestIs
        <3> DEFINE at(q) == Stops(seq[q]) /\ \A r \in q + 1 .. p : ~Stops(seq[r])
        <3>3. l \in 1 .. p /\ at(l)
            <4>1. l \in 1 .. p /\ Stops(seq[l])
                BY <2>1, <3>2
            <4>2. ASSUME NEW r \in l + 1 .. p, Stops(seq[r]) PROVE FALSE
                <5>1. r \in 1 .. p
                    BY <1>1, <4>1, <4>2
                <5>2. r \in S /\ l < r
                    BY <2>1, <5>1, <4>1, <4>2
                <5> QED  BY <5>2, <3>2, <4>1
            <4> QED  BY <4>1, <4>2
        <3>4. ASSUME NEW q \in 1 .. p, at(q) PROVE q = l
            <4>1. q \in S /\ q <= l
                BY <2>1, <3>2, <3>4
            <4>2. ~(q < l)
                <5>1. q < l => l \in q + 1 .. p
                    BY <3>3, <3>4, <1>1
                <5> QED  BY <5>1, <3>3, <3>4
            <4> QED  BY <4>1, <4>2, <3>3
        <3>5. SkipBackward(p) = l
            <4>1. SkipBackward(p) = CHOOSE q \in 1 .. p : at(q)
                BY <2>1, <3>3 DEF SkipBackward
            <4> HIDE DEF at
            <4> QED  BY <4>1, <3>3, <3>4
        <3>6. l \in 1 .. End
            BY <3>3, <1>1, <1>3 DEF End
        <3> QED  BY <3>1, <3>5, <3>6
    <2> QED  BY <2>2, <2>3
<1> QED  BY <1>2, <1>3

\* The binary search stops at the least place that none of rank below fs is at or behind.
LEMMA LowerBoundIs ==
    ASSUME seq \in Seq(FS), NEW fs \in FS
    PROVE  /\ LowerBound(fs) \in 1 .. End
           /\ Rising(seq) => /\ \A i \in 1 .. LowerBound(fs) - 1 : Key[seq[i]] < Key[fs]
                             /\ \A i \in LowerBound(fs) .. Len(seq) : Key[seq[i]] >= Key[fs]
<1> DEFINE n == Len(seq)
           start == [first |-> 1, len |-> n]
           next(s) == LET half == s.len \div 2
                      IN  IF s.len = 0 THEN s
                          ELSE IF Compare(seq[s.first + half], fs) > 0
                          THEN [first |-> s.first + half + 1, len |-> s.len - half - 1]
                          ELSE [s EXCEPT !.len = half]
           body(f, i) == IF i = 0 THEN start ELSE next(f[i - 1])
           before(a) == Rising(seq) => \A j \in 1 .. a - 1 : Key[seq[j]] < Key[fs]
           behind(a) == Rising(seq) => \A j \in a .. n : Key[seq[j]] >= Key[fs]
           search == CHOOSE f : f = [i \in 0 .. n |-> body(f, i)]
           good == [i \in 0 .. n |->
                      {s \in [first : 1 .. n + 1, len : 0 .. n] :
                          /\ s.first + s.len <= n + 1 /\ s.len <= n - i
                          /\ before(s.first) /\ behind(s.first + s.len)}]
           step == [i \in 1 .. n |-> [s \in good[i - 1] |-> next(s)]]
<1>1. /\ n \in Nat /\ End = n + 1 /\ Key[fs] \in Int
      /\ \A i \in 1 .. n : seq[i] \in FS /\ Key[seq[i]] \in Int
      /\ Rising(seq) => \A i, j \in 1 .. n : i < j => Key[seq[i]] <= Key[seq[j]]
    <2>1. n \in Nat /\ DOMAIN seq = 1 .. n /\ End = n + 1 /\ \A i \in 1 .. n : seq[i] \in FS
        BY DEF End
    <2>2. \A x \in FS : Key[x] \in Int
        BY IteratorAssumption
    <2> HIDE DEF n
    <2> QED  BY <2>1, <2>2 DEF Rising
<1>2. LowerBound(fs) = search[n].first
    BY DEF LowerBound
<1> HIDE DEF n
<1>3. start \in good[0]
    BY <1>1
<1>4. ASSUME NEW i \in 1 .. n, NEW s \in good[i - 1] PROVE next(s) \in good[i]
    <2>1. i \in 0 .. n /\ i - 1 \in 0 .. n
        BY <1>1
    <2>2. /\ s \in [first : 1 .. n + 1, len : 0 .. n]
          /\ s.first + s.len <= n + 1 /\ s.len <= n - (i - 1)
          /\ before(s.first) /\ behind(s.first + s.len)
        BY <2>1
    <2> HIDE DEF good, before, behind
    <2>3. PICK a \in 1 .. n + 1, l \in 0 .. n : a = s.first /\ l = s.len /\ s = [first |-> a, len |-> l]
        BY <2>2
    <2>4. PICK half \in Nat : half = l \div 2
        BY <2>3, <1>1
    <2>5. a + l <= n + 1 /\ l <= n - i + 1
        BY <2>2, <2>3, <1>1
    <2>6. ASSUME NEW b \in 1 .. n + 1, NEW m \in 0 .. n, b + m <= n + 1, m <= n - i,
                 before(b), behind(b + m)
          PROVE  [first |-> b, len |-> m] \in good[i]
        BY <2>1, <2>6 DEF good
    <2>7. CASE l = 0
        <3>1. next(s) = [first |-> a, len |-> l]
            BY <2>3, <2>7
        <3>2. l <= n - i
            BY <2>1, <2>7, <1>1
        <3>3. before(a) /\ behind(a + l)
            BY <2>2, <2>3
        <3> HIDE DEF next
        <3> QED  BY <3>1, <3>2, <3>3, <2>5, <2>6
    <2>8. CASE l # 0
        <3>1. half < l /\ a + half \in 1 .. n
            BY <2>3, <2>4, <2>5, <2>8, <1>1
        <3> DEFINE mid == seq[a + half]
        <3>2. Key[mid] \in Int /\ seq[s.first + s.len \div 2] = mid
            BY <2>3, <2>4, <3>1, <1>1
        <3>3. PICK c \in 1 .. n : c = a + half
            BY <3>1
        <3>4. a \in Nat /\ l \in Nat /\ half \in Nat /\ i \in Nat /\ n \in Nat
            BY <1>1, <2>3, <2>4
        <3> HIDE DEF mid
        <3>5. CASE Compare(mid, fs) > 0
            <4>1. Key[mid] < Key[fs]
                BY <3>2, <3>5, <1>1 DEF Compare
            <4>2. next(s) = [first |-> a + half + 1, len |-> l - half - 1]
                BY <2>3, <2>4, <2>8, <3>2, <3>5
            <4>3. a + half + 1 \in 1 .. n + 1 /\ l - half - 1 \in 0 .. n /\ l - half - 1 <= n - i
                <5>1. l - half - 1 <= n - i /\ l - half - 1 >= 0 /\ l - half - 1 <= n
                    BY <2>5, <3>1, <3>4
                <5> QED  BY <5>1, <3>1, <3>4
            <4>4. a + half + 1 + (l - half - 1) = a + l
                BY <3>4
            <4>5. before(a + half + 1)
                <5>1. ASSUME Rising(seq), NEW j \in 1 .. a + half + 1 - 1 PROVE Key[seq[j]] < Key[fs]
                    <6>1. j \in 1 .. n /\ (j = c \/ j < c)
                        BY <3>3, <3>1, <3>4, <5>1
                    <6>2. Key[seq[j]] \in Int /\ (j < c => Key[seq[j]] <= Key[seq[c]])
                        BY <5>1, <6>1, <1>1
                    <6>3. seq[c] = mid
                        BY <3>3 DEF mid
                    <6> QED  BY <6>1, <6>2, <6>3, <4>1, <3>2, <1>1
                <5> QED  BY <5>1 DEF before
            <4>6. behind(a + half + 1 + (l - half - 1))
                BY <2>2, <2>3, <4>4
            <4> HIDE DEF next
            <4> QED  BY <2>6, <2>5, <4>2, <4>3, <4>4, <4>5, <4>6
        <3>6. CASE ~(Compare(mid, fs) > 0)
            <4>1. Key[mid] >= Key[fs]
                BY <3>2, <3>6, <1>1 DEF Compare
            <4>2. next(s) = [first |-> a, len |-> half]
                BY <2>3, <2>4, <2>8, <3>2, <3>6
            <4>3. half \in 0 .. n /\ half <= n - i /\ a + half <= n + 1
                <5>1. half <= n /\ half <= n - i
                    BY <2>5, <3>1, <3>4
                <5> QED  BY <5>1, <3>1, <3>4
            <4>4. behind(a + half)
                <5>1. ASSUME Rising(seq), NEW j \in a + half .. n PROVE Key[seq[j]] >= Key[fs]
                    <6>1. j \in 1 .. n /\ (j = c \/ c < j)
                        BY <3>3, <3>1, <3>4, <5>1
                    <6>2. Key[seq[j]] \in Int /\ (c < j => Key[seq[c]] <= Key[seq[j]])
                        BY <5>1, <6>1, <1>1
                    <6>3. seq[c] = mid
                        BY <3>3 DEF mid
                    <6> QED  BY <6>1, <6>2, <6>3, <4>1, <3>2, <1>1
                <5> QED  BY <5>1 DEF behind
            <4>5. before(a)
                BY <2>2, <2>3
            <4> HIDE DEF next
            <4> QED  BY <2>6, <4>2, <4>3, <4>4, <4>5
        <3> QED  BY <3>5, <3>6
    <2> HIDE DEF next
    <2> QED  BY <2>3, <2>7, <2>8
<1>5. \A i \in 1 .. n : \A s \in good[i - 1] : step[i][s] = next(s)
    <2> HIDE DEF good, next
    <2> QED  OBVIOUS
<1> HIDE DEF good, step, start, next, before, behind
<1>6. PICK f : Follows(f, n, start, step) /\ \A i \in 0 .. n : f[i] \in good[i]
    <2>1. \A i \in 1 .. n : \A s \in good[i - 1] : step[i][s] \in good[i]
        BY <1>4, <1>5
    <2> QED  BY <2>1, <1>1, <1>3, RecursionExists
<1>7. f = [i \in 0 .. n |-> body(f, i)]
    <2>1. ASSUME NEW i \in 1 .. n PROVE step[i][f[i - 1]] = body(f, i)
        <3>1. f[i - 1] \in good[i - 1] /\ i # 0
            BY <1>1, <1>6
        <3> QED  BY <1>5, <3>1
    <2>2. \A i \in 0 .. n : i = 0 \/ i \in 1 .. n
        BY <1>1
    <2>3. \A i \in 0 .. n : (IF i = 0 THEN start ELSE step[i][f[i - 1]]) = body(f, i)
        BY <2>1, <2>2
    <2> HIDE DEF body
    <2>4. f = [i \in 0 .. n |-> IF i = 0 THEN start ELSE step[i][f[i - 1]]]
        BY <1>6 DEF Follows
    <2> QED  BY <2>4, <2>3
<1>8. search = [i \in 0 .. n |-> body(search, i)]
    <2> HIDE DEF body
    <2> QED  BY <1>7
<1> HIDE DEF search
<1>9. search[0] = start /\ \A i \in 1 .. n : search[i] = next(search[i - 1])
    <2>1. \A i \in 0 .. n : search[i] = body(search, i)
        <3> HIDE DEF body
        <3> QED  BY <1>8
    <2>2. 0 \in 0 .. n /\ \A i \in 1 .. n : i \in 0 .. n /\ i # 0
        BY <1>1
    <2> QED  BY <2>1, <2>2
<1> DEFINE kept == {i \in 0 .. n : search[i] \in good[i]}
<1>10. 0 \in kept
    BY <1>1, <1>3, <1>9
<1>11. \A i \in 1 .. n : i - 1 \in kept => i \in kept
    BY <1>1, <1>4, <1>9
<1>12. n \in kept
    <2>1. n \in 0 .. n
        BY <1>1
    <2> HIDE DEF kept
    <2> QED  BY <2>1, <1>1, <1>10, <1>11, UpTo
<1>13. PICK s : s = search[n]
    OBVIOUS
<1>14. /\ s \in [first : 1 .. n + 1, len : 0 .. n] /\ s.len <= n - n
       /\ before(s.first) /\ behind(s.first + s.len)
    <2>1. n \in 0 .. n /\ s \in good[n]
        BY <1>12, <1>13
    <2> QED  BY <2>1 DEF good
<1>15. PICK a \in 1 .. n + 1 : a = s.first /\ s.first + s.len = a
    BY <1>1, <1>14
<1>16. LowerBound(fs) = a /\ before(a) /\ behind(a)
    BY <1>2, <1>13, <1>14, <1>15
<1> QED  BY <1>1, <1>15, <1>16 DEF n, before, behind

\* Where moveTo() stands for fs in an ordered index
Stands(fs, a) ==
    /\ a \in 1 .. End
    /\ IF fs \in ToSet(seq) THEN a # End /\ seq[a] = fs
       ELSE /\ \A i \in 1 .. a - 1 : Key[seq[i]] < Key[fs]
            /\ \A i \in a .. Len(seq) : Key[seq[i]] >= Key[fs]

\* There is one such place, and moveTo() finds it; in all indexes it finds a place.
LEMMA PlaceIs ==
    ASSUME seq \in Seq(FS), NEW fs \in FS
    PROVE  /\ kind = "ordered" /\ Rising(seq) => Stands(fs, PlaceOf(fs))
           /\ PlaceOf(fs) \in 1 .. End
<1>1. Len(seq) \in Nat /\ DOMAIN seq = 1 .. Len(seq) /\ End = Len(seq) + 1
    BY DEF End
<1>2. CASE fs \in ToSet(seq)
    <2> DEFINE S == {i \in 1 .. Len(seq) : seq[i] = fs}
    <2>1. S # {} /\ S \in SUBSET Nat
        BY <1>1, <1>2 DEF ToSet
    <2>2. PICK l \in S : \A j \in S : l <= j
        <3> HIDE DEF S
        <3> QED  BY <2>1, LeastExists
    <2> DEFINE at(i) == seq[i] = fs /\ \A j \in 1 .. i - 1 : seq[j] # fs
               c == CHOOSE i \in DOMAIN seq : at(i)
    <2>3. l \in DOMAIN seq /\ at(l)
        <3>1. ASSUME NEW j \in 1 .. l - 1, seq[j] = fs PROVE FALSE
            <4>1. j \in S /\ j < l
                BY <1>1, <2>2, <3>1
            <4> QED  BY <4>1, <2>2, <1>1
        <3> QED  BY <1>1, <2>2, <3>1
    <2>4. c \in DOMAIN seq /\ at(c)
        BY <2>3
    <2>5. PlaceOf(fs) = c + IF kind = "bag" THEN 1 ELSE 0
        BY <1>2 DEF PlaceOf
    <2> HIDE DEF c
    <2> QED  BY <1>1, <1>2, <2>4, <2>5 DEF Stands
<1>3. CASE fs \notin ToSet(seq)
    <2>1. CASE kind = "bag"
        BY <1>1, <1>3, <2>1 DEF PlaceOf
    <2>2. CASE kind # "bag"
        <3>1. PlaceOf(fs) = LowerBound(fs)
            BY <1>3, <2>2 DEF PlaceOf
        <3>2. Rising(seq) => Stands(fs, LowerBound(fs))
            BY <1>3, LowerBoundIs DEF Stands
        <3>3. LowerBound(fs) \in 1 .. End
            BY LowerBoundIs
        <3> QED  BY <3>1, <3>2, <3>3
    <2> QED  BY <2>1, <2>2
<1> QED  BY <1>2, <1>3

\* An iterator that is not one of those over annotations shows what it is to show.
LEMMA PlainWalks ==
    ASSUME seq \in Seq(FS), shown \in [FS -> {"yes", "no", "throws"}], kind = "ordered" => Rising(seq)
    PROVE  WalksShown
<1> SUFFICES ASSUME ~Throwing
             PROVE  /\ MoveToFirst => pos' = Least(Visible)
                    /\ MoveToLast => pos' = Greatest(Visible)
                    /\ MoveToNext => pos' = Least({i \in Visible : i > pos})
                    /\ MoveToPrevious => pos' = Greatest({i \in Visible : i < pos})
                    /\ PeekNext \/ PeekPrevious => pos' = pos \/ pos \notin Visible
                    /\ \A fs \in FS : MoveTo(fs) /\ kind = "ordered" =>
                         \A i \in Visible : IF i < pos' THEN Compare(seq[i], fs) >= 0
                                            ELSE pos' = pos \/ Compare(fs, seq[i]) >= 0
    BY DEF WalksShown
<1> DEFINE n == Len(seq)
<1>1. n \in Nat /\ DOMAIN seq = 1 .. n /\ End = n + 1 /\ \A i \in 1 .. n : seq[i] \in FS
    BY DEF End
<1>2. Visible = Stopping
    <2>1. \A i \in 1 .. n : shown[seq[i]] \in {"yes", "no"}
        BY <1>1 DEF Throwing
    <2> QED  BY <1>1, <2>1 DEF Visible, Stopping, Shows, Stops
<1>3. Visible \in SUBSET (1 .. n) /\ \A i \in Visible : i \in Nat /\ 1 <= i /\ i <= n
    BY <1>1 DEF Visible
<1>4. ASSUME NEW p \in Nat \ {0}
      PROVE  SkipForward(p) = Least({i \in Visible : i >= p})
    BY <1>2, ForwardIs
<1>5. ASSUME NEW p \in 1 .. n
      PROVE  SkipBackward(p) = Greatest({i \in Visible : i <= p})
    BY <1>2, BackwardIs
<1>6. SkipBackward(End) = End
    BY BackwardIs
<1>7. ASSUME NEW S \in SUBSET (1 .. n)
      PROVE  /\ S = {} => Least(S) = End /\ Greatest(S) = End
             /\ S # {} => /\ Least(S) \in S /\ \A j \in S : Least(S) <= j
                          /\ \A i \in S : (\A j \in S : i <= j) => Least(S) = i
                          /\ Greatest(S) \in S /\ \A j \in S : j <= Greatest(S)
                          /\ \A i \in S : (\A j \in S : j <= i) => Greatest(S) = i
    <2>1. S = {} => Least(S) = End /\ Greatest(S) = End
        BY DEF Least, Greatest
    <2> QED  BY <1>1, <1>7, <2>1, LeastIs, GreatestIs
<1> HIDE DEF n
<1>8. AtFirst = Least(Visible)
    <2>1. \A i \in Visible : i >= 1
        BY <1>3
    <2>2. {i \in Visible : i >= 1} = Visible
        BY <2>1
    <2> QED  BY <1>4, <2>2 DEF AtFirst
<1>9. AtLast = Greatest(Visible)
    <2>1. CASE seq = << >>
        <3>1. n = 0
            BY <2>1 DEF n
        <3>2. Visible = {}
            BY <1>3, <3>1
        <3> QED  BY <2>1, <3>2, <1>6, <1>7 DEF AtLast
    <2>2. CASE seq # << >>
        <3>1. n \in 1 .. n /\ AtLast = SkipBackward(n)
            BY <2>2, <1>1 DEF AtLast, n
        <3>2. {i \in Visible : i <= n} = Visible
            BY <1>3
        <3> QED  BY <3>1, <3>2, <1>5
    <2> QED  BY <2>1, <2>2
<1>10. ASSUME NEW p \in 1 .. n PROVE AtNext(p) = Least({i \in Visible : i > p})
    <2>1. {i \in Visible : i >= p + 1} = {i \in Visible : i > p}
        <3>1. \A i \in Visible : i >= p + 1 <=> i > p
            BY <1>1, <1>3
        <3> QED  BY <3>1
    <2>2. p + 1 \in Nat \ {0}
        BY <1>1
    <2> QED  BY <2>1, <2>2, <1>4 DEF AtNext
<1>11. ASSUME NEW p \in 1 .. n PROVE AtPrevious(p) = Greatest({i \in Visible : i < p})
    <2>1. CASE p = 1
        <3>1. {i \in Visible : i < p} = {}
            <4>1. \A i \in Visible : ~(i < p)
                BY <1>3, <2>1
            <4> QED  BY <4>1
        <3> QED  BY <2>1, <3>1, <1>6, <1>7 DEF AtPrevious
    <2>2. CASE p # 1
        <3>1. p - 1 \in 1 .. n
            BY <1>1, <2>2
        <3>2. {i \in Visible : i <= p - 1} = {i \in Visible : i < p}
            <4>1. \A i \in Visible : i <= p - 1 <=> i < p
                BY <1>1, <1>3
            <4> QED  BY <4>1
        <3> QED  BY <2>2, <3>1, <3>2, <1>5 DEF AtPrevious
    <2> QED  BY <2>1, <2>2
<1>12. IsValid => pos \in 1 .. n
    BY DEF IsValid, n
<1>13. MoveToFirst => pos' = Least(Visible)
    BY <1>8 DEF MoveToFirst, Moves
<1>14. MoveToLast => pos' = Greatest(Visible)
    BY <1>9 DEF MoveToLast, Moves
<1>15. MoveToNext => pos' = Least({i \in Visible : i > pos})
    BY <1>10, <1>12 DEF MoveToNext, Moves
<1>16. MoveToPrevious => pos' = Greatest({i \in Visible : i < pos})
    BY <1>11, <1>12 DEF MoveToPrevious, Moves
<1>17. ASSUME PeekNext, pos \in Visible PROVE pos' = pos
    <2>1. PICK p : p = AtNext(pos)
        OBVIOUS
    <2>2. pos \in 1 .. n /\ pos' = IF p = End THEN AtLast ELSE AtPrevious(p)
        BY <1>12, <1>17, <2>1 DEF PeekNext, Moves
    <2> DEFINE S == {i \in Visible : i > pos}
    <2>3. p = Least(S) /\ S \in SUBSET (1 .. n)
        BY <1>3, <1>10, <2>1, <2>2
    <2>4. CASE S = {}
        <3>1. \A j \in Visible : j <= pos
            BY <1>3, <2>2, <2>4
        <3>2. Greatest(Visible) = pos
            BY <3>1, <1>3, <1>7, <1>17
        <3>3. p = End
            BY <2>3, <2>4, <1>7
        <3> QED  BY <3>2, <3>3, <2>2, <1>9
    <2>5. CASE S # {}
        <3>1. p \in S /\ \A j \in S : p <= j
            <4> HIDE DEF S
            <4> QED  BY <2>3, <2>5, <1>7
        <3>2. p \in 1 .. n /\ p # End /\ pos < p
            BY <3>1, <1>1, <2>3
        <3>3. {i \in Visible : i < p} \in SUBSET (1 .. n) /\ pos \in {i \in Visible : i < p}
            BY <1>3, <1>17, <3>2
        <3>4. \A j \in {i \in Visible : i < p} : j <= pos
            BY <1>3, <2>2, <3>1, <3>2
        <3>5. AtPrevious(p) = pos
            BY <3>2, <3>3, <3>4, <1>7, <1>11
        <3> QED  BY <2>2, <3>2, <3>5
    <2> QED  BY <2>4, <2>5
<1>18. ASSUME PeekPrevious, pos \in Visible PROVE pos' = pos
    <2>1. PICK p : p = AtPrevious(pos)
        OBVIOUS
    <2>2. pos \in 1 .. n /\ pos' = IF p = End THEN AtFirst ELSE AtNext(p)
        BY <1>12, <1>18, <2>1 DEF PeekPrevious, Moves
    <2> DEFINE S == {i \in Visible : i < pos}
    <2>3. p = Greatest(S) /\ S \in SUBSET (1 .. n)
        BY <1>3, <1>11, <2>1, <2>2
    <2>4. CASE S = {}
        <3>1. \A j \in Visible : pos <= j
            BY <1>3, <2>2, <2>4
        <3>2. Least(Visible) = pos
            BY <3>1, <1>3, <1>7, <1>18
        <3>3. p = End
            BY <2>3, <2>4, <1>7
        <3> QED  BY <3>2, <3>3, <2>2, <1>8
    <2>5. CASE S # {}
        <3>1. p \in S /\ \A j \in S : j <= p
            <4> HIDE DEF S
            <4> QED  BY <2>3, <2>5, <1>7
        <3>2. p \in 1 .. n /\ p # End /\ p < pos
            BY <3>1, <1>1, <2>3
        <3>3. {i \in Visible : i > p} \in SUBSET (1 .. n) /\ pos \in {i \in Visible : i > p}
            BY <1>3, <1>18, <3>2
        <3>4. \A j \in {i \in Visible : i > p} : pos <= j
            BY <1>3, <2>2, <3>1, <3>2
        <3>5. AtNext(p) = pos
            BY <3>2, <3>3, <3>4, <1>7, <1>10
        <3> QED  BY <2>2, <3>2, <3>5
    <2> QED  BY <2>4, <2>5
<1>19. ASSUME NEW fs \in FS, MoveTo(fs), kind = "ordered", NEW i \in Visible
       PROVE  IF i < pos' THEN Compare(seq[i], fs) >= 0 ELSE pos' = pos \/ Compare(fs, seq[i]) >= 0
    <2>1. PICK a : a = PlaceOf(fs)
        OBVIOUS
    <2>2. Stands(fs, a) /\ Rising(seq)
        BY <1>19, <2>1, PlaceIs
    <2>3. /\ a \in 1 .. n + 1 /\ i \in 1 .. n /\ Key[fs] \in Int
          /\ \A j \in 1 .. n : Key[seq[j]] \in Int
        BY <2>2, <1>1, <1>3, IteratorAssumption DEF Stands
    <2>4. /\ \A j \in 1 .. n : j < a => Key[seq[j]] <= Key[fs]
          /\ \A j \in 1 .. n : j >= a => Key[fs] <= Key[seq[j]]
        <3>1. CASE fs \in ToSet(seq)
            <4>1. a \in 1 .. n /\ seq[a] = fs
                BY <2>2, <2>3, <3>1, <1>1 DEF Stands
            <4>2. \A j, k \in 1 .. n : j < k => Key[seq[j]] <= Key[seq[k]]
                BY <2>2, <1>1 DEF Rising
            <4>3. \A j \in 1 .. n : j >= a => j = a \/ a < j
                BY <4>1, <1>1
            <4> QED  BY <4>1, <4>2, <4>3, <2>3
        <3>2. CASE fs \notin ToSet(seq)
            <4>1. /\ \A j \in 1 .. a - 1 : Key[seq[j]] < Key[fs]
                  /\ \A j \in a .. n : Key[seq[j]] >= Key[fs]
                BY <2>2, <3>2 DEF Stands, n
            <4> QED  BY <4>1, <2>3, <1>1
        <3> QED  BY <3>1, <3>2
    <2>5. /\ i < a => Compare(seq[i], fs) >= 0
          /\ i >= a => Compare(fs, seq[i]) >= 0
        BY <2>3, <2>4 DEF Compare
    <2>6. pos' = IF a = End THEN pos ELSE IF filtered THEN a ELSE SkipForward(a)
        BY <1>19, <2>1 DEF MoveTo, Moves
    <2>7. CASE a = End
        BY <2>3, <2>5, <2>6, <2>7, <1>1
    <2>8. CASE a # End /\ filtered
        BY <2>3, <2>5, <2>6, <2>8, <1>1
    <2>9. CASE a # End /\ ~filtered
        <3> DEFINE S == {j \in Visible : j >= a}
        <3>1. pos' = Least(S) /\ S \in SUBSET (1 .. n)
            <4>1. a \in Nat \ {0}
                BY <2>3
            <4>2. SkipForward(a) = Least(S)
                BY <4>1, <1>4
            <4> QED  BY <4>2, <2>6, <2>9, <1>3
        <3>2. CASE i \in S
            <4>1. pos' \in S /\ pos' <= i
                <5> HIDE DEF S
                <5> QED  BY <3>1, <3>2, <1>7
            <4>2. ~(i < pos')
                BY <4>1, <2>3
            <4>3. i >= a
                BY <3>2
            <4> QED  BY <4>2, <4>3, <2>5
        <3>3. CASE i \notin S
            <4>1. i < a
                BY <3>3, <2>3, <1>1
            <4>2. pos' \in Nat /\ pos' >= a
                <5>1. CASE S = {}
                    BY <5>1, <3>1, <1>1, <1>7, <2>3
                <5>2. CASE S # {}
                    <6>1. pos' \in S
                        <7> HIDE DEF S
                        <7> QED  BY <5>2, <3>1, <1>7
                    <6> QED  BY <6>1, <1>3
                <5> QED  BY <5>1, <5>2
            <4>3. i < pos'
                BY <4>1, <4>2, <2>3
            <4> QED  BY <4>1, <4>3, <2>5
        <3> QED  BY <3>2, <3>3
    <2> QED  BY <2>7, <2>8, <2>9
<1> QED  BY <1>13, <1>14, <1>15, <1>16, <1>17, <1>18, <1>19

-----------------------------------------------------------------------------
(* Iterators over annotations *)

\* Nothing is skipped, and what is shown is in order and each once.
Unskipped ==
    /\ seq \in Seq(FS) /\ Rising(seq) /\ IsInjective(seq)
    /\ \A fs \in FS : shown[fs] = "yes"
    /\ kind = "ordered" /\ under \in FS
    /\ walk \in {"sub", "unambiguousSub", "unambiguous"}

\* Its places are the numbers one after the other.
LEMMA UnskippedIs ==
    ASSUME Unskipped
    PROVE  /\ Len(seq) \in Nat /\ DOMAIN seq = 1 .. Len(seq) /\ End = Len(seq) + 1 /\ AtFirst = 1
           /\ \A p \in 1 .. Len(seq) : AtNext(p) = p + 1
<1>1. Len(seq) \in Nat /\ DOMAIN seq = 1 .. Len(seq) /\ End = Len(seq) + 1 /\ seq \in Seq(FS)
    BY DEF Unskipped, End
<1>2. Stopping = 1 .. Len(seq)
    <2>1. \A i \in 1 .. Len(seq) : Stops(seq[i])
        BY <1>1 DEF Unskipped, Stops
    <2> QED  BY <1>1, <2>1 DEF Stopping
<1>3. ASSUME NEW p \in 1 .. End PROVE SkipForward(p) = p
    <2> DEFINE S == {i \in Stopping : i >= p}
    <2>1. p \in Nat \ {0} /\ SkipForward(p) = Least(S)
        BY <1>1, <1>3, ForwardIs
    <2>2. CASE p = End
        <3>1. \A i \in Stopping : ~(i >= p)
            BY <1>1, <1>2, <2>2
        <3>2. S = {}
            BY <3>1
        <3> QED  BY <2>1, <2>2, <3>2 DEF Least
    <2>3. CASE p # End
        <3>1. p \in S /\ S \in SUBSET (1 .. Len(seq)) /\ \A j \in S : p <= j
            BY <1>1, <1>2, <1>3, <2>3
        <3> HIDE DEF S
        <3> QED  BY <2>1, <3>1, <1>1, LeastIs
    <2> QED  BY <2>2, <2>3
<1>4. 1 \in 1 .. End /\ \A p \in 1 .. Len(seq) : p + 1 \in 1 .. End
    BY <1>1
<1> QED  BY <1>1, <1>3, <1>4 DEF AtFirst, AtNext

\* The walk is about a place of the index: that of its annotation, when it has one.
OnIndex == Unskipped /\ (walk # "unambiguous" => PlaceOf(under) # End)

\* Behind the anchor, what is below is what is valid, up to some place, and never the anchor.
LEMMA BelowIs ==
    ASSUME OnIndex
    PROVE  /\ Anchor \in 0 .. Len(seq) /\ Below \in SUBSET (Anchor + 1 .. Len(seq)) /\ ~SubValid(End)
           /\ \A i \in Anchor + 1 .. Len(seq) : SubValid(i) <=> i \in Below
           /\ \A i \in Below : \A j \in Anchor + 1 .. i : j \in Below
           /\ walk # "unambiguous" => \A i \in Anchor + 1 .. Len(seq) : seq[i] # under
<1> DEFINE n == Len(seq)
<1>1. n \in Nat /\ DOMAIN seq = 1 .. n /\ End = n + 1 /\ \A i \in 1 .. n : seq[i] \in FS
    BY UnskippedIs DEF OnIndex, Unskipped
<1>2. ~SubValid(End)
    BY <1>1 DEF SubValid
<1> HIDE DEF n
<1>3. CASE walk = "unambiguous"
    <2>1. Anchor = 0 /\ Below = 1 .. n
        BY <1>1, <1>3 DEF Anchor, Below, n
    <2>2. \A i \in 1 .. n : SubValid(i)
        BY <1>3 DEF SubValid, n
    <2> QED  BY <1>1, <1>2, <1>3, <2>1, <2>2 DEF n
<1>4. CASE walk # "unambiguous"
    <2>1. PICK a : a = PlaceOf(under)
        OBVIOUS
    <2>2. /\ a \in 1 .. n
          /\ under \in ToSet(seq) => seq[a] = under
          /\ under \notin ToSet(seq) => /\ \A i \in 1 .. a - 1 : Key[seq[i]] < Key[under]
                                       /\ \A i \in a .. n : Key[seq[i]] >= Key[under]
        <3>1. Stands(under, a) /\ a # End
            BY <1>4, <2>1, PlaceIs DEF OnIndex, Unskipped
        <3> QED  BY <3>1, <1>1 DEF Stands, n
    <2>3. PICK l : l = Anchor
        OBVIOUS
    <2>4. l = (IF under \in ToSet(seq) THEN a ELSE a - 1) /\ l \in 0 .. n /\ a \in Nat /\ a <= l + 1
        BY <1>1, <1>4, <2>1, <2>2, <2>3 DEF Anchor
    <2>5. /\ under \in FS /\ Key[under] \in Int /\ BeginPosition[under] \in Nat /\ EndPosition[under] \in Nat
          /\ \A i \in 1 .. n : Key[seq[i]] \in Int /\ BeginPosition[seq[i]] \in Nat
        <3>1. under \in FS
            BY DEF OnIndex, Unskipped
        <3>2. \A x \in FS : Key[x] \in Int /\ BeginPosition[x] \in Nat /\ EndPosition[x] \in Nat
            BY IteratorAssumption, SpanAssumption
        <3> QED  BY <1>1, <3>1, <3>2
    <2>6. \A i, j \in 1 .. n : i < j => Key[seq[i]] <= Key[seq[j]]
        BY <1>1 DEF OnIndex, Unskipped, Rising
    <2>7. ASSUME NEW x \in FS, NEW y \in FS, Key[x] <= Key[y] PROVE BeginPosition[x] <= BeginPosition[y]
        <3>1. Key[x] \in Int /\ Key[y] \in Int /\ BeginPosition[x] \in Nat /\ BeginPosition[y] \in Nat
            BY <2>7, IteratorAssumption, SpanAssumption
        <3>2. ~(Key[y] < Key[x])
            BY <3>1, <2>7
        <3>3. ~(BeginPosition[y] < BeginPosition[x])
            BY <3>2, <2>7, SpanAssumption
        <3> QED  BY <3>1, <3>3
    <2>8. ASSUME NEW i \in l + 1 .. n
          PROVE  i \in 1 .. n /\ i >= a /\ BeginPosition[seq[i]] >= BeginPosition[under] /\ seq[i] # under
        <3>1. i \in 1 .. n /\ i >= a
            BY <1>1, <2>4, <2>8
        <3>2. CASE under \in ToSet(seq)
            <4>1. a < i /\ seq[a] = under
                BY <2>2, <2>4, <2>8, <3>2, <1>1
            <4>2. Key[under] <= Key[seq[i]]
                BY <4>1, <3>1, <2>2, <2>6
            <4>3. seq[i] # under
                BY <4>1, <3>1, <2>2, <1>1 DEF OnIndex, Unskipped, IsInjective
            <4> QED  BY <3>1, <4>2, <4>3, <2>5, <2>7, <1>1
        <3>3. CASE under \notin ToSet(seq)
            <4>1. i \in a .. n
                BY <3>1, <1>1
            <4>2. Key[under] <= Key[seq[i]]
                BY <4>1, <3>1, <3>3, <2>2, <2>5
            <4>3. seq[i] # under
                BY <3>1, <3>3, <1>1 DEF ToSet
            <4> QED  BY <3>1, <4>2, <4>3, <2>5, <2>7, <1>1
        <3> QED  BY <3>2, <3>3
    <2>9. Below = {i \in l + 1 .. n : BeginPosition[seq[i]] < EndPosition[under]}
        BY <1>4, <2>3 DEF Below, n
    <2>10. \A i \in l + 1 .. n : SubValid(i) <=> i \in Below
        BY <2>8, <2>9, <1>4 DEF SubValid, n
    <2>11. ASSUME NEW i \in Below, NEW j \in l + 1 .. i PROVE j \in Below
        <3>1. i \in l + 1 .. n /\ BeginPosition[seq[i]] < EndPosition[under]
            BY <2>9
        <3>2. i \in 1 .. n /\ j \in 1 .. n /\ j \in l + 1 .. n /\ (j = i \/ j < i)
            BY <3>1, <2>4, <2>11, <1>1
        <3>3. j < i => Key[seq[j]] <= Key[seq[i]]
            BY <3>2, <2>6
        <3>4. BeginPosition[seq[j]] <= BeginPosition[seq[i]]
            <4>1. seq[i] \in FS /\ seq[j] \in FS /\ BeginPosition[seq[i]] \in Nat
                BY <3>2, <2>5, <1>1
            <4>2. j < i => BeginPosition[seq[j]] <= BeginPosition[seq[i]]
                BY <4>1, <3>3, <2>7
            <4> QED  BY <4>1, <4>2, <3>2
        <3>5. BeginPosition[seq[j]] < EndPosition[under]
            BY <3>1, <3>2, <3>4, <2>5
        <3> QED  BY <3>2, <3>5, <2>9
    <2>12. Below \in SUBSET (l + 1 .. n) /\ \A i \in l + 1 .. n : seq[i] # under
        BY <2>8, <2>9
    <2> QED  BY <1>2, <2>3, <2>4, <2>10, <2>11, <2>12 DEF n
<1> QED  BY <1>3, <1>4

\* A place is the least of some places, or not valid when there is none.
EndsAt(p, s) == IF s = {} THEN ~SubValid(p) ELSE p = Least(s)

\* The walk begins with the first below.
LEMMA FirstEnds ==
    ASSUME OnIndex, NEW p
    PROVE  EndsAt(SubFirst(p), Below)
<1> DEFINE n == Len(seq)
<1>1. /\ n \in Nat /\ DOMAIN seq = 1 .. n /\ End = n + 1 /\ AtFirst = 1
      /\ \A i \in 1 .. n : AtNext(i) = i + 1
    BY UnskippedIs DEF OnIndex
<1>2. PICK l \in 0 .. n : l = Anchor
    BY BelowIs
<1>3. /\ Below \in SUBSET (l + 1 .. n) /\ ~SubValid(End)
      /\ \A i \in l + 1 .. n : SubValid(i) <=> i \in Below
      /\ \A i \in Below : \A j \in l + 1 .. i : j \in Below
    BY <1>2, BelowIs
<1>4. ASSUME SubFirst(p) = l + 1 PROVE EndsAt(SubFirst(p), Below)
    <2>1. CASE Below = {}
        <3>1. l + 1 \in l + 1 .. n \/ l + 1 = End
            BY <1>1, <1>2
        <3>2. ~SubValid(l + 1)
            BY <2>1, <3>1, <1>3
        <3> QED  BY <2>1, <3>2, <1>4 DEF EndsAt
    <2>2. CASE Below # {}
        <3>1. PICK i \in Below : i \in l + 1 .. n
            BY <1>3, <2>2
        <3>2. l + 1 \in l + 1 .. i
            BY <1>1, <1>2, <3>1
        <3>3. l + 1 \in Below
            BY <1>3, <3>1, <3>2
        <3>4. \A j \in Below : l + 1 <= j
            BY <1>3
        <3>5. Below \in SUBSET (1 .. n) /\ Len(seq) \in Nat
            BY <1>1, <1>2, <1>3
        <3>6. Least(Below) = l + 1
            BY <2>2, <3>3, <3>4, <3>5, LeastIs
        <3> QED  BY <2>2, <3>6, <1>4 DEF EndsAt
    <2> QED  BY <2>1, <2>2
<1> HIDE DEF n
<1>5. CASE walk = "unambiguous"
    <2>1. l = 0 /\ SubFirst(p) = 1
        BY <1>1, <1>2, <1>5 DEF Anchor, SubFirst
    <2> QED  BY <2>1, <1>4
<1>6. CASE walk # "unambiguous"
    <2>1. PICK a : a = PlaceOf(under)
        OBVIOUS
    <2>2. Stands(under, a) /\ a \in 1 .. n
        <3>1. Stands(under, a) /\ a # End
            BY <1>6, <2>1, PlaceIs DEF OnIndex, Unskipped
        <3> QED  BY <3>1, <1>1 DEF Stands
    <2>3. SubFirst(p) = IF SubValid(a) /\ seq[a] = under THEN a + 1 ELSE a
        BY <2>1, <2>2, <1>1, <1>6 DEF SubFirst, PastAnchor, MovedTo, OnIndex
    <2>4. CASE under \notin ToSet(seq)
        <3>1. seq[a] # under
            BY <2>2, <2>4, <1>1 DEF ToSet
        <3>2. l + 1 = a
            BY <1>1, <1>2, <1>6, <2>1, <2>2, <2>4 DEF Anchor
        <3> QED  BY <2>3, <3>1, <3>2, <1>4
    <2>5. CASE under \in ToSet(seq)
        <3>1. seq[a] = under /\ l = a
            BY <2>1, <2>2, <2>5, <1>2, <1>6 DEF Stands, Anchor
        <3>2. CASE SubValid(a)
            BY <2>3, <3>1, <3>2, <1>4
        <3>3. CASE ~SubValid(a)
            <4>1. ASSUME NEW i \in Below PROVE FALSE
                <5>1. i \in l + 1 .. n /\ SubValid(i)
                    BY <1>3
                <5>2. a < i /\ i \in 1 .. n
                    BY <5>1, <3>1, <2>2, <1>1
                <5>3. Key[under] <= Key[seq[i]]
                    BY <5>2, <3>1, <2>2, <1>1 DEF OnIndex, Unskipped, Rising
                <5>4. seq[i] \in FS /\ under \in FS
                    BY <5>2, <1>1 DEF OnIndex, Unskipped
                <5>5. /\ Key[under] \in Int /\ Key[seq[i]] \in Int /\ BeginPosition[under] \in Nat
                      /\ BeginPosition[seq[i]] \in Nat /\ EndPosition[under] \in Nat
                    BY <5>4, IteratorAssumption, SpanAssumption
                <5>6. ~(Key[seq[i]] < Key[under])
                    BY <5>3, <5>5
                <5>7. ~(BeginPosition[seq[i]] < BeginPosition[under])
                    BY <5>4, <5>6, SpanAssumption
                <5>8. BeginPosition[seq[i]] < EndPosition[under]
                    BY <5>1, <1>6 DEF SubValid
                <5>9. BeginPosition[under] < EndPosition[under] /\ BeginPosition[under] >= BeginPosition[under]
                    BY <5>5, <5>7, <5>8
                <5>10. SubValid(a)
                    BY <5>9, <3>1, <2>2 DEF SubValid, n
                <5> QED  BY <5>10, <3>3
            <4>2. Below = {}
                BY <4>1
            <4>3. SubFirst(p) = a
                BY <2>3, <3>3
            <4> QED  BY <4>2, <4>3, <3>3 DEF EndsAt
        <3> QED  BY <3>2, <3>3
    <2> QED  BY <2>4, <2>5
<1> QED  BY <1>5, <1>6

\* Where there is nothing to move to, nothing is below.
LEMMA NothingIsBelow ==
    ASSUME Unskipped, walk # "unambiguous", PlaceOf(under) = End
    PROVE  Below = {} /\ \A p : SubFirst(p) = PastAnchor(p, AtNext(p)) /\ (SubValid(p) => seq[p] # under)
<1>1. Len(seq) \in Nat /\ DOMAIN seq = 1 .. Len(seq) /\ End = Len(seq) + 1
    BY UnskippedIs
<1>2. under \notin ToSet(seq)
    <2>1. Stands(under, PlaceOf(under))
        BY PlaceIs DEF Unskipped
    <2> QED  BY <2>1 DEF Stands
<1>3. Anchor = Len(seq)
    BY <1>1, <1>2 DEF Anchor
<1>4. Below = {}
    BY <1>1, <1>3 DEF Below
<1>5. \A p : SubFirst(p) = PastAnchor(p, AtNext(p))
    BY DEF SubFirst, MovedTo
<1>6. \A p : SubValid(p) => seq[p] # under
    BY <1>1, <1>2 DEF SubValid, ToSet
<1> QED  BY <1>4, <1>5, <1>6

\* A walk that is made begins with the first below, or at its end.
LEMMA MadeEnds == Unskipped => EndsAt(SubFirst(End), Below)
<1> SUFFICES ASSUME Unskipped PROVE EndsAt(SubFirst(End), Below)
    OBVIOUS
<1>1. CASE OnIndex
    BY <1>1, FirstEnds
<1>2. CASE ~OnIndex
    <2>1. Below = {} /\ SubFirst(End) = PastAnchor(End, AtNext(End))
        BY <1>2, NothingIsBelow DEF OnIndex
    <2>2. ~SubValid(End)
        <3>1. Len(seq) \in Nat /\ End = Len(seq) + 1
            BY UnskippedIs
        <3> QED  BY <3>1 DEF SubValid
    <2>3. SubFirst(End) = End
        BY <2>1, <2>2 DEF PastAnchor
    <2> QED  BY <2>1, <2>2, <2>3 DEF EndsAt
<1> QED  BY <1>1, <1>2

\* It goes on with the next below, or the next one that does not begin within this one.
LEMMA NextEnds ==
    ASSUME OnIndex, NEW p \in Below
    PROVE  EndsAt(SubNext(p), {i \in Below : i > p /\ Clear(p, i)}) /\ SubNext(p) > p /\ SubNext(p) \in 1 .. End
<1> DEFINE n == Len(seq)
           S == {i \in Below : i > p /\ Clear(p, i)}
<1>1. /\ n \in Nat /\ DOMAIN seq = 1 .. n /\ End = n + 1 /\ \A i \in 1 .. n : AtNext(i) = i + 1
      /\ \A i \in 1 .. n : seq[i] \in FS
    BY UnskippedIs DEF OnIndex, Unskipped
<1>2. PICK l \in 0 .. n : l = Anchor
    BY BelowIs
<1>3. /\ Below \in SUBSET (l + 1 .. n) /\ ~SubValid(End)
      /\ \A i \in l + 1 .. n : SubValid(i) <=> i \in Below
      /\ \A i \in Below : \A j \in l + 1 .. i : j \in Below
      /\ walk # "unambiguous" => \A i \in l + 1 .. n : seq[i] # under
    BY <1>2, BelowIs
<1>4. p \in l + 1 .. n /\ p \in 1 .. n
    BY <1>1, <1>2, <1>3
<1>5. S \in SUBSET (1 .. n) /\ S \in SUBSET (l + 1 .. n)
    <2>1. \A i \in Below : i \in l + 1 .. n /\ i \in 1 .. n
        BY <1>1, <1>2, <1>3
    <2> QED  BY <2>1
<1>6. ASSUME NEW q \in p + 1 .. End, \A i \in S : q <= i, SubValid(q) => q \in S PROVE EndsAt(q, S)
    <2>1. q = End \/ q \in l + 1 .. n
        BY <1>1, <1>2, <1>4
    <2>2. CASE SubValid(q)
        <3>1. q \in S
            BY <1>6, <2>2
        <3>2. Least(S) = q
            <4>1. S # {} /\ Len(seq) \in Nat
                BY <3>1, <1>1
            <4> HIDE DEF S
            <4> QED  BY <4>1, <3>1, <1>5, <1>6, LeastIs
        <3> QED  BY <3>1, <3>2 DEF EndsAt
    <2>3. CASE ~SubValid(q)
        <3>1. ASSUME NEW i \in S PROVE FALSE
            <4>1. q <= i /\ i \in Below /\ i \in l + 1 .. n
                BY <1>5, <1>6, <3>1
            <4>2. q \in l + 1 .. i
                BY <4>1, <2>1, <1>1, <1>2, <1>4
            <4>3. q \in Below /\ q \in l + 1 .. n
                BY <4>1, <4>2, <1>3
            <4> QED  BY <4>3, <2>3, <1>3
        <3> QED  BY <3>1, <2>3 DEF EndsAt
    <2> QED  BY <2>2, <2>3
<1> HIDE DEF n
<1>7. CASE walk = "sub"
    <2>1. p + 1 = End \/ p + 1 \in l + 1 .. n
        BY <1>1, <1>2, <1>4
    <2>2. SubNext(p) = p + 1
        <3>1. SubValid(p + 1) => seq[p + 1] # under
            BY <2>1, <1>3, <1>7
        <3> QED  BY <3>1, <1>1, <1>4, <1>7 DEF SubNext, PastAnchor
    <2>3. p + 1 \in p + 1 .. End /\ p + 1 > p /\ p + 1 \in 1 .. End
        BY <1>1, <1>4
    <2>4. \A i \in S : p + 1 <= i
        BY <1>1, <1>4, <1>5
    <2>5. SubValid(p + 1) => p + 1 \in S
        BY <2>1, <2>3, <1>3, <1>7 DEF Clear
    <2> HIDE DEF S
    <2>6. EndsAt(p + 1, S)
        BY <1>6, <2>3, <2>4, <2>5
    <2> QED  BY <2>2, <2>3, <2>6 DEF S
<1>8. CASE walk # "sub"
    <2> DEFINE after(q) == ~SubValid(q) \/ BeginPosition[seq[q]] >= EndPosition[seq[p]]
               T == {q \in p + 1 .. End : after(q)}
    <2>1. End \in T
        BY <1>1, <1>3, <1>4
    <2>2. PICK m \in T : \A j \in T : m <= j
        <3>1. T \in SUBSET Nat
            BY <1>1, <1>4
        <3> HIDE DEF T
        <3> QED  BY <2>1, <3>1, LeastExists
    <2>3. \A r \in p + 1 .. m - 1 : ~after(r)
        <3> SUFFICES ASSUME NEW r \in p + 1 .. m - 1, after(r) PROVE FALSE
            OBVIOUS
        <3>1. m \in p + 1 .. End
            BY <2>2
        <3>2. r \in p + 1 .. End /\ r < m
            BY <3>1, <1>1, <1>4
        <3> HIDE DEF after
        <3> QED  BY <3>1, <3>2, <2>2, <1>1, <1>4
    <2> DEFINE q == CHOOSE q \in p + 1 .. End : after(q) /\ \A r \in p + 1 .. q - 1 : ~after(r)
    <2>4. q \in p + 1 .. End /\ after(q) /\ \A r \in p + 1 .. q - 1 : ~after(r)
        <3> HIDE DEF after
        <3> QED  BY <2>2, <2>3
    <2>5. SubNext(p) = q
        BY <1>8 DEF SubNext, BehindThis
    <2> HIDE DEF q
    <2>6. q > p /\ q \in 1 .. End /\ q \in Nat
        BY <2>4, <1>1, <1>4
    <2>7. ASSUME NEW i \in S PROVE q <= i
        <3>1. i \in Below /\ i \in l + 1 .. n /\ i > p /\ BeginPosition[seq[i]] >= EndPosition[seq[p]]
            BY <1>5, <1>8 DEF Clear
        <3>2. i < q => i \in p + 1 .. q - 1
            BY <3>1, <2>6, <1>1, <1>2, <1>4
        <3>3. ~(i < q)
            BY <3>1, <3>2, <2>4
        <3> QED  BY <3>1, <3>3, <2>6, <1>1, <1>2
    <2>8. SubValid(q) => q \in S
        <3>1. q = End \/ q \in l + 1 .. n
            BY <2>4, <1>1, <1>2, <1>4
        <3> QED  BY <3>1, <2>4, <2>6, <1>3, <1>8 DEF Clear
    <2> HIDE DEF S
    <2>9. EndsAt(q, S)
        BY <1>6, <2>4, <2>7, <2>8
    <2> QED  BY <2>5, <2>6, <2>9 DEF S
<1> QED  BY <1>7, <1>8

\* moveToLast() goes to a place T that the walk from the first cannot leave but to its end, when
\* each step of that walk goes on.
LEMMA LastIs ==
    ASSUME Unskipped, NEW p, NEW T \in SUBSET (1 .. Len(seq)), SubFirst(p) \in T,
           \A r \in T : SubValid(SubNext(r)) => SubNext(r) \in T /\ SubNext(r) > r,
           SubValid(SubFirst(p))
    PROVE  \E r \in T : /\ ~SubValid(SubNext(r))
                        /\ LET place == MovedTo(seq[r], p)
                           IN  SubLast(p) = PastAnchor(place, AtPrevious(place))
<1> DEFINE n == Len(seq)
           start == SubFirst(p)
           next(q) == IF SubValid(SubNext(q)) THEN SubNext(q) ELSE q
           body(f, i) == IF i = 0 THEN start ELSE LET q == f[i - 1] IN next(q)
           last == CHOOSE f : f = [i \in 0 .. n |-> body(f, i)]
           good == [i \in 0 .. n |-> {r \in T : ~SubValid(SubNext(r)) \/ r >= i + 1}]
           step == [i \in 1 .. n |-> [r \in good[i - 1] |-> next(r)]]
<1>1. n \in Nat /\ \A r \in T : r \in 1 .. n
    BY DEF Unskipped
<1>2. LET place == MovedTo(seq[last[n]], p) IN SubLast(p) = PastAnchor(place, AtPrevious(place))
    BY DEF SubLast
<1> HIDE DEF n
<1>3. start \in good[0]
    <2>1. start \in T /\ start \in 1 .. n /\ start >= 0 + 1 /\ 0 \in 0 .. n
        <3>1. start \in T
            OBVIOUS
        <3> HIDE DEF start
        <3> QED  BY <3>1, <1>1
    <2>2. good[0] = {r \in T : ~SubValid(SubNext(r)) \/ r >= 0 + 1}
        BY <2>1
    <2> HIDE DEF good, start
    <2> QED  BY <2>1, <2>2
<1>4. ASSUME NEW i \in 1 .. n, NEW r \in good[i - 1] PROVE next(r) \in good[i]
    <2>1. i \in 0 .. n /\ i - 1 \in 0 .. n
        BY <1>1
    <2>2. r \in T /\ (~SubValid(SubNext(r)) \/ r >= i - 1 + 1) /\ r \in 1 .. n
        BY <2>1, <1>1
    <2>3. CASE ~SubValid(SubNext(r))
        BY <2>1, <2>2, <2>3
    <2>4. CASE SubValid(SubNext(r))
        <3>1. SubNext(r) \in T /\ SubNext(r) > r /\ SubNext(r) \in 1 .. n
            BY <2>2, <2>4, <1>1
        <3>2. SubNext(r) >= i + 1
            BY <3>1, <2>1, <2>2, <2>4, <1>1
        <3> QED  BY <2>1, <2>4, <3>1, <3>2
    <2> QED  BY <2>3, <2>4
<1>5. \A i \in 1 .. n : \A r \in good[i - 1] : step[i][r] = next(r)
    <2> HIDE DEF good, next
    <2> QED  OBVIOUS
<1> HIDE DEF good, step, start, next
<1>6. PICK f : Follows(f, n, start, step) /\ \A i \in 0 .. n : f[i] \in good[i]
    <2>1. \A i \in 1 .. n : \A r \in good[i - 1] : step[i][r] \in good[i]
        BY <1>4, <1>5
    <2> QED  BY <2>1, <1>1, <1>3, RecursionExists
<1>7. f = [i \in 0 .. n |-> body(f, i)]
    <2>1. ASSUME NEW i \in 1 .. n PROVE step[i][f[i - 1]] = body(f, i)
        <3>1. f[i - 1] \in good[i - 1] /\ i # 0
            BY <1>1, <1>6
        <3> QED  BY <1>5, <3>1
    <2>2. \A i \in 0 .. n : i = 0 \/ i \in 1 .. n
        BY <1>1
    <2>3. \A i \in 0 .. n : (IF i = 0 THEN start ELSE step[i][f[i - 1]]) = body(f, i)
        BY <2>1, <2>2
    <2> HIDE DEF body
    <2>4. f = [i \in 0 .. n |-> IF i = 0 THEN start ELSE step[i][f[i - 1]]]
        BY <1>6 DEF Follows
    <2> QED  BY <2>4, <2>3
<1>8. last = [i \in 0 .. n |-> body(last, i)]
    <2> HIDE DEF body
    <2> QED  BY <1>7
<1> HIDE DEF last
<1>9. last[0] = start /\ \A i \in 1 .. n : last[i] = next(last[i - 1])
    <2>1. \A i \in 0 .. n : last[i] = body(last, i)
        <3> HIDE DEF body
        <3> QED  BY <1>8
    <2>2. 0 \in 0 .. n /\ \A i \in 1 .. n : i \in 0 .. n /\ i # 0
        BY <1>1
    <2> QED  BY <2>1, <2>2
<1> DEFINE kept == {i \in 0 .. n : last[i] \in good[i]}
<1>10. 0 \in kept
    BY <1>1, <1>3, <1>9
<1>11. \A i \in 1 .. n : i - 1 \in kept => i \in kept
    BY <1>1, <1>4, <1>9
<1>12. last[n] \in T /\ ~SubValid(SubNext(last[n]))
    <2>1. n \in 0 .. n
        BY <1>1
    <2>2. n \in kept
        <3> HIDE DEF kept
        <3> QED  BY <2>1, <1>1, <1>10, <1>11, UpTo
    <2>3. PICK r : r = last[n]
        OBVIOUS
    <2>4. r \in T /\ (~SubValid(SubNext(r)) \/ r >= n + 1) /\ r \in 1 .. n
        BY <2>1, <2>2, <2>3, <1>1 DEF good
    <2> QED  BY <2>3, <2>4, <1>1
<1> QED  BY <1>2, <1>12

\* moveToLast() stops where the walk does.
LEMMA LastEnds ==
    ASSUME OnIndex, NEW p, Below # {}, walk # "unambiguous"
    PROVE  SubLast(p) \in Below /\ \A i \in Below : i > SubLast(p) => ~Clear(SubLast(p), i)
<1> DEFINE n == Len(seq)
<1>1. /\ n \in Nat /\ DOMAIN seq = 1 .. n /\ End = n + 1 /\ \A i \in 1 .. n : seq[i] \in FS
      /\ Unskipped
    BY UnskippedIs DEF OnIndex, Unskipped
<1>2. PICK l \in 0 .. n : l = Anchor
    BY BelowIs
<1>3. /\ Below \in SUBSET (l + 1 .. n)
      /\ \A i \in l + 1 .. n : SubValid(i) <=> i \in Below
      /\ \A i \in l + 1 .. n : seq[i] # under
    BY <1>2, BelowIs
<1>4. Below \in SUBSET (1 .. n)
    BY <1>1, <1>2, <1>3
<1> HIDE DEF n
<1>5. SubFirst(p) \in Below
    <2>1. SubFirst(p) = Least(Below)
        BY FirstEnds DEF EndsAt
    <2> QED  BY <2>1, <1>1, <1>4, LeastIs DEF n
<1>6. \A r \in Below : SubValid(SubNext(r)) => SubNext(r) \in Below /\ SubNext(r) > r
    <2> SUFFICES ASSUME NEW r \in Below, SubValid(SubNext(r)) PROVE SubNext(r) \in Below /\ SubNext(r) > r
        OBVIOUS
    <2> DEFINE S == {i \in Below : i > r /\ Clear(r, i)}
    <2>1. EndsAt(SubNext(r), S) /\ SubNext(r) > r
        BY NextEnds
    <2>2. S # {} /\ SubNext(r) = Least(S) /\ S \in SUBSET (1 .. n)
        BY <2>1, <1>4 DEF EndsAt
    <2>3. SubNext(r) \in S
        <3> HIDE DEF S
        <3> QED  BY <2>2, <1>1, LeastIs DEF n
    <2> QED  BY <2>1, <2>3
<1>7. PICK r \in Below : /\ ~SubValid(SubNext(r))
                         /\ SubLast(p) = PastAnchor(MovedTo(seq[r], p), AtPrevious(MovedTo(seq[r], p)))
    <2>1. SubValid(SubFirst(p))
        BY <1>3, <1>5
    <2> QED  BY <2>1, <1>1, <1>4, <1>5, <1>6, LastIs DEF n
<1>8. r \in 1 .. n /\ r \in l + 1 .. n /\ seq[r] # under
    BY <1>3, <1>4
<1>9. MovedTo(seq[r], p) = r
    <2>1. PICK a : a = PlaceOf(seq[r])
        OBVIOUS
    <2>2. seq[r] \in FS /\ seq[r] \in ToSet(seq)
        BY <1>1, <1>8 DEF ToSet
    <2>3. Stands(seq[r], a)
        BY <2>1, <2>2, PlaceIs DEF OnIndex, Unskipped
    <2>4. a \in 1 .. n /\ seq[a] = seq[r]
        BY <2>2, <2>3, <1>1 DEF Stands
    <2>5. a = r /\ a # End
        BY <2>4, <1>1, <1>8 DEF Unskipped, IsInjective
    <2> QED  BY <2>1, <2>5 DEF MovedTo
<1>10. SubLast(p) = r
    BY <1>7, <1>8, <1>9 DEF PastAnchor
<1>11. ASSUME NEW i \in Below, i > r PROVE ~Clear(r, i)
    <2> DEFINE S == {j \in Below : j > r /\ Clear(r, j)}
    <2>1. EndsAt(SubNext(r), S)
        BY NextEnds
    <2>2. CASE S = {}
        BY <2>2, <1>11
    <2>3. CASE S # {}
        <3>1. SubNext(r) = Least(S) /\ S \in SUBSET (1 .. n)
            BY <2>1, <2>3, <1>4 DEF EndsAt
        <3>2. SubNext(r) \in S
            <4> HIDE DEF S
            <4> QED  BY <3>1, <2>3, <1>1, LeastIs DEF n
        <3>3. SubValid(SubNext(r))
            BY <3>2, <1>3
        <3> QED  BY <3>3, <1>7
    <2> QED  BY <2>2, <2>3
<1> QED  BY <1>10, <1>11

-----------------------------------------------------------------------------
(* Where an iterator can be *)

\* Wherever an iterator over annotations goes, it stays in its index.
LEMMA PlacesWithin ==
    ASSUME Unskipped, NEW p \in 1 .. End
    PROVE  /\ SubFirst(p) \in 1 .. End /\ MovedTo(under, p) \in 1 .. End
           /\ \A fs \in FS : MovedTo(fs, p) \in 1 .. End
           /\ SubValid(p) => SubNext(p) \in 1 .. End
           /\ SubValid(p) => PastAnchor(AtPrevious(p), AtPrevious(AtPrevious(p))) \in 1 .. End
           /\ SubLast(p) \in 1 .. End
<1> DEFINE n == Len(seq)
<1>1. /\ n \in Nat /\ End = n + 1 /\ AtFirst = 1 /\ \A i \in 1 .. n : AtNext(i) = i + 1
      /\ \A i \in 1 .. n : seq[i] \in FS
      /\ seq \in Seq(FS) /\ under \in FS
    BY UnskippedIs DEF Unskipped
<1>2. \A fs \in FS : PlaceOf(fs) \in 1 .. End
    BY <1>1, PlaceIs
<1>3. \A fs \in FS : MovedTo(fs, p) \in 1 .. End
    BY <1>2 DEF MovedTo
<1>4. \A q : SubValid(q) => q \in 1 .. n
    BY DEF SubValid
<1> HIDE DEF n
<1>5. \A i \in 1 .. n : AtPrevious(i) \in 1 .. End
    <2>1. \A i \in 1 .. n : SkipBackward(i) \in 1 .. End
        BY <1>1, BackwardIs DEF n
    <2>2. SkipBackward(End) = End /\ End \in 1 .. End
        BY <1>1, BackwardIs
    <2>3. \A i \in 1 .. n : i = 1 \/ i - 1 \in 1 .. n
        BY <1>1
    <2> QED  BY <2>1, <2>2, <2>3 DEF AtPrevious
<1>6. \A i \in 1 .. n : AtNext(i) \in 1 .. End
    BY <1>1
<1>7. \A q \in 1 .. End : /\ PastAnchor(q, AtNext(q)) \in 1 .. End
                          /\ PastAnchor(q, AtPrevious(q)) \in 1 .. End
    BY <1>4, <1>5, <1>6 DEF PastAnchor
<1>8. SubFirst(p) \in 1 .. End
    <2>1. 1 \in 1 .. End /\ MovedTo(under, p) \in 1 .. End
        BY <1>1, <1>3
    <2> QED  BY <2>1, <1>1, <1>7 DEF SubFirst
<1>9. \A r \in 1 .. n : SubNext(r) \in 1 .. End /\ SubNext(r) > r
    <2> SUFFICES ASSUME NEW r \in 1 .. n PROVE SubNext(r) \in 1 .. End /\ SubNext(r) > r
        OBVIOUS
    <2>1. CASE walk = "sub"
        <3>1. AtNext(r) = r + 1 /\ r + 1 \in 1 .. End
            BY <1>1
        <3>2. SubValid(r + 1) => AtNext(r + 1) = r + 2 /\ r + 2 \in 1 .. End
            BY <1>1, <1>4
        <3>3. SubNext(r) = IF SubValid(r + 1) /\ seq[r + 1] = under THEN AtNext(r + 1) ELSE r + 1
            BY <2>1, <3>1 DEF SubNext, PastAnchor
        <3> QED  BY <3>1, <3>2, <3>3, <1>1
    <2>2. CASE walk # "sub"
        <3> DEFINE after(q) == ~SubValid(q) \/ BeginPosition[seq[q]] >= EndPosition[seq[r]]
                   T == {q \in r + 1 .. End : after(q)}
        <3>1. End \in T
            BY <1>1, <1>4
        <3>2. PICK m \in T : \A j \in T : m <= j
            <4>1. T \in SUBSET Nat
                BY <1>1
            <4> HIDE DEF T
            <4> QED  BY <3>1, <4>1, LeastExists
        <3>3. \A q \in r + 1 .. m - 1 : ~after(q)
            <4> SUFFICES ASSUME NEW q \in r + 1 .. m - 1, after(q) PROVE FALSE
                OBVIOUS
            <4>1. m \in r + 1 .. End
                BY <3>2
            <4>2. q \in r + 1 .. End /\ q < m
                BY <4>1, <1>1
            <4> HIDE DEF after
            <4> QED  BY <4>1, <4>2, <3>2, <1>1
        <3> DEFINE behind == CHOOSE q \in r + 1 .. End : after(q) /\ \A k \in r + 1 .. q - 1 : ~after(k)
        <3>4. behind \in r + 1 .. End
            <4> HIDE DEF after
            <4> QED  BY <3>2, <3>3
        <3>5. SubNext(r) = behind
            BY <2>2 DEF SubNext, BehindThis
        <3> HIDE DEF behind
        <3> QED  BY <3>4, <3>5, <1>1
    <2> QED  BY <2>1, <2>2
<1>10. SubLast(p) \in 1 .. End
    <2>1. CASE ~SubValid(SubFirst(p))
        BY <2>1, <1>8 DEF SubLast
    <2>2. CASE SubValid(SubFirst(p))
        <3> DEFINE T == {r \in 1 .. n : SubValid(r)}
        <3>1. T \in SUBSET (1 .. n) /\ SubFirst(p) \in T
            BY <2>2, <1>4
        <3>2. \A r \in T : SubValid(SubNext(r)) => SubNext(r) \in T /\ SubNext(r) > r
            BY <1>4, <1>9
        <3> HIDE DEF T
        <3>3. PICK r \in T : SubLast(p) = PastAnchor(MovedTo(seq[r], p), AtPrevious(MovedTo(seq[r], p)))
            BY <3>1, <3>2, <2>2, LastIs DEF n
        <3>4. MovedTo(seq[r], p) \in 1 .. End
            BY <3>1, <1>1, <1>3
        <3> QED  BY <3>3, <3>4, <1>7
    <2> QED  BY <2>1, <2>2
<1>11. SubValid(p) => PastAnchor(AtPrevious(p), AtPrevious(AtPrevious(p))) \in 1 .. End
    BY <1>4, <1>5, <1>7
<1> QED  BY <1>1, <1>3, <1>4, <1>8, <1>9, <1>10, <1>11

\* What an iterator is at any time: over annotations it is over all of an ordered index.
WalkFits ==
    /\ IteratorFits
    /\ shown \in [FS -> {"yes", "no", "throws"}]
    /\ pos \in 0 .. End
    /\ walk \in {"plain", "sub", "unambiguousSub", "unambiguous"}
    /\ pos = 0 => walk = "plain"
    /\ pos = 0 \/ walk # "plain" => \A fs \in FS : shown[fs] = "yes"
    /\ walk # "plain" => kind = "ordered" /\ under \in FS

\* One over annotations skips nothing.
LEMMA WalkIsUnskipped ==
    ASSUME IteratorFits, walk \in {"sub", "unambiguousSub", "unambiguous"}, kind = "ordered", under \in FS,
           \A fs \in FS : shown[fs] = "yes"
    PROVE  Unskipped
<1>1. seq \in Seq(FS) /\ Rising(seq) /\ ToSet(seq) = Held /\ Len(seq) = Cardinality(Held)
    BY DEF IteratorFits
<1>2. IsInjective(seq)
    BY <1>1, EachOnce
<1> QED  BY <1>1, <1>2 DEF Unskipped

\* In the state a subiterator is made in: it is within its index.
LEMMA FirstWithin ==
    IteratorFits /\ walk \in {"sub", "unambiguousSub", "unambiguous"} /\ kind = "ordered" /\ under \in FS
        /\ (\A fs \in FS : shown[fs] = "yes") => SubFirst(End) \in 1 .. End
<1> SUFFICES ASSUME IteratorFits, walk \in {"sub", "unambiguousSub", "unambiguous"}, kind = "ordered", under \in FS,
                    \A fs \in FS : shown[fs] = "yes"
             PROVE  SubFirst(End) \in 1 .. End
    OBVIOUS
<1>1. Unskipped
    BY WalkIsUnskipped
<1>2. End \in 1 .. End
    BY <1>1, UnskippedIs
<1> QED  BY <1>1, <1>2, PlacesWithin

\* Before it is made it is nowhere.
LEMMA WalkInitFits == IteratorInit /\ SubInit => WalkFits
<1> SUFFICES ASSUME IteratorInit, SubInit PROVE WalkFits
    OBVIOUS
<1>1. IteratorFits
    BY IteratorInitFits
<1>2. seq = << >> /\ pos = 0 /\ walk = "plain" /\ shown = [fs \in FS |-> "yes"]
    BY DEF IteratorInit, SubInit
<1>3. 0 \in 0 .. End
    BY <1>2 DEF End
<1> QED  BY <1>1, <1>2, <1>3 DEF WalkFits

\* Whatever it does, it stays in its index.
LEMMA WalkStepFits == WalkFits /\ [PlainNext \/ SubIteratorNext]_<<iteratorVars, subVars>> => WalkFits'
<1> SUFFICES ASSUME WalkFits, [PlainNext \/ SubIteratorNext]_<<iteratorVars, subVars>>
             PROVE  WalkFits'
    OBVIOUS
<1>1. IteratorFits'
    BY IteratorStepFits DEF WalkFits
<1>2. /\ seq \in Seq(FS) /\ Len(seq) \in Nat /\ End = Len(seq) + 1 /\ pos \in 0 .. End
      /\ (walk # "plain" => Unskipped)
      /\ (pos = 0 => walk = "plain")
    BY WalkIsUnskipped DEF WalkFits, IteratorFits, End
<1>3. ASSUME NEW p \in 1 .. End, Moves(p), UNCHANGED subVars, pos # 0 PROVE WalkFits'
    <2>1. seq' = seq /\ shown' = shown /\ pos' = p /\ kind' = kind /\ walk' = walk /\ under' = under
        BY <1>3 DEF Moves, Constant, subVars
    <2>2. End' = End /\ p # 0 /\ p \in 0 .. End
        BY <2>1, <1>2 DEF End
    <2> QED  BY <1>1, <2>1, <2>2, <1>3 DEF WalkFits
<1>4. CASE PlainNext
    <2>1. walk = "plain" /\ walk' = "plain" /\ UNCHANGED subVars /\ IteratorNext
        BY <1>4 DEF PlainNext, subVars
    <2>2. ASSUME NEW f \in [FS -> {"yes", "no", "throws"}], NEW b, CreateIterator(f, b) PROVE WalkFits'
        <3>1. seq' \in Seq(FS)
            BY <1>1 DEF IteratorFits
        <3>2. Len(seq') \in Nat /\ DOMAIN seq' = 1 .. Len(seq') /\ End' = Len(seq') + 1
            BY <3>1 DEF End
        <3> DEFINE at == {i \in DOMAIN seq' : f[seq'[i]] # "no"}
        <3>3. pos' = IF at = {} THEN Len(seq') + 1 ELSE CHOOSE i \in at : \A j \in at : i <= j
            BY <2>2 DEF CreateIterator
        <3>4. pos' \in 1 .. End'
            <4>1. CASE at = {}
                BY <4>1, <3>2, <3>3
            <4>2. CASE at # {}
                <5>1. at \in SUBSET Nat /\ at \in SUBSET (1 .. Len(seq'))
                    BY <3>2
                <5> HIDE DEF at
                <5>2. PICK i \in at : \A j \in at : i <= j
                    BY <4>2, <5>1, LeastExists
                <5>3. pos' \in at
                    BY <4>2, <5>2, <3>3
                <5> QED  BY <5>1, <5>3, <3>2
            <4> QED  BY <4>1, <4>2
        <3>5. pos' \in 0 .. End' /\ pos' # 0
            BY <3>2, <3>4
        <3>6. shown' = f
            BY <2>2 DEF CreateIterator
        <3> QED  BY <1>1, <2>1, <3>5, <3>6 DEF WalkFits
    <2>3. CASE CreateIterator([fs \in FS |-> "yes"], FALSE)
        BY <2>2, <2>3
    <2>4. ASSUME NEW t \in TypeSets, TypeSetIterator(t) PROVE WalkFits'
        <3>1. TypeSet(t) \in [FS -> {"yes", "no", "throws"}]
            BY DEF TypeSet, ShownIf
        <3> QED  BY <2>2, <2>4, <3>1 DEF TypeSetIterator
    <2>5. ASSUME NEW f \in Filters, FilteredIterator(f) PROVE WalkFits'
        <3>1. [fs \in FS |-> Negated(f[fs])] \in [FS -> {"yes", "no", "throws"}]
            BY IteratorAssumption DEF Negated
        <3> QED  BY <2>2, <2>5, <3>1 DEF FilteredIterator
    <2>6. 1 \in Nat \ {0} /\ End \in 1 .. End
        BY <1>2
    <2>7. AtFirst \in 1 .. End
        BY <1>2, <2>6, ForwardIs DEF AtFirst
    <2>8. \A p \in 1 .. Len(seq) : SkipBackward(p) \in 1 .. End
        BY <1>2, BackwardIs
    <2>9. SkipBackward(End) = End
        BY <1>2, BackwardIs
    <2>10. AtLast \in 1 .. End
        <3>1. seq # << >> => Len(seq) \in 1 .. Len(seq)
            BY <1>2
        <3> QED  BY <2>6, <2>8, <2>9, <3>1 DEF AtLast
    <2>11. ASSUME NEW p \in 1 .. Len(seq) PROVE AtNext(p) \in 1 .. End /\ AtPrevious(p) \in 1 .. End
        <3>1. p + 1 \in Nat \ {0}
            BY <1>2
        <3>2. p = 1 \/ p - 1 \in 1 .. Len(seq)
            BY <1>2
        <3>3. AtNext(p) \in 1 .. End
            BY <1>2, <3>1, ForwardIs DEF AtNext
        <3>4. AtPrevious(p) \in 1 .. End
            BY <2>6, <2>8, <2>9, <3>2 DEF AtPrevious
        <3> QED  BY <3>3, <3>4
    <2>12. IsValid => pos \in 1 .. Len(seq) /\ pos # 0
        BY <1>2 DEF IsValid
    <2>13. CASE MoveToFirst
        BY <2>1, <2>7, <2>13, <1>3 DEF MoveToFirst
    <2>14. CASE MoveToLast
        BY <2>1, <2>10, <2>14, <1>3 DEF MoveToLast
    <2>15. CASE MoveToNext
        BY <2>1, <2>11, <2>12, <2>15, <1>3 DEF MoveToNext
    <2>16. CASE MoveToPrevious
        BY <2>1, <2>11, <2>12, <2>16, <1>3 DEF MoveToPrevious
    <2>17. \A p \in 1 .. End : p = End \/ p \in 1 .. Len(seq)
        BY <1>2
    <2>18. CASE PeekNext
        <3>1. PICK p : p = AtNext(pos)
            OBVIOUS
        <3>2. pos \in 1 .. Len(seq) /\ pos # 0 /\ Moves(IF p = End THEN AtLast ELSE AtPrevious(p)) /\ p \in 1 .. End
            BY <2>11, <2>12, <2>18, <3>1 DEF PeekNext
        <3>3. p # End => AtPrevious(p) \in 1 .. End
            BY <2>11, <2>17, <3>2
        <3> QED  BY <2>1, <2>10, <3>2, <3>3, <1>3
    <2>19. CASE PeekPrevious
        <3>1. PICK p : p = AtPrevious(pos)
            OBVIOUS
        <3>2. pos \in 1 .. Len(seq) /\ pos # 0 /\ Moves(IF p = End THEN AtFirst ELSE AtNext(p)) /\ p \in 1 .. End
            BY <2>11, <2>12, <2>19, <3>1 DEF PeekPrevious
        <3>3. p # End => AtNext(p) \in 1 .. End
            BY <2>11, <2>17, <3>2
        <3> QED  BY <2>1, <2>7, <3>2, <3>3, <1>3
    <2>20. ASSUME NEW fs \in FS, MoveTo(fs) PROVE WalkFits'
        <3>1. PICK a : a = PlaceOf(fs)
            OBVIOUS
        <3>2. a \in 1 .. End
            BY <1>2, <3>1, PlaceIs
        <3>3. a \in Nat \ {0}
            BY <1>2, <3>2
        <3>4. SkipForward(a) \in 1 .. End
            BY <1>2, <3>3, ForwardIs
        <3>5. pos # 0 /\ Moves(IF a = End THEN pos ELSE IF filtered THEN a ELSE SkipForward(a))
            BY <2>20, <3>1 DEF MoveTo
        <3>6. pos \in 1 .. End
            BY <1>2, <3>5
        <3> QED  BY <2>1, <3>2, <3>4, <3>5, <3>6, <1>3
    <2> QED  BY <2>1, <2>3, <2>4, <2>5, <2>13, <2>14, <2>15, <2>16, <2>18, <2>19, <2>20 DEF IteratorNext
<1>5. CASE SubIteratorNext
    <2>1. ASSUME NEW an \in FS, NEW w \in {"sub", "unambiguousSub", "unambiguous"}, CreateSubIterator(an, w)
          PROVE  WalkFits'
        <3>1. walk' = w /\ under' = an /\ kind' = "ordered" /\ shown' = shown /\ pos' = SubFirst(End)' /\ pos = 0
            BY <2>1 DEF CreateSubIterator
        <3>2. shown \in [FS -> {"yes", "no", "throws"}] /\ \A fs \in FS : shown[fs] = "yes"
            BY <3>1 DEF WalkFits
        <3>3. (IteratorFits /\ walk \in {"sub", "unambiguousSub", "unambiguous"} /\ kind = "ordered" /\ under \in FS
                 /\ (\A fs \in FS : shown[fs] = "yes") => SubFirst(End) \in 1 .. End)'
            BY FirstWithin, PTL
        <3>4. pos' \in 1 .. End'
            BY <1>1, <3>1, <3>2, <3>3
        <3>5. End' \in Nat /\ pos' \in 0 .. End' /\ pos' # 0
            <4>1. seq' \in Seq(FS)
                BY <1>1 DEF IteratorFits
            <4>2. End' \in Nat
                BY <4>1 DEF End
            <4> QED  BY <4>2, <3>4
        <3> QED  BY <1>1, <3>1, <3>2, <3>5 DEF WalkFits
    <2>2. Walking => UNCHANGED subVars /\ Unskipped /\ pos # 0 /\ pos \in 1 .. End
        BY <1>2 DEF Walking
    <2>3. CASE SubMoveToFirst
        BY <2>2, <2>3, <1>3, PlacesWithin DEF SubMoveToFirst
    <2>4. CASE SubMoveToNext
        BY <2>2, <2>4, <1>3, PlacesWithin DEF SubMoveToNext
    <2>5. CASE SubMoveToLast
        BY <2>2, <2>5, <1>3, PlacesWithin DEF SubMoveToLast
    <2>6. CASE SubMoveToPrevious
        BY <2>2, <2>6, <1>3, PlacesWithin DEF SubMoveToPrevious
    <2>7. ASSUME NEW fs \in FS, SubMoveTo(fs) PROVE WalkFits'
        BY <2>2, <2>7, <1>3, PlacesWithin DEF SubMoveTo
    <2> QED  BY <1>5, <2>1, <2>3, <2>4, <2>5, <2>6, <2>7 DEF SubIteratorNext
<1>6. CASE UNCHANGED <<iteratorVars, subVars>>
    <2>1. seq' = seq /\ shown' = shown /\ pos' = pos /\ kind' = kind /\ walk' = walk /\ under' = under
        BY <1>6 DEF iteratorVars, subVars
    <2>2. End' = End
        BY <2>1 DEF End
    <2> QED  BY <1>1, <2>1, <2>2 DEF WalkFits
<1> QED  BY <1>4, <1>5, <1>6

\* There is one place where an annotation stands.
LEMMA StandsOnce ==
    ASSUME Unskipped, NEW a, NEW b, Stands(under, a), Stands(under, b)
    PROVE  a = b
<1> DEFINE n == Len(seq)
<1>1. n \in Nat /\ DOMAIN seq = 1 .. n /\ End = n + 1 /\ a \in 1 .. n + 1 /\ b \in 1 .. n + 1
    BY UnskippedIs DEF Stands
<1>2. CASE under \in ToSet(seq)
    BY <1>1, <1>2 DEF Stands, Unskipped, IsInjective
<1>3. CASE under \notin ToSet(seq)
    <2>1. ASSUME NEW x \in 1 .. n + 1, NEW y \in 1 .. n + 1, x < y, Stands(under, x), Stands(under, y) PROVE FALSE
        <3>1. x \in 1 .. y - 1 /\ x \in x .. n /\ x \in 1 .. n
            BY <1>1, <2>1
        <3>2. Key[seq[x]] < Key[under] /\ Key[seq[x]] >= Key[under]
            BY <1>3, <2>1, <3>1 DEF Stands
        <3>3. seq[x] \in FS /\ under \in FS
            BY <1>1, <3>1 DEF Unskipped
        <3>4. Key[seq[x]] \in Int /\ Key[under] \in Int
            BY <3>3, IteratorAssumption
        <3> QED  BY <3>2, <3>4
    <2>2. a < b \/ a = b \/ b < a
        BY <1>1
    <2> QED  BY <1>1, <2>1, <2>2
<1> QED  BY <1>2, <1>3

\* What is known of a walk in each state, to be used after a step: where its annotation stands, ...
LEMMA PlaceStands == Unskipped => Stands(under, PlaceOf(under))
BY PlaceIs DEF Unskipped

\* ... what the least of those below is, ...
LEMMA BelowLeast == OnIndex => \A i \in Below : (\A j \in Below : i <= j) => Least(Below) = i
<1> SUFFICES ASSUME OnIndex, NEW i \in Below, \A j \in Below : i <= j PROVE Least(Below) = i
    OBVIOUS
<1>1. Len(seq) \in Nat
    BY UnskippedIs DEF OnIndex
<1>2. PICK l \in 0 .. Len(seq) : Below \in SUBSET (l + 1 .. Len(seq))
    BY BelowIs
<1>3. \A j \in Below : j \in l + 1 .. Len(seq) /\ j \in 1 .. Len(seq)
    BY <1>1, <1>2
<1>4. Below \in SUBSET (1 .. Len(seq)) /\ Below # {}
    BY <1>3
<1> QED  BY <1>1, <1>4, LeastIs

\* Moving leaves what is below where it is.
LEMMA BelowStays ==
    ASSUME Unskipped, Unskipped', seq' = seq, kind' = kind, UNCHANGED subVars
    PROVE  /\ PlaceOf(under)' = PlaceOf(under) /\ End' = End
           /\ Below' = Below /\ \A p : SubValid(p) = (p \in 1 .. Len(seq')
                /\ (walk' # "unambiguous" => BeginPosition[seq'[p]] >= BeginPosition[under']
                                             /\ BeginPosition[seq'[p]] < EndPosition[under']))
<1>1. walk' = walk /\ under' = under
    BY DEF subVars
<1>2. End' = End
    BY DEF End
<1>3. PlaceOf(under)' = PlaceOf(under)
    <2>1. PICK a : a = PlaceOf(under)
        OBVIOUS
    <2>2. PICK b : b = PlaceOf(under)'
        OBVIOUS
    <2>3. Stands(under, a)
        BY <2>1, PlaceStands
    <2>4. (Unskipped => Stands(under, PlaceOf(under)))'
        BY PlaceStands, PTL
    <2>5. Stands(under, b)
        BY <2>2, <2>4, <1>1, <1>2 DEF Stands, ToSet
    <2> QED  BY <2>1, <2>2, <2>3, <2>5, StandsOnce
<1>4. Anchor' = Anchor
    BY <1>1, <1>3 DEF Anchor, ToSet
<1>5. Below' = Below
    BY <1>1, <1>4 DEF Below
<1>6. \A p : SubValid(p) = (p \in 1 .. Len(seq')
                /\ (walk' # "unambiguous" => BeginPosition[seq'[p]] >= BeginPosition[under']
                                             /\ BeginPosition[seq'[p]] < EndPosition[under']))
    BY <1>1 DEF SubValid
<1> QED  BY <1>2, <1>3, <1>5, <1>6

\* ... and that it skips nothing.
LEMMA WalkFitsUnskipped == WalkFits /\ walk # "plain" => Unskipped
BY WalkIsUnskipped DEF WalkFits

\* Each step over annotations shows the next of those below.
LEMMA FitsWalks ==
    WalkFits /\ [PlainNext \/ SubIteratorNext]_<<iteratorVars, subVars>> /\ WalkFits'
        => [WalksShown /\ WalksBelow]_<<iteratorVars, subVars>>
<1> SUFFICES ASSUME WalkFits, WalkFits', [PlainNext \/ SubIteratorNext]_<<iteratorVars, subVars>>
             PROVE  WalksShown /\ WalksBelow
    OBVIOUS
<1>1. WalksShown
    BY PlainWalks DEF WalkFits, IteratorFits
<1>2. ASSUME walk' # "plain"
      PROVE  /\ pos = 0 => EndsAt(pos, Below)'
             /\ SubMoveToFirst => IF StaysAbove THEN pos' = pos ELSE EndsAt(pos, Below)'
             /\ SubMoveToNext /\ pos \in Below => EndsAt(pos', {i \in Below : i > pos /\ Clear(pos, i)})
             /\ SubMoveToLast /\ Below # {} =>
                   pos' \in Below /\ \A i \in Below : i > pos' => ~Clear(pos', i)
    <2>1. Unskipped'
        <3>1. (WalkFits /\ walk # "plain" => Unskipped)'
            BY WalkFitsUnskipped, PTL
        <3> QED  BY <1>2, <3>1
    <2>2. CASE pos = 0
        <3>1. walk = "plain"
            BY <2>2 DEF WalkFits
        <3>2. PICK an, w : CreateSubIterator(an, w)
            <4>1. ~Walking /\ walk' # walk
                BY <1>2, <3>1 DEF Walking
            <4>2. SubIteratorNext
                BY <4>1 DEF PlainNext, subVars
            <4> QED  BY <4>1, <4>2 DEF SubIteratorNext, SubMoveToFirst, SubMoveToNext, SubMoveToLast,
                        SubMoveToPrevious, SubMoveTo
        <3>3. pos' = SubFirst(End)'
            BY <3>2 DEF CreateSubIterator
        <3>4. (Unskipped => EndsAt(SubFirst(End), Below))'
            BY MadeEnds, PTL
        <3>5. EndsAt(pos, Below)'
            BY <2>1, <3>3, <3>4 DEF EndsAt, SubValid
        <3> QED  BY <3>1, <3>5 DEF SubMoveToFirst, SubMoveToNext, SubMoveToLast, Walking
    <2>3. ASSUME NEW p, Walking, Moves(p)
          PROVE  /\ Unskipped /\ Below' = Below /\ pos' = p
                 /\ SubValid(pos)' = SubValid(p)
                 /\ OnIndex => OnIndex'
        <3>1. seq' = seq /\ kind' = kind /\ UNCHANGED subVars /\ pos' = p /\ walk' = walk
            BY <2>3 DEF Moves, Constant, Walking, subVars
        <3>2. Unskipped
            BY <2>3, WalkIsUnskipped DEF WalkFits, Walking
        <3>3. PlaceOf(under)' = PlaceOf(under) /\ End' = End /\ Below' = Below
            BY <2>1, <3>1, <3>2, BelowStays
        <3>4. OnIndex => OnIndex'
            BY <2>1, <3>1, <3>3 DEF OnIndex
        <3>5. SubValid(pos)' = SubValid(p)
            BY <3>1 DEF SubValid, subVars
        <3> QED  BY <3>1, <3>2, <3>3, <3>4, <3>5
    <2>4. Unskipped /\ ~OnIndex => Below = {} /\ walk # "unambiguous" /\ PlaceOf(under) = End
        BY NothingIsBelow DEF OnIndex
    <2>5. ASSUME SubMoveToFirst
          PROVE  IF StaysAbove THEN pos' = pos ELSE EndsAt(pos, Below)'
        <3>1. /\ Unskipped /\ Below' = Below /\ pos' = SubFirst(pos) /\ SubValid(pos)' = SubValid(SubFirst(pos))
              /\ OnIndex => OnIndex'
            BY <2>3, <2>5 DEF SubMoveToFirst
        <3>2. CASE ~OnIndex
            <4>1. Below = {} /\ walk # "unambiguous" /\ PlaceOf(under) = End
                BY <2>4, <3>1, <3>2
            <4>2. SubFirst(pos) = PastAnchor(pos, AtNext(pos)) /\ (SubValid(pos) => seq[pos] # under)
                BY <3>1, <4>1, NothingIsBelow
            <4>3. SubFirst(pos) = pos
                BY <4>2 DEF PastAnchor
            <4>4. CASE SubValid(pos)
                BY <3>1, <4>1, <4>3, <4>4 DEF StaysAbove
            <4>5. CASE ~SubValid(pos)
                BY <3>1, <4>1, <4>3, <4>5 DEF StaysAbove, EndsAt
            <4> QED  BY <4>4, <4>5
        <3>3. ASSUME OnIndex PROVE ~StaysAbove /\ EndsAt(SubFirst(pos), Below)
            BY <3>3, FirstEnds DEF StaysAbove, OnIndex
        <3>4. CASE OnIndex /\ Below = {}
            BY <3>1, <3>3, <3>4 DEF EndsAt
        <3>5. CASE OnIndex /\ Below # {}
            <4>1. SubFirst(pos) = Least(Below)
                BY <3>3, <3>5 DEF EndsAt
            <4>2. Len(seq) \in Nat
                BY <3>1, UnskippedIs
            <4>3. PICK l \in 0 .. Len(seq) : Below \in SUBSET (l + 1 .. Len(seq))
                BY <3>5, BelowIs
            <4>4. \A j \in Below : j \in l + 1 .. Len(seq) /\ j \in 1 .. Len(seq)
                BY <4>2, <4>3
            <4>5. Below \in SUBSET (1 .. Len(seq))
                BY <4>4
            <4>6. pos' \in Below /\ \A j \in Below : pos' <= j
                BY <3>1, <3>5, <4>1, <4>2, <4>5, LeastIs
            <4>7. (OnIndex => \A i \in Below : (\A j \in Below : i <= j) => Least(Below) = i)'
                BY BelowLeast, PTL
            <4>8. Least(Below)' = pos'
                BY <3>1, <3>5, <4>6, <4>7
            <4> QED  BY <3>1, <3>3, <3>5, <4>8 DEF EndsAt
        <3> QED  BY <3>2, <3>4, <3>5
    <2>6. ASSUME SubMoveToNext, pos \in Below
          PROVE  EndsAt(pos', {i \in Below : i > pos /\ Clear(pos, i)})
        <3>1. OnIndex /\ pos' = SubNext(pos)
            BY <2>3, <2>4, <2>6 DEF SubMoveToNext
        <3> QED  BY <2>6, <3>1, NextEnds
    <2>7. ASSUME SubMoveToLast, Below # {}
          PROVE  pos' \in Below /\ \A i \in Below : i > pos' => ~Clear(pos', i)
        <3>1. OnIndex /\ pos' = SubLast(pos) /\ walk # "unambiguous"
            BY <2>3, <2>4, <2>7 DEF SubMoveToLast
        <3> QED  BY <2>7, <3>1, LastEnds
    <2> QED  BY <2>2, <2>5, <2>6, <2>7
<1>3. WalksBelow
    BY <1>2 DEF WalksBelow, EndsAt
<1> QED  BY <1>1, <1>3

\* However long an index, whatever it is filtered by and whatever its annotations span: iterators of
\* all kinds come by each thing they are to show, in its order (lowlevel_internal_indexes.cpp; the
\* iterators over annotations of cas.cpp show those below, the unambiguous ones those that are clear of
\* the one before, and moveToLast() stops where the walk does).
THEOREM IteratorsAlwaysWalk == IteratorSpec => IteratorsWalk
<1>1. IteratorSpec => []WalkFits
    BY WalkInitFits, WalkStepFits, PTL DEF IteratorSpec
<1> QED  BY <1>1, FitsWalks, PTL DEF IteratorSpec, IteratorsWalk

===============================================================================
